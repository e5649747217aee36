------------------------------ MODULE LoopsProofs ------------------------------
(******************************************************************************)
(* Proofs about Loops, for every value of its constants.  A step of Loops is  *)
(* one of Stdio (the reads that loops have begun included), or it changes the *)
(* states of activations that wait for nothing, or it is the result of a read *)
(* that nobody waits for any more; so what is proved of the streams in        *)
(* StdioProofs holds with loops as well.                                      *)
(******************************************************************************)
EXTENDS Loops, StdioProofs

(* What only the steps of loops do.                                           *)
Switches ==
  /\ UNCHANGED <<stdin, reads, guest, jobs, written, out>>
  /\ \E p, r \in Act, s, t \in AnyState \ {"reading"} :
       /\ state[p] \in {"new", "running", "scheduled"} /\ state[r] \in {"new", "running", "scheduled"}
       /\ state' = [state EXCEPT ![p] = s, ![r] = t]

(* The inductive invariant.                                                   *)
LoopIInv == IInv /\ LoopTypeOK

(* Loops are activations of their own.                                        *)
LEMMA LoopsApart == LoopAct \subseteq Act /\ Main \in Act /\ Main \notin LoopAct
  BY ActAssumption, LoopAssumption

(* A change of one state is such a step,                                      *)
LEMMA OneSwitches ==
  ASSUME IInv, NEW p \in Act, state[p] \in {"new", "running", "scheduled"},
         NEW s \in AnyState \ {"reading"}, Become(p, s),
         UNCHANGED <<stdin, reads, guest, jobs, written, out>>
  PROVE  Switches
  <1>1. state' = [state EXCEPT ![p] = s, ![p] = s]
    BY DEF Become, IInv, Typed
  <1> QED BY <1>1 DEF Switches

(* and so is every step of Loops that is none of Stdio.                       *)
LEMMA LoopMoves ==
  ASSUME IInv, NEW p \in Act, NEW l \in LoopAct, NEW infinite \in BOOLEAN,
         loop(p, l, infinite) \/ runner(l) \/ loop_return(l) \/ suspending(l)
  PROVE  Switches
  <1>1. /\ l \in Act /\ UNCHANGED <<stdin, reads, guest, jobs, written, out>>
        /\ {"scheduled", "unwound", "running", "failed"} \subseteq AnyState \ {"reading"}
    BY LoopsApart DEF loop, runner, loop_return, suspending, Unwound, AnyState, State
  <1>2. CASE loop(p, l, infinite) /\ ~Become(p, "failed")
    <2>1. /\ state[p] = "running" /\ state[l] = "new"
          /\ state' = [state EXCEPT ![l] = "scheduled", ![p] = IF infinite THEN "unwound" ELSE @]
      BY <1>2 DEF loop
    <2>2. PICK t \in AnyState \ {"reading"} : state' = [state EXCEPT ![l] = "scheduled", ![p] = t]
      <3>1. CASE infinite
        BY <1>1, <2>1, <3>1
      <3>2. CASE ~infinite
        <4>1. state' = [state EXCEPT ![l] = "scheduled", ![p] = "running"]
          BY <1>1, <2>1, <3>2 DEF IInv, Typed
        <4> QED BY <1>1, <4>1
      <3> QED BY <3>1, <3>2
    <2> QED
      <3> DEFINE Moved(q, r, s, u) ==
                   /\ state[q] \in {"new", "running", "scheduled"}
                   /\ state[r] \in {"new", "running", "scheduled"}
                   /\ state' = [state EXCEPT ![q] = s, ![r] = u]
      <3>1. l \in Act /\ p \in Act /\ "scheduled" \in AnyState \ {"reading"} /\ Moved(l, p, "scheduled", t)
        BY <1>1, <2>1, <2>2
      <3> HIDE DEF Moved
      <3>2. \E q, r \in Act, s, u \in AnyState \ {"reading"} : Moved(q, r, s, u)
        BY <3>1
      <3> QED BY <1>1, <3>2 DEF Switches, Moved
  <1>3. CASE loop(p, l, infinite) /\ Become(p, "failed")
    BY <1>1, <1>3, OneSwitches DEF loop
  <1>4. CASE runner(l) \/ loop_return(l) \/ suspending(l)
    BY <1>1, <1>4, OneSwitches DEF runner, loop_return, scheduler, suspending
  <1> QED BY <1>2, <1>3, <1>4

(* A loop is an activation, and the result of its read a microtask.           *)
LEMMA UnreadResult ==
  ASSUME IInv, NEW l \in LoopAct, unread_result(l)
  PROVE  /\ IInv' /\ state[l] = "reading" /\ Become(l, "failed")
         /\ UNCHANGED <<source, queue, waiting, produced, inbuf, handed, want>>
         /\ UNCHANGED <<memory, content, written, out>>
         /\ SameChunks(jobs, jobs')
  <1>1. /\ l \in Act /\ jobs # << >> /\ Head(jobs).act = l /\ Head(jobs).kind = "result"
        /\ Fails(l) /\ inbuf' = inbuf
    BY LoopsApart DEF unread_result, Runs
  <1>2. jobs \in Seq(JobType) /\ waiting \in Seq(Act) /\ Reactions(jobs, waiting, state)
    BY DEF IInv, Typed, TypedIn
  <1>3. state[l] = "reading"
    BY <1>1, <1>2, FirstJob DEF MayRun, Reaction
  <1>4. IInv'
    BY <1>1, FailsKeeps
  <1>5. SameChunks(jobs, jobs')
    BY <1>1, <1>2, FirstJobIsNoChunk DEF Fails
  <1> QED BY <1>1, <1>3, <1>4, <1>5 DEF Fails, stdin, guest

(* Every step of Loops is one of Stdio, or such a change, or such a result.   *)
LEMMA StdioOrSwitches ==
  ASSUME IInv, [LoopNext]_loopVars
  PROVE  [Next]_vars \/ Switches \/ \E l \in LoopAct : unread_result(l)
  <1>1. ASSUME NEW l \in LoopAct, LoopFunction(l)
        PROVE  Next
    BY <1>1, LoopsApart DEF LoopFunction, Next, Guest
  <1>2. CASE (\E p \in Act \ LoopAct : run(p) \/ Guest(p) \/ Microtask(p) \/ fetched(p)) \/ Environment
    BY <1>2 DEF Next
  <1>3. CASE set_exports \/ UNCHANGED loopVars
    BY <1>3 DEF set_exports, loopVars
  <1>4. CASE \E p \in Act, l \in LoopAct, infinite \in BOOLEAN : loop(p, l, infinite)
    BY <1>4, LoopMoves
  <1>5. CASE \E l \in LoopAct : runner(l) \/ loop_return(l) \/ suspending(l)
    BY <1>5, LoopMoves, LoopsApart
  <1>6. ASSUME NEW l \in LoopAct, Abandoned(l)
        PROVE  Next \/ unread_result(l)
    BY <1>6, LoopsApart DEF Abandoned, Next, Microtask
  <1> QED BY <1>1, <1>2, <1>3, <1>4, <1>5, <1>6 DEF LoopNext

(* Such a change keeps what is said of the streams.                           *)
LEMMA SwitchesKeep ==
  ASSUME IInv, Switches
  PROVE  IInv'
  <1>1. PICK p \in Act, r \in Act, s \in AnyState \ {"reading"}, t \in AnyState \ {"reading"} :
          /\ state[p] \in {"new", "running", "scheduled"} /\ state[r] \in {"new", "running", "scheduled"}
          /\ state' = [state EXCEPT ![p] = s, ![r] = t]
    BY DEF Switches
  <1>2. /\ UNCHANGED <<source, queue, waiting, produced, inbuf, handed, want, got, jobs>>
        /\ UNCHANGED <<guest, written, out>>
    BY DEF Switches, stdin, reads
  <1>3. /\ state \in [Act -> AnyState] /\ jobs \in Seq(JobType) /\ waiting \in Seq(Act)
        /\ Reactions(jobs, waiting, state)
    BY DEF IInv, Typed, TypedIn
  <1>4. NoReaction(p, jobs, waiting) /\ NoReaction(r, jobs, waiting)
    BY <1>1, <1>3, NotReading
  <1> DEFINE first == [state EXCEPT ![p] = s]
  <1>5. first \in [Act -> AnyState] /\ Reactions(jobs, waiting, first)
    BY <1>1, <1>3, <1>4, StateChange
  <1>6. CASE r = p
    <2>1. state' = [state EXCEPT ![p] = t]
      BY <1>1, <1>3, <1>6
    <2>2. state' \in [Act -> AnyState] /\ Reactions(jobs, waiting, state')
      BY <1>1, <1>3, <1>4, <2>1, StateChange
    <2>3. Typed'
      BY <1>2, <2>2, KeepsStreams DEF IInv, Typed, TypedIn, TypedReads
    <2> QED BY <1>2, <2>2, <2>3 DEF IInv, InOrder, WaitsForMore
  <1>7. CASE r # p
    <2>1. state' = [first EXCEPT ![r] = t] /\ first[r] # "returned"
      BY <1>1, <1>3, <1>7
    <2>2. state' \in [Act -> AnyState] /\ Reactions(jobs, waiting, state')
      <3> HIDE DEF first
      <3> QED BY <1>3, <1>4, <1>5, <2>1, StateChange
    <2>3. Typed'
      BY <1>2, <2>2, KeepsStreams DEF IInv, Typed, TypedIn, TypedReads
    <2> QED BY <1>2, <2>2, <2>3 DEF IInv, InOrder, WaitsForMore
  <1> QED BY <1>6, <1>7

(* So every step keeps the invariant of Stdio.                                *)
LEMMA LoopsKeepIInv ==
  ASSUME IInv, [LoopNext]_loopVars
  PROVE  IInv'
  BY StdioOrSwitches, SwitchesKeep, UnreadResult, Inductive

--------------------------------------------------------------------------------
(* The states of loops.                                                       *)

LoopState == {"new", "scheduled", "running", "reading", "exited", "unwound", "failed"}

(* No step undoes the return of run().                                        *)
LEMMA ReturnedStays ==
  ASSUME IInv, [LoopNext]_loopVars, state[Main] = "returned"
  PROVE  state'[Main] = "returned"
  <1>1. ASSUME NEW p \in Act, NEW s, Become(p, s), state[p] # "returned"
        PROVE  state'[Main] = "returned"
    BY <1>1, ActAssumption DEF Become, IInv, Typed
  <1>2. CASE Switches
    BY <1>2, ActAssumption DEF Switches, IInv, Typed
  <1>3. ASSUME NEW p \in Act, Microtask(p)
        PROVE  state'[Main] = "returned"
    <2>1. CASE UNCHANGED state
      BY <2>1
    <2>2. CASE ~UNCHANGED state
      <3>1. /\ jobs # << >> /\ Head(jobs).act = p /\ Head(jobs).kind # "fd_close"
            /\ \E s : Become(p, s)
        BY <1>3, <2>2 DEF Microtask, got_chunk, got_done, got_error, store_result, resume,
           fd_close, Fails, Runs
      <3>2. jobs \in Seq(JobType) /\ waiting \in Seq(Act) /\ Reactions(jobs, waiting, state)
        BY DEF IInv, Typed, TypedIn
      <3>3. MayRun(Head(jobs), state)
        BY <3>1, <3>2, FirstJob
      <3> QED BY <1>1, <3>1, <3>3 DEF MayRun, Reaction
    <2> QED BY <2>1, <2>2
  <1>4. ASSUME NEW p \in Act, run(p) \/ Guest(p) \/ fetched(p)
        PROVE  state'[Main] = "returned"
    <2>1. state[p] # "returned" /\ (UNCHANGED state \/ \E s : Become(p, s))
      BY <1>4 DEF run, Guest, return, proc_exit, unreachable, memory_grow, clock_time_get,
         fd_read, fd_write, fetched
    <2> QED BY <1>1, <2>1
  <1>5. CASE Environment
    BY <1>5 DEF Environment, produce, finish, consume, cancel
  <1>6. ASSUME NEW l \in LoopAct, unread_result(l)
        PROVE  state'[Main] = "returned"
    BY <1>1, <1>6, LoopsApart, UnreadResult
  <1> QED BY <1>2, <1>3, <1>4, <1>5, <1>6, StdioOrSwitches DEF Next, vars

(* Only the closing of the streams by a run that returned closes them.        *)
LEMMA ClosedByReturn ==
  ASSUME IInv, LoopTypeOK, [LoopNext]_loopVars, NEW fd \in Std, out'[fd].state = "closed"
  PROVE  state'[Main] = "returned"
  <1>1. out \in [Std -> Stream]
    BY DEF IInv, Typed, TypedOut
  <1>2. CASE out[fd].state = "closed"
    BY <1>2, ReturnedStays DEF LoopTypeOK
  <1>3. ASSUME NEW p \in Act, fd_close(p)
        PROVE  state'[Main] = "returned"
    <2>1. jobs \in Seq(JobType) /\ waiting \in Seq(Act) /\ Reactions(jobs, waiting, state)
      BY DEF IInv, Typed, TypedIn
    <2>2. MayRun(Head(jobs), state) /\ Head(jobs).kind = "fd_close" /\ UNCHANGED state
      BY <1>3, <2>1, FirstJob DEF fd_close, Runs
    <2> QED BY <2>2 DEF MayRun, Reaction
  <1>4. CASE UNCHANGED out
    BY <1>2, <1>4
  <1>5. ASSUME NEW p \in Act, Guest(p)
        PROVE  out'[fd].state = out[fd].state
    <2>1. CASE \E f \in Std, b \in Buffer : fd_write(p, f, b)
      BY <1>1, <2>1 DEF fd_write, Controller, Std, Stream
    <2> QED BY <1>5, <2>1 DEF Guest, return, proc_exit, unreachable, memory_grow, clock_time_get, fd_read
  <1>6. ASSUME NEW f \in Std, consume(f) \/ cancel(f)
        PROVE  out'[fd].state \in {out[fd].state, "cancelled"}
    BY <1>1, <1>6 DEF consume, cancel, Std, Stream
  <1>7. ASSUME NEW p \in Act, Microtask(p), ~fd_close(p)
        PROVE  UNCHANGED out
    BY <1>7 DEF Microtask, got_chunk, got_done, got_error, store_result, resume, Fails
  <1>8. ASSUME NEW p \in Act, run(p) \/ fetched(p)
        PROVE  UNCHANGED out
    BY <1>8 DEF run, fetched
  <1>9. ASSUME (\E size \in ChunkSizes : produce(size)) \/ \E how \in {"closed", "errored"} : finish(how)
        PROVE  UNCHANGED out
    BY <1>9 DEF produce, finish
  <1>10. CASE Switches \/ UNCHANGED vars
    BY <1>4, <1>10 DEF Switches, vars
  <1>11. ASSUME NEW l \in LoopAct, unread_result(l)
         PROVE  UNCHANGED out
    BY <1>11, UnreadResult
  <1>12. CASE Environment
    BY <1>2, <1>4, <1>6, <1>9, <1>12 DEF Environment
  <1>13. CASE Next
    BY <1>2, <1>3, <1>4, <1>5, <1>7, <1>8, <1>12, <1>13 DEF Next
  <1> QED BY <1>4, <1>10, <1>11, <1>13, StdioOrSwitches

(* The states activations are in.                                             *)
LEMMA StatesWithLoops ==
  ASSUME IInv, LoopTypeOK, [LoopNext]_loopVars
  PROVE  /\ exports' \in BOOLEAN
         /\ \A l \in LoopAct : state'[l] \in LoopState /\ (state'[l] # "new" => exports')
         /\ \A p \in Act \ LoopAct : state'[p] \in State \union {"unwound"}
  <1> DEFINE Good == /\ exports' \in BOOLEAN
                     /\ \A l \in LoopAct : state'[l] \in LoopState /\ (state'[l] # "new" => exports')
                     /\ \A p \in Act \ LoopAct : state'[p] \in State \union {"unwound"}
  <1>1. /\ state \in [Act -> AnyState] /\ exports \in BOOLEAN
        /\ \A l \in LoopAct : state[l] \in LoopState /\ (state[l] # "new" => exports)
        /\ \A p \in Act \ LoopAct : state[p] \in State \union {"unwound"}
    BY DEF IInv, Typed, LoopTypeOK, LoopState
  <1>2. ASSUME UNCHANGED state, exports' \in BOOLEAN, exports => exports'
        PROVE  Good
    BY <1>1, <1>2
  <1>3. ASSUME NEW p \in Act \ LoopAct, NEW s \in State, Become(p, s), UNCHANGED exports
        PROVE  Good
    BY <1>1, <1>3, LoopsApart DEF Become
  <1>4. ASSUME NEW l \in LoopAct, state[l] # "new" \/ exports, NEW s \in LoopState, Become(l, s),
               UNCHANGED exports
        PROVE  Good
    BY <1>1, <1>4, LoopsApart DEF Become
  <1>5. ASSUME NEW p \in Act \ LoopAct, run(p) \/ Guest(p) \/ Microtask(p) \/ fetched(p),
               UNCHANGED exports
        PROVE  Good
    <2>1. UNCHANGED state \/ \E s \in State : Become(p, s)
      BY <1>5 DEF run, Guest, return, proc_exit, unreachable, memory_grow, clock_time_get,
         fd_read, fd_write, Microtask, got_chunk, got_done, got_error, store_result, resume,
         fd_close, fetched, Fails, State
    <2> QED BY <1>1, <1>2, <1>3, <1>5, <2>1
  <1>6. ASSUME NEW p \in Act, NEW l \in LoopAct, NEW infinite \in BOOLEAN, loop(p, l, infinite)
        PROVE  Good
    <2>1. CASE /\ exports /\ state[l] = "new"
               /\ state' = [state EXCEPT ![l] = "scheduled", ![p] = IF infinite THEN "unwound" ELSE @]
      BY <1>1, <1>6, <2>1, LoopsApart DEF loop, LoopState
    <2>2. CASE Become(p, "failed")
      BY <1>1, <1>3, <1>4, <1>6, <2>2 DEF loop, LoopState, State
    <2> QED BY <1>6, <2>1, <2>2 DEF loop
  <1>7. ASSUME NEW l \in LoopAct, runner(l) \/ loop_return(l) \/ suspending(l)
        PROVE  Good
    BY <1>4, <1>7 DEF runner, loop_return, scheduler, suspending, LoopState
  <1>8. ASSUME NEW l \in LoopAct, LoopFunction(l)
        PROVE  Good
    <2>1. /\ state[l] = "running" /\ UNCHANGED exports
          /\ \/ UNCHANGED state \/ Become(l, "exited") \/ Become(l, "failed")
             \/ Become(l, "reading")
      BY <1>8 DEF LoopFunction, proc_exit, unreachable, memory_grow, fd_write, fd_read
    <2> QED BY <1>1, <1>2, <1>4, <2>1 DEF LoopState
  <1>9. ASSUME Environment, UNCHANGED exports
        PROVE  Good
    BY <1>1, <1>2, <1>9 DEF Environment, produce, finish, consume, cancel
  <1>10. ASSUME set_exports \/ UNCHANGED loopVars
         PROVE  Good
    BY <1>1, <1>2, <1>10 DEF set_exports, loopVars, vars
  <1>11. ASSUME NEW l \in LoopAct, Abandoned(l), UNCHANGED exports
         PROVE  Good
    <2>1. /\ l \in Act /\ jobs # << >> /\ Head(jobs).act = l
          /\ Head(jobs).kind \in {"chunk", "closed", "errored", "result"}
          /\ UNCHANGED state \/ Become(l, "failed")
      BY <1>11, LoopsApart DEF Abandoned, got_chunk, got_done, got_error, unread_result, Runs, Fails
    <2>2. jobs \in Seq(JobType) /\ waiting \in Seq(Act) /\ Reactions(jobs, waiting, state)
      BY DEF IInv, Typed, TypedIn
    <2>3. state[l] = "reading"
      BY <2>1, <2>2, FirstJob DEF MayRun, Reaction
    <2> QED BY <1>1, <1>2, <1>4, <1>11, <2>1, <2>3 DEF LoopState
  <1> HIDE DEF Good
  <1>12. Good
    BY <1>5, <1>6, <1>7, <1>8, <1>9, <1>10, <1>11 DEF LoopNext
  <1> QED BY <1>12 DEF Good

(* Every step keeps the invariant.                                            *)
LEMMA LoopInductive == LoopIInv /\ [LoopNext]_loopVars => LoopIInv'
  <1> SUFFICES ASSUME LoopIInv, [LoopNext]_loopVars
               PROVE  LoopIInv'
    OBVIOUS
  <1>1. IInv'
    BY LoopsKeepIInv DEF LoopIInv
  <1>2. (\E fd \in Std : out'[fd].state = "closed") => state'[Main] = "returned"
    BY ClosedByReturn DEF LoopIInv
  <1>3. LoopTypeOK'
    BY <1>2, StatesWithLoops DEF LoopTypeOK, LoopIInv, LoopState
  <1> QED BY <1>1, <1>3 DEF LoopIInv

(* The invariant holds at first.                                              *)
LEMMA LoopInitial == LoopInit => LoopIInv
  <1>1. LoopInit => LoopTypeOK
    <2> SUFFICES ASSUME LoopInit
                 PROVE  LoopTypeOK
      OBVIOUS
    <2>1. /\ exports = FALSE /\ \A p \in Act : state[p] = "new"
          /\ \A fd \in Std : out[fd].state = "open"
      BY DEF LoopInit, Init
    <2> QED BY <2>1, LoopsApart DEF LoopTypeOK, State
  <1> QED BY <1>1, Initial DEF LoopInit, LoopIInv

--------------------------------------------------------------------------------
(* The theorems.                                                              *)

(* The invariant holds of every behaviour with loops: timers, the calls of    *)
(* their functions and the reads these leave behind (Wasi.ts 148-182) keep    *)
(* the bytes of stdin in order and give every read one reaction at most.      *)
THEOREM LoopInvariance == LoopSpec => []LoopIInv
  BY LoopInitial, LoopInductive, PTL DEF LoopSpec

(* Worker.#loop and Loop.ts: a loop is in a state of loops, and was set after *)
(* the exports; streams are closed only by a run() that returned.             *)
THEOREM LoopTypes == LoopSpec => []LoopTypeOK
  BY LoopInvariance, PTL DEF LoopIInv

(* Loop.ts 28-31 and Instance.ts 34: a write of a loop fails only if a        *)
(* consumer cancelled or run() returned.                                      *)
THEOREM LoopsCanWrite == LoopSpec => LoopCanWrite
  <1>1. ASSUME LoopIInv, NEW l \in LoopAct, NEW fd \in Std, NEW b \in Buffer,
               fd_write(l, fd, b), state'[l] = "failed"
        PROVE  state[Main] = "returned" \/ out[1].state = "cancelled" \/ out[2].state = "cancelled"
    <2>1. out[fd].state # "open" /\ out[fd] \in Stream
      BY <1>1 DEF fd_write, Controller, LoopIInv, IInv, Typed, TypedOut
    <2>2. out[fd].state \in {"closed", "cancelled"}
      BY <2>1 DEF Stream
    <2> QED BY <1>1, <2>2 DEF LoopIInv, LoopTypeOK, Std
  <1> DEFINE A == \A l \in LoopAct, fd \in Std, b \in Buffer :
                    fd_write(l, fd, b) /\ state'[l] = "failed" =>
                      state[Main] = "returned" \/ out[1].state = "cancelled" \/ out[2].state = "cancelled"
  <1>2. LoopIInv => A
    BY <1>1
  <1> HIDE DEF A
  <1>3. LoopSpec => [][A]_vars
    BY <1>2, LoopInvariance, PTL
  <1> QED BY <1>3 DEF LoopCanWrite, A

(* Wasi.ts 148-170, with loops, and the reads of theirs that nobody waits for: *)
(* bytes are handed out in order, none twice.                                 *)
THEOREM BytesInOrderWithLoops == LoopSpec => []HandedInOrder
  <1>1. IInv => HandedInOrder
    BY DEF IInv, InOrder, Ordered, Taken, Ascending, HandedInOrder
  <1> QED BY <1>1, LoopInvariance, PTL DEF LoopIInv

(* Wasi.ts 148-170 and Loop.ts 17-24: with loops, too, a byte is skipped only *)
(* when two activations have read. A loop is one of them: the fd_read that    *)
(* ends it has begun a readv, which goes on.                                  *)
THEOREM SkipsNeedTwoWithLoops == LoopSpec => []SkipNeedsTwoReaders
  <1>1. LoopIInv /\ Solo /\ [LoopNext]_loopVars => Solo'
    <2> SUFFICES ASSUME LoopIInv, Solo, [LoopNext]_loopVars
                 PROVE  Solo'
      OBVIOUS
    <2>1. IInv /\ want \in [Act -> Nat] /\ state \in [Act -> AnyState]
      BY DEF LoopIInv, IInv, Typed, TypedReads
    <2>2. CASE [Next]_vars
      BY <2>1, <2>2, SoloStep
    <2>3. ASSUME UNCHANGED <<source, queue, waiting, produced, inbuf, handed, want>>,
                 SameChunks(jobs, jobs'),
                 \A q \in Act : state'[q] = "reading" => state[q] = "reading"
          PROVE  Solo'
      <3>1. ReadersWant' /\ \A r \in Act : Alone(r)' => Alone(r)
        BY <2>1, <2>3, WantsKeep DEF Solo
      <3>2. ASSUME NEW r \in Act, Alone(r)'
            PROVE  Seamless'
        BY <2>3, <3>1, <3>2, SameChunksKeep DEF Solo
      <3> QED BY <3>1, <3>2 DEF Solo
    <2>4. CASE Switches
      <3>1. UNCHANGED <<source, queue, waiting, produced, inbuf, handed, want, jobs>>
        BY <2>4 DEF Switches, stdin, reads
      <3>2. \A q \in Act : state'[q] = "reading" => state[q] = "reading"
        BY <2>1, <2>4 DEF Switches
      <3> QED BY <2>3, <3>1, <3>2 DEF SameChunks
    <2>5. ASSUME NEW l \in LoopAct, unread_result(l)
          PROVE  Solo'
      <3>1. \A q \in Act : state'[q] = "reading" => state[q] = "reading"
        BY <2>1, <2>5, UnreadResult, LoopsApart DEF Become
      <3> QED BY <2>1, <2>3, <2>5, <3>1, UnreadResult
    <2> QED BY <2>1, <2>2, <2>4, <2>5, StdioOrSwitches
  <1>2. LoopInit => Solo
    BY SoloAtFirst DEF LoopInit
  <1>3. LoopSpec => LoopInit /\ [][LoopNext]_loopVars
    BY PTL DEF LoopSpec
  <1> QED BY <1>1, <1>2, <1>3, SoloSkipsNothing, LoopInvariance, PTL

(* Wasi.ts 186-198: consumers get what guests and loops wrote, in order and   *)
(* as it was, or nothing of a write that a memory.grow overtook, if no buffer *)
(* is filled again early.                                                     *)
THEOREM OutputKeepsOrderWithLoops ==
  ASSUME ~Reuse
  PROVE  LoopSpec => []OutputInOrder
  <1>1. LoopIInv /\ OutputSound /\ [LoopNext]_loopVars => OutputSound'
    <2> SUFFICES ASSUME LoopIInv, OutputSound, [LoopNext]_loopVars
                 PROVE  OutputSound'
      OBVIOUS
    <2>1. CASE [Next]_vars
      BY <2>1, OutputStep DEF LoopIInv
    <2>2. CASE Switches
      <3>1. UNCHANGED <<memory, content, written, out>>
        BY <2>2 DEF Switches, guest
      <3> QED BY <3>1, OutputSame
    <2>3. ASSUME NEW l \in LoopAct, unread_result(l)
          PROVE  OutputSound'
      BY <2>3, UnreadResult, OutputSame DEF LoopIInv
    <2> QED BY <2>1, <2>2, <2>3, StdioOrSwitches DEF LoopIInv
  <1>2. LoopInit => OutputSound
    BY OutputAtFirst DEF LoopInit
  <1>3. LoopIInv /\ OutputSound => OutputInOrder
    BY OutputSoundInOrder DEF LoopIInv
  <1>4. LoopSpec => LoopInit /\ [][LoopNext]_loopVars
    BY PTL DEF LoopSpec
  <1> QED BY <1>1, <1>2, <1>3, <1>4, LoopInvariance, PTL
================================================================================
