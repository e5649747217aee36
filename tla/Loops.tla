--------------------------------- MODULE Loops ---------------------------------
(******************************************************************************)
(* worker_loop over the streams of an instance: Worker.#loop and Loop.ts,     *)
(* composed with Stdio.  A loop is an activation the host does not call: a    *)
(* timer calls its function, again and again.  The call is not promising, so  *)
(* the function cannot be suspended, and nobody looks at its exceptions.      *)
(*                                                                            *)
(* An import that returns a promise throws a SuspendError there, but only     *)
(* when it has returned: what it began goes on.  A loop that is "reading" has *)
(* thrown, and its readv still takes bytes of stdin, for nobody.              *)
(******************************************************************************)
EXTENDS Stdio

CONSTANT LoopAct   \* the activations that are loops

ASSUME LoopAssumption == LoopAct \subseteq Act \ {Main}

VARIABLE exports   \* whether the host gave the imports the exports of the guest

loopVars == <<vars, exports>>

LoopInit == Init /\ exports = FALSE

(* The setter of Imports; Instance does not use it.                           *)
set_exports ==
  /\ Idle /\ ~exports
  /\ exports' = TRUE
  /\ UNCHANGED vars

(* Mutated: a run that is unwound is taken for one that has returned.         *)
Unwound_Returned(p) ==
  jobs' = IF p = Main THEN Append(jobs, Plain(p, "fd_close")) ELSE jobs

(* throw "unwind": the promise of Main is rejected, and nothing follows.      *)
Unwound(p) == UNCHANGED jobs

(* p passes a function to worker_loop, which sets a timer.  If the loop is    *)
(* infinite, p does not go on; and it does not when there are no exports or   *)
(* no such function.                                                          *)
loop(p, l, infinite) ==
  /\ state[p] = "running"
  /\ \/ /\ exports /\ state[l] = "new"
        /\ state' = [state EXCEPT ![l] = "scheduled", ![p] = IF infinite THEN "unwound" ELSE @]
        /\ IF infinite THEN Unwound(p) ELSE UNCHANGED jobs
     \/ Become(p, "failed") /\ UNCHANGED jobs
  /\ UNCHANGED <<stdin, reads, guest, written, out, exports>>

(* Timers fire when nothing runs and no microtask is left.                    *)
Free == Idle /\ jobs = << >>

runner(l) ==
  /\ Free /\ state[l] = "scheduled"
  /\ Become(l, "running")
  /\ UNCHANGED <<stdin, reads, guest, jobs, written, out, exports>>

(* Mutated: the function is called once.                                      *)
scheduler_Once(l) == Become(l, "returned")

(* The function has returned, and a timer is set again.                       *)
scheduler(l) == Become(l, "scheduled")

loop_return(l) ==
  /\ state[l] = "running"
  /\ scheduler(l)
  /\ UNCHANGED <<stdin, reads, guest, jobs, written, out, exports>>

(* An import that returns a promise, clock_time_get for one: it throws, as    *)
(* the stack under it is not one of a promising export.                       *)
suspending(l) ==
  /\ state[l] = "running"
  /\ Become(l, "failed")
  /\ UNCHANGED <<stdin, reads, guest, jobs, written, out, exports>>

--------------------------------------------------------------------------------

(* fd_read throws as well, after readv has copied what in.buffer holds and    *)
(* has asked for more.                                                        *)
LoopFunction(l) ==
  /\ \/ proc_exit(l) \/ unreachable(l) \/ memory_grow(l)
     \/ \E fd \in Std, b \in Buffer : fd_write(l, fd, b)
     \/ \E size \in ReadSizes : fd_read(l, size)
  /\ UNCHANGED exports

(* The promise of #fd_read is settled, and nobody has kept it.                *)
unread_result(l) == Runs(l, "result") /\ Fails(l) /\ UNCHANGED inbuf

Abandoned(l) == got_chunk(l) \/ got_done(l) \/ got_error(l) \/ unread_result(l)

LoopNext ==
  \/ (\E p \in Act \ LoopAct : run(p) \/ Guest(p) \/ Microtask(p) \/ fetched(p)) /\ UNCHANGED exports
  \/ Environment /\ UNCHANGED exports
  \/ set_exports
  \/ \E p \in Act, l \in LoopAct, infinite \in BOOLEAN : loop(p, l, infinite)
  \/ \E l \in LoopAct : runner(l) \/ loop_return(l) \/ suspending(l) \/ LoopFunction(l)
  \/ (\E l \in LoopAct : Abandoned(l)) /\ UNCHANGED exports

(* As in Stdio, microtasks run and consumers read.  Timers fire while the     *)
(* request of the worker lives, once nothing runs.                            *)
LoopFairness ==
  /\ WF_vars((\E p \in Act \ LoopAct : Microtask(p)) \/ \E l \in LoopAct : Abandoned(l))
  /\ \A fd \in Std : SF_vars(consume(fd))
  /\ \A l \in LoopAct : SF_vars(runner(l))

LoopSpec == LoopInit /\ [][LoopNext]_loopVars /\ LoopFairness

--------------------------------------------------------------------------------
(* Properties.                                                                *)

(* The states of activations with loops; timers are only set by worker_loop,  *)
(* which needs the exports, and streams only closed by a run that returned.   *)
LoopTypeOK ==
  /\ exports \in BOOLEAN
  /\ \A l \in LoopAct :
       /\ state[l] \in {"new", "scheduled", "running", "reading", "exited", "unwound", "failed"}
       /\ state[l] # "new" => exports
  /\ \A p \in Act \ LoopAct : state[p] \in State \union {"unwound"}
  /\ (\E fd \in Std : out[fd].state = "closed") => state[Main] = "returned"

(* Loop.ts 28-31 and Instance.ts 34: worker_loop ends run() by an exception   *)
(* if the loop is infinite.  The streams the loop writes to stay open: a      *)
(* write of a loop fails only if a consumer cancelled or the run returned.    *)
LoopCanWrite ==
  [][\A l \in LoopAct, fd \in Std, b \in Buffer :
       fd_write(l, fd, b) /\ state'[l] = "failed" =>
         state[Main] = "returned" \/ out[1].state = "cancelled" \/ out[2].state = "cancelled"]_vars

LoopEnded(l) == state[l] \in {"reading", "exited", "unwound", "failed"}

(* Loop.ts 17-24: a loop that was set runs for ever, or until an exception,   *)
(* unless guests keep the thread, or keep it busy: reads of stdin that need   *)
(* not wait go from microtask to microtask, and no timer fires in between.    *)
LoopsGoOn ==
  []<>Free => \A l \in LoopAct :
    <>(state[l] = "scheduled") => <>LoopEnded(l) \/ []<>(state[l] = "running")
================================================================================
