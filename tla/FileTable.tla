------------------------------- MODULE FileTable -------------------------------
(******************************************************************************)
(* What the table of file descriptors promises its guests: numbers denote     *)
(* opened things with rights, and opening, closing, renumbering and           *)
(* restricting are the only ways that changes.  There are no objects,         *)
(* addresses, handles or paths here, nor an order in which numbers are used.  *)
(* The code that keeps such a table is module MemFS.                          *)
(******************************************************************************)
EXTENDS Integers

CONSTANTS
  Fd,        \* the numbers
  Pinned,    \* the preopened ones
  Initial    \* the table at first

VARIABLE table

Nothing == [type |-> "none", stream |-> FALSE, base |-> {}, inh |-> {}]

Open == {n \in Fd : table[n] # Nothing}

(* What fd_close frees: not stdio under its own numbers, no stream under      *)
(* another, no preopen.                                                       *)
Closable(n) == n >= 3 /\ n \notin Pinned /\ n \in Open /\ ~table[n].stream

Init == table = Initial

(* A new descriptor has no right its directory does not pass on.              *)
PathOpen(n) ==
  /\ n \notin Open
  /\ table' = [table EXCEPT ![n] = table'[n]]
  /\ table'[n].type \in {"dir", "reg"} /\ ~table'[n].stream
  /\ \E d \in Open :
       /\ table[d].type = "dir" /\ ~table[d].stream /\ "PATH_OPEN" \in table[d].base
       /\ table'[n].base \subseteq table[d].inh

Close(n) == Closable(n) /\ table' = [table EXCEPT ![n] = Nothing]

Renumber(n, to) ==
  /\ n # to /\ n \in Open \ Pinned
  /\ to \notin Open \/ Closable(to)
  /\ table' = [table EXCEPT ![to] = table[n], ![n] = Nothing]

Restrict ==
  /\ DOMAIN table' = Fd
  /\ \A n \in Fd :
       /\ table'[n].type = table[n].type /\ table'[n].stream = table[n].stream
       /\ table'[n].base \subseteq table[n].base /\ table'[n].inh \subseteq table[n].inh

Next ==
  \/ Restrict
  \/ \E n \in Fd : PathOpen(n) \/ Close(n) \/ \E to \in Fd : Renumber(n, to)

Spec == Init /\ [][Next]_table
================================================================================
