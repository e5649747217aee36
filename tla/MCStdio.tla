-------------------------------- MODULE MCStdio --------------------------------
(* Values for the constants of Stdio: the small instances TLC checks.         *)
EXTENDS Stdio

OneAct == {"main"}
TwoActs == {"main", "export"}
NoBuffer == {}
OneBuffer == {"a"}
TwoBuffers == {"a", "b"}
MCChunks == {0, 1, 2}
TwoChunks == {1, 2}
MCReads == {1, 3}
OneRead == {2}

\* What input depends on, and whether output is queued: a write changes nothing
\* else that a reader of stdin could notice, nor does a cancelled stream.
InputView ==
  <<stdin, reads, view, memory, jobs, state, Writes, \E b \in Buffer : Queued(b)>>
================================================================================
