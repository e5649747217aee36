------------------------------- MODULE MCMarshal -------------------------------
(* Values for the constants of Marshal: a small guest and a small frame.      *)
EXTENDS Marshal

Bytes(a, b) == [chars |-> 1, bytes |-> <<a, b>>]    \* one character of two bytes
Byte(a) == [chars |-> 1, bytes |-> <<a>>]
MCArgs == <<Bytes(10, 11), [chars |-> 0, bytes |-> <<>>]>>
MCEnv == <<Byte(13)>>
MCFile == <<24, 25, 26, 27>>

\* Two iovecs at 0: apart, overlapping in either order, and of a size that is
\* -1 (31) to copy_in.
Iovecs == {<<4, 1, 5, 1>>, <<4, 2, 5, 1>>, <<5, 1, 4, 2>>, <<4, 1, 5, 31>>}
MCGuests == {[c \in Guest |-> (m \o <<20, 21>>)[c + 1]] : m \in Iovecs}

\* The iovecs, the data behind them, and the end of the memory.
MCPointers == {0, 4, 6}
MCSizes == {1, 2, 31}
\* 17 iovecs are 34 cells, modulo 32 those of one.
MCCounts == {1, 2, 17}
================================================================================
