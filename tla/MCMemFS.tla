-------------------------------- MODULE MCMemFS --------------------------------
(* Values for the constants of MemFS: the small instances TLC checks.         *)
EXTENDS MemFS

AllFds == Fd
OneStream == {1, 3, 4, 5}
OneGuest == {3, MaxFd}

MCName == {"f", "d", "j1", "j2", "j3"}
MCTimes == {100}

\* The preopen "", and the preopen "/d", a string of two bytes.
EmptyPreopen == << [comps |-> Root, size |-> 0] >>
NamedPreopen == << [comps |-> <<"d">>, size |-> 2] >>
FileF == <<"f">> :> 1
FileDF == <<"d", "f">> :> 1
FilesBoth == FileF @@ FileDF

\* A heap address has its first zero byte last, or first when it is aligned to 256.
MCPointer == [nul |-> 3, name |-> <<"j1", "j2", "j3">>]
MCPointers == {MCPointer}
MCTwoPointers == {MCPointer, [nul |-> 0, name |-> <<"j1", "j2", "j3">>]}

Arg(comps, size, slash) == [dot |-> FALSE, comps |-> comps, size |-> size, slash |-> slash]
Dot == [dot |-> TRUE, comps |-> Root, size |-> 0, slash |-> FALSE]
F == Arg(<<"f">>, 1, FALSE)
D == Arg(<<"d">>, 1, FALSE)
DF == Arg(<<"d", "f">>, 3, FALSE)
DSlash == Arg(<<"d">>, 2, TRUE)
FSlash == Arg(<<"f">>, 2, TRUE)
FAndDot == {F, Dot}
SlashNames == {F, D, DF, DSlash, FSlash, Dot}

TableOpens == {{}, {"DIRECTORY"}}
DirectoryOpen == {{"DIRECTORY"}}
JustDot == {Dot}
AllOpens == {{}, {"DIRECTORY"}, {"CREAT"}, {"TRUNC"}, {"CREAT", "EXCL"}}

AllRights == {Right}
SomeRights == {Right, {"PATH_OPEN"}}

BothFlags == {FALSE, TRUE}
Lens == {1}
NoFlag == {FALSE}
Nothing == {}
MCTimeFlags == {{"TIM"}, {"TIM", "TIM_NOW"}, {"TIM_NOW"}}
\* Modulo 6, 7 is 1 again; as a signed word, 4 is negative.
Sizes == {1, 4, 7}

\* The errno of the last call decides nothing further, a throw does.
StateView == <<fds, heap, mlist, next_fd, tree, ret = "THROW">>

================================================================================
