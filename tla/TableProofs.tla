------------------------------ MODULE TableProofs ------------------------------
(******************************************************************************)
(* The table, objects, handles and next_fd of MemFS implement the abstract    *)
(* table FileTable, for every value of the constants: initial states map to   *)
(* the initial table, and every call maps to an opening, a closing, a         *)
(* renumbering or a restriction of it.                                        *)
(******************************************************************************)
EXTENDS MemFSProofs

(* What the numbers denote, in the terms of FileTable.                        *)
View == [n \in Fd |-> Descriptor(n)]

(* A number denotes something.                                                *)
Opened(n) == Descriptor(n) # Table!Nothing

(* A number is open in the view exactly when the table has it.                *)
LEMMA OpenInView ==
  ASSUME IInv
  PROVE  /\ \A n \in Fd : fds[n] \in Addr \union {Free}
         /\ \A n \in Fd : Opened(n) <=> fds[n] # Free
         /\ Table!Open = {n \in Fd : fds[n] # Free}
<1>1. \A n \in Fd : fds[n] \in Addr \union {Free}
  BY DEF IInv, TypeOK, TableOK
<1>2. \A n \in Fd : fds[n] # Free => At(n).type # "none"
  BY <1>1 DEF IInv, HandlesOwned, Referenced, Live, At
<1>3. \A n \in Fd : Opened(n) <=> fds[n] # Free
  BY <1>2 DEF Opened, Descriptor, Described, NotDescribed, Table!Nothing
<1> QED
  BY <1>1, <1>3 DEF Table!Open, Opened

(* The initial table is the one FileTable starts from.                        *)
LEMMA InitView == Init => Table!Init
<1> SUFFICES ASSUME Init
             PROVE  \A n \in Fd : Descriptor(n) = InitDescriptor(n)
  BY DEF Table!Init
<1> SUFFICES ASSUME NEW n \in Fd
             PROVE  Descriptor(n) = InitDescriptor(n)
  OBVIOUS
<1>1. PICK m \in [1..NPre -> Pointers] : heap = InitHeap(m)
  BY DEF Init
<1>2. n \in Nat /\ fds[n] = IF n < 3 THEN NPre + 1 + n ELSE IF IsPreopen(n) THEN n - 2 ELSE Free
  BY DEF Init, InitFds, Fd, StreamAddr
<1>3. NPre + 1 \in Addr /\ NPre + 2 \in Addr /\ NPre + 3 \in Addr
  BY Constants DEF Addr
<1>4. ASSUME NEW a \in Addr, NEW rights, fds[n] = a, heap[a] = make_stream_fd(rights)
      PROVE  Descriptor(n) = Described("reg", TRUE, {"POLL_FD_READWRITE"} \union rights, Right)
  <2>1. a # Free
    BY Constants
  <2> QED
    BY <1>4, <2>1 DEF Descriptor, Described, At, make_stream_fd, Blank
<1>5. CASE n < 3
  <2>1. n = 0 \/ n = 1 \/ n = 2
    BY <1>2, <1>5
  <2>2. /\ heap[NPre + 1] = make_stream_fd({"FD_READ"})
        /\ heap[NPre + 2] = make_stream_fd({"FD_WRITE"})
        /\ heap[NPre + 3] = make_stream_fd({"FD_WRITE"})
    BY <1>1, <1>3, Constants DEF InitHeap, StreamAddr
  <2>3. CASE n = 0
    <3>1. fds[n] = NPre + 1
      BY <1>2, <2>3, Constants
    <3>2. Descriptor(n) = Described("reg", TRUE, {"POLL_FD_READWRITE", "FD_READ"}, Right)
      <4>1. {"POLL_FD_READWRITE"} \union {"FD_READ"} = {"POLL_FD_READWRITE", "FD_READ"}
        OBVIOUS
      <4> QED
        BY <1>3, <1>4, <2>2, <3>1, <4>1, Zenon
    <3> QED
      BY <2>3, <3>2 DEF InitDescriptor
  <2>4. CASE n # 0
    <3>1. fds[n] = NPre + 2 \/ fds[n] = NPre + 3
      <4>1. NPre \in Int /\ fds[n] = NPre + 1 + n
        BY <1>2, <1>5, Constants
      <4> QED
        BY <2>1, <2>4, <4>1
    <3>2. Descriptor(n) = Described("reg", TRUE, {"POLL_FD_READWRITE", "FD_WRITE"}, Right)
      <4>1. {"POLL_FD_READWRITE"} \union {"FD_WRITE"} = {"POLL_FD_READWRITE", "FD_WRITE"}
        OBVIOUS
      <4> QED
        BY <1>3, <1>4, <2>2, <3>1, <4>1, Zenon
    <3> QED
      BY <1>5, <2>4, <3>2 DEF InitDescriptor
  <2> QED
    BY <2>3, <2>4
<1>6. CASE IsPreopen(n)
  <2>1. n - 2 \in 1..NPre /\ n - 2 \in Addr /\ ~(n < 3) /\ n # 0 /\ n - 2 # Free
    BY <1>2, <1>6, Constants DEF IsPreopen, Addr, Free
  <2>2. heap[n - 2] = make_preopen_fd(Preopens[n - 2], m[n - 2])
    BY <1>1, <2>1, Constants DEF InitHeap
  <2>3. fds[n] = n - 2
    BY <1>2, <1>6, <2>1
  <2>4. Descriptor(n) = Described("dir", FALSE, PathRights, Right)
    <3>1. /\ heap[n - 2].type = "dir" /\ heap[n - 2].stream = FALSE
          /\ heap[n - 2].base = PathRights /\ heap[n - 2].inh = Right
      BY <2>2 DEF make_preopen_fd, Blank
    <3> QED
      BY <2>1, <2>3, <3>1 DEF Descriptor, Described, At
  <2> QED
    BY <1>6, <2>1, <2>4 DEF InitDescriptor
<1>7. CASE ~(n < 3) /\ ~IsPreopen(n)
  <2>1. fds[n] = Free /\ n # 0
    BY <1>2, <1>7
  <2> QED
    BY <1>7, <2>1 DEF Descriptor, InitDescriptor
<1> QED
  BY <1>5, <1>6, <1>7

(* The calls that keep every object can only restrict rights.                 *)
LEMMA SameObjectsView ==
  ASSUME IInv, SameObjects
  PROVE  Table!Restrict
<1> SUFFICES ASSUME NEW n \in Fd
             PROVE  /\ Descriptor(n)'.type = Descriptor(n).type
                    /\ Descriptor(n)'.stream = Descriptor(n).stream
                    /\ Descriptor(n)'.base \subseteq Descriptor(n).base
                    /\ Descriptor(n)'.inh \subseteq Descriptor(n).inh
  BY DEF Table!Restrict
<1>1. fds'[n] = fds[n] /\ fds[n] \in Addr \union {Free}
  BY OpenInView DEF SameObjects
<1> QED
  BY <1>1 DEF Descriptor, Described, NotDescribed, At, SameObjects

(* What Release does to the numbers that denote another object.               *)
LEMMA ReleaseView ==
  ASSUME IInv, NEW fd \in Fd, fds[fd] \in Addr, Release(fd)
  PROVE  \A a \in Addr : a # fds[fd] => heap'[a] = heap[a]
  BY DEF Release, IInv, TypeOK, HeapOK

(* What fd_close frees, FileTable lets a guest close.                         *)
LEMMA CloseErrorView ==
  ASSUME IInv, NEW fd \in Fd, fd >= 3, fd_close_error(fd) = "SUCCESS"
  PROVE  fds[fd] \in Addr /\ Table!Closable(fd)
<1>1. ~IsPreopen(fd) /\ fds[fd] \in Addr /\ ~At(fd).stream
  BY CloseError DEF IInv
<1>2. fds[fd] # Free
  BY <1>1, Constants
<1>3. fd \in Table!Open
  BY <1>2, OpenInView
<1>4. Descriptor(fd).stream = FALSE
  BY <1>1, <1>2 DEF Descriptor, Described, IInv, TypeOK, HeapOK, FileDescriptor, At
<1> QED
  BY <1>1, <1>3, <1>4 DEF Table!Closable

(* fd_close closes.                                                           *)
LEMMA CloseView ==
  ASSUME IInv, NEW fd \in Fd, fd_close(fd)
  PROVE  Table!Restrict \/ Table!Close(fd)
<1>1. CASE Fail(fd_close_error(fd)) \/ Answer("SUCCESS")
  BY <1>1, FailStep, ThrowStep, LookupErrno, SameObjectsView DEF IInv
<1>2. CASE /\ fd >= 3 /\ fd_close_error(fd) = "SUCCESS"
           /\ Release(fd) /\ fds' = [fds EXCEPT ![fd] = Free]
  <2>1. fds[fd] \in Addr /\ Table!Closable(fd)
    BY <1>2, CloseErrorView
  <2>2. \A n \in Fd : fds'[n] = IF n = fd THEN Free ELSE fds[n]
    BY <1>2 DEF IInv, TypeOK, TableOK
  <2>3. \A n \in Fd : n # fd => Descriptor(n)' = Descriptor(n)
    <3> SUFFICES ASSUME NEW n \in Fd, n # fd
                 PROVE  Descriptor(n)' = Descriptor(n)
      OBVIOUS
    <3>1. fds'[n] = fds[n] /\ (fds[n] # Free => fds[n] \in Addr /\ fds[n] # fds[fd])
      BY <2>2, OpenInView DEF IInv, HandlesOwned, Injective
    <3>2. fds[n] # Free => heap'[fds[n]] = heap[fds[n]]
      BY <1>2, <2>1, <3>1, ReleaseView
    <3> QED
      BY <3>1, <3>2 DEF Descriptor, At
  <2>4. Descriptor(fd)' = Table!Nothing
    BY <2>2 DEF Descriptor, NotDescribed, Described, Table!Nothing
  <2>5. View' = [View EXCEPT ![fd] = Table!Nothing]
    BY <2>3, <2>4 DEF View
  <2> QED
    BY <2>1, <2>5 DEF Table!Close, View
<1> QED
  BY <1>1, <1>2 DEF fd_close

(* fd_renumber renumbers; onto itself it closes.                              *)
LEMMA RenumberView ==
  ASSUME IInv, NEW fd \in Fd, NEW to \in Fd, fd_renumber(fd, to)
  PROVE  Table!Restrict \/ Table!Close(fd) \/ Table!Renumber(fd, to)
<1>1. CASE Fail(fd_renumber_error(fd, to)) \/ Answer("THROW")
  BY <1>1, FailStep, ThrowStep, LookupErrno, SameObjectsView DEF IInv
<1>2. CASE /\ fd_renumber_error(fd, to) = "SUCCESS"
           /\ to >= 3 \/ fds[to] = Free
           /\ IF fds[to] = Free THEN UNCHANGED <<mlist, heap, tree>> ELSE Release(to)
           /\ fds' = [fds EXCEPT ![to] = IF to = fd THEN Free ELSE fds[fd], ![fd] = Free]
  <2>1. ~IsPreopen(fd) /\ fds[fd] # Free /\ (fds[to] # Free => fd_close_error(to) = "SUCCESS")
    BY <1>2, Zenon DEF fd_renumber_error, First, require_not_preopen
  <2>2. fds[fd] \in Addr /\ fd \in Table!Open
    BY <2>1, OpenInView
  <2>3. fds[to] # Free => fds[to] \in Addr /\ Table!Closable(to)
    BY <1>2, <2>1, CloseErrorView
  <2>4. fds[to] = Free => to \notin Table!Open /\ to # fd
    BY <2>1, OpenInView
  <2>5. \A n \in Fd : fds'[n] = IF n = fd THEN Free ELSE IF n = to THEN fds[fd] ELSE fds[n]
    BY <1>2 DEF IInv, TypeOK, TableOK
  <2>6. \A n \in Fd : n # to /\ fds[n] # Free => heap'[fds[n]] = heap[fds[n]]
    <3> SUFFICES ASSUME NEW n \in Fd, n # to, fds[n] # Free
                 PROVE  heap'[fds[n]] = heap[fds[n]]
      OBVIOUS
    <3>1. fds[n] \in Addr /\ fds[n] # fds[to]
      BY OpenInView DEF IInv, HandlesOwned, Injective
    <3> QED
      BY <1>2, <2>3, <3>1, ReleaseView
  <2>7. \A n \in Fd : n # fd /\ n # to => Descriptor(n)' = Descriptor(n)
    BY <2>5, <2>6 DEF Descriptor, At
  <2>8. Descriptor(fd)' = Table!Nothing
    BY <2>5 DEF Descriptor, NotDescribed, Described, Table!Nothing
  <2>9. CASE to = fd
    <3>1. View' = [View EXCEPT ![fd] = Table!Nothing]
      BY <2>7, <2>8, <2>9 DEF View
    <3> QED
      BY <2>1, <2>3, <2>9, <3>1 DEF Table!Close, View
  <2>10. CASE to # fd
    <3>1. Descriptor(to)' = Descriptor(fd)
      BY <2>1, <2>5, <2>6, <2>10 DEF Descriptor, At
    <3>2. View' = [View EXCEPT ![to] = View[fd], ![fd] = Table!Nothing]
      BY <2>7, <2>8, <2>10, <3>1 DEF View
    <3>3. fd \notin {n \in Fd : IsPreopen(n)}
      BY <2>1
    <3> QED
      BY <2>2, <2>3, <2>4, <2>10, <3>2, <3>3 DEF Table!Renumber, View
  <2> QED
    BY <2>9, <2>10
<1> QED
  BY <1>1, <1>2 DEF fd_renumber

(* path_open opens an unused number, with no right its directory does not     *)
(* hand on.                                                                   *)
LEMMA OpenView ==
  ASSUME IInv, NEW fd \in Fd, NEW arg, NEW oflags, NEW base, NEW inh, NEW append,
         path_open(fd, arg, oflags, base, inh, append)
  PROVE  Table!Restrict \/ \E n \in Fd : Table!PathOpen(n)
<1> DEFINE p == resolve_path(At(fd), arg)
           new(m) == opened(At(fd), p, oflags, base, inh, append, m)
<1>1. CASE Fail(open_error(fd, p, oflags)) \/ OutOfSpace
  <2>1. SameObjects
    BY <1>1 DEF Fail, OutOfSpace, Answer, UnchangedTable, SameObjects
  <2> QED
    BY <2>1, SameObjectsView
<1>2. ASSUME open_error(fd, p, oflags) = "SUCCESS",
             NEW a \in Addr, NEW m, heap[a].type = "none",
             heap' = [heap EXCEPT ![a] = new(m)], fds' = [fds EXCEPT ![allocate_fd] = a]
      PROVE  \E n \in Fd : Table!PathOpen(n)
  <2>1. fds \in [Fd -> Addr \union {Free}] /\ heap \in [Addr -> FileDescriptor]
    BY DEF IInv, TypeOK, TableOK, HeapOK
  <2>2. allocate_fd \in Fd /\ fds[allocate_fd] = Free
    BY <1>2, AllocateType, Constants DEF IInv, Live, Fd
  <2>3. \A n \in Fd : fds'[n] = IF n = allocate_fd THEN a ELSE fds[n]
    BY <1>2, <2>1
  <2>4. \A n \in Fd : fds[n] # a
    BY <1>2 DEF IInv, HandlesOwned, Referenced, Live
  <2>5. dir_of(fd, open_required_rights(oflags)) = "SUCCESS"
    BY <1>2 DEF open_error, First
  <2>6. lookup_fd(fd, "dir", open_required_rights(oflags), FALSE) = "SUCCESS"
    BY <2>5 DEF dir_of
  <2>7. /\ fds[fd] \in Addr /\ ~At(fd).stream /\ At(fd).type = "dir"
        /\ At(fd) \in FileDescriptor /\ "PATH_OPEN" \in At(fd).base
    <3>1. "PATH_OPEN" \in open_required_rights(oflags)
      BY DEF open_required_rights
    <3>2. open_required_rights(oflags) \subseteq At(fd).base
      BY <2>6 DEF lookup_fd
    <3> QED
      BY <2>5, <3>1, <3>2, Found DEF IInv
  <2>8. fds[fd] # Free /\ fd \in Table!Open
    BY <2>7, OpenInView, Constants
  <2>9. /\ new(m).type \in {"dir", "reg"} /\ ~new(m).stream
        /\ new(m).base \subseteq At(fd).inh
    BY DEF opened, open_type, open_rights
  <2> HIDE DEF new, p
  <2>10. heap'[a] = new(m) /\ \A b \in Addr : b # a => heap'[b] = heap[b]
    BY <1>2, <2>1
  <2>11. PICK k \in Fd : fds[k] = Free /\ \A n \in Fd : fds'[n] = IF n = k THEN a ELSE fds[n]
    BY <2>2, <2>3
  <2>12. \A n \in Fd : n # k => Descriptor(n)' = Descriptor(n)
    <3> SUFFICES ASSUME NEW n \in Fd, n # k
                 PROVE  Descriptor(n)' = Descriptor(n)
      OBVIOUS
    <3>1. fds'[n] = fds[n] /\ (fds[n] # Free => fds[n] \in Addr /\ fds[n] # a)
      BY <2>4, <2>11, OpenInView
    <3>2. fds[n] # Free => heap'[fds[n]] = heap[fds[n]]
      BY <2>10, <3>1
    <3> QED
      BY <3>1, <3>2 DEF Descriptor, At
  <2>13. a # Free /\ fds'[k] = a
    BY <2>11, Constants
  <2>14. /\ Descriptor(k)'.type = new(m).type /\ Descriptor(k)'.stream = new(m).stream
         /\ Descriptor(k)'.base = new(m).base
    BY <2>10, <2>13 DEF Descriptor, Described, At
  <2>15. /\ View[fd].type = "dir" /\ ~View[fd].stream /\ "PATH_OPEN" \in View[fd].base
         /\ View[fd].inh = At(fd).inh
    BY <2>7, <2>8 DEF View, Descriptor, Described
  <2>16. View' = [View EXCEPT ![k] = View'[k]]
    BY <2>11, <2>12 DEF View
  <2>17. View'[k] = Descriptor(k)'
    BY <2>11 DEF View
  <2>18. k \notin Table!Open
    BY <2>11, OpenInView
  <2>19. Table!PathOpen(k)
    <3>1. \E d \in Table!Open :
            /\ View[d].type = "dir" /\ ~View[d].stream /\ "PATH_OPEN" \in View[d].base
            /\ View'[k].base \subseteq View[d].inh
      BY <2>8, <2>9, <2>14, <2>15, <2>17
    <3>2. View'[k].type \in {"dir", "reg"} /\ ~View'[k].stream
      BY <2>9, <2>14, <2>17
    <3> QED
      BY <2>16, <2>18, <3>1, <3>2 DEF Table!PathOpen, View
  <2> QED
    BY <2>11, <2>19
<1> QED
  BY <1>1, <1>2 DEF path_open

(* Every call maps to a step of FileTable, or leaves its table alone.         *)
LEMMA StepView == IInv /\ [Next]_vars => [Table!Next]_View
<1> SUFFICES ASSUME IInv, [Next]_vars
             PROVE  [Table!Next]_View
  OBVIOUS
<1>1. FdArgs \subseteq Fd /\ RightsArgs \subseteq SUBSET Right /\ AppendArgs \subseteq BOOLEAN
  BY Constants, ArgumentAssumption
<1>2. CASE LookCalls \/ FileCalls \/ PathCalls
  <2>1. SameObjects
    BY <1>2, LookStep, FileStep, PathStep DEF IInv
  <2> QED
    BY <2>1, SameObjectsView DEF Table!Next
<1>3. CASE TableCalls
  <2>1. ASSUME NEW fd \in FdArgs, NEW append \in AppendArgs, fd_fdstat_set_flags(fd, append)
        PROVE  Table!Next
    BY <1>1, <2>1, SetFlagsStep, SameObjectsView DEF IInv, Table!Next
  <2>2. ASSUME NEW fd \in FdArgs, NEW base \in RightsArgs, NEW inh \in RightsArgs,
               fd_fdstat_set_rights(fd, base, inh)
        PROVE  Table!Next
    BY <1>1, <2>2, SetRightsStep, SameObjectsView DEF IInv, Table!Next
  <2>3. ASSUME NEW fd \in FdArgs, fd_close(fd)
        PROVE  Table!Next
    BY <1>1, <2>3, CloseView DEF Table!Next
  <2>4. ASSUME NEW fd \in FdArgs, NEW to \in FdArgs, fd_renumber(fd, to)
        PROVE  Table!Next
    BY <1>1, <2>4, RenumberView DEF Table!Next
  <2>5. ASSUME NEW fd \in FdArgs, NEW arg \in PathArgs, NEW oflags \in OpenFlags,
               NEW base \in RightsArgs, NEW inh \in RightsArgs, NEW append \in AppendArgs,
               path_open(fd, arg, oflags, base, inh, append)
        PROVE  Table!Next
    BY <1>1, <2>5, OpenView DEF Table!Next
  <2> QED
    BY <1>3, <2>1, <2>2, <2>3, <2>4, <2>5 DEF TableCalls
<1>4. CASE UNCHANGED vars
  BY <1>4 DEF vars, View, Descriptor, At
<1> QED
  BY <1>2, <1>3, <1>4 DEF Next

(* Guests of MemFS see the table that FileTable promises, whatever they call: *)
(* a number changes only by an opening of an unused number, a close of what   *)
(* may be closed, a renumbering, or a restriction of rights                   *)
(* (memfs.cc 172-183, 264-279, 298-314, 431-443, 559-604).                    *)
THEOREM TableImplemented == Spec => ImplementsTable
<1>1. IInv /\ [Next]_vars => [Table!Next]_([n \in Fd |-> Descriptor(n)])
  BY StepView DEF View
<1> QED
  BY <1>1, InitView, Invariance, PTL DEF Spec, ImplementsTable, Table!Spec
================================================================================
