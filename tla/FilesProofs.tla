------------------------------ MODULE FilesProofs ------------------------------
(******************************************************************************)
(* Proofs about the entries of the tree of MemFS and the open files on them,  *)
(* for every value of the constants.                                          *)
(*                                                                            *)
(* FInv says that what is above an entry is a directory (Closed), which is    *)
(* what it takes to follow entries through path_rename, and that each open    *)
(* file fits its entry; VInv relates sizes when one file is open at a time.   *)
(* Each call has one of a few effects on the tree and the open files          *)
(* (Effect), and the invariants are shown to survive each effect.             *)
(******************************************************************************)
EXTENDS MemFSProofs

--------------------------------------------------------------------------------
(* Prefixes of paths.                                                         *)

(* The first i names of a path.                                               *)
LEMMA Cut ==
  ASSUME NEW c \in Path, NEW i \in 0..Len(c)
  PROVE  /\ SubSeq(c, 1, i) \in Path /\ Len(SubSeq(c, 1, i)) = i
         /\ \A j \in 1..i : SubSeq(c, 1, i)[j] = c[j]
<1>1. c \in Seq(Name) /\ Len(c) \in Nat /\ i \in Int /\ i >= 0
  BY DEF Path
<1>2. \A j \in 1..i : c[j] \in Name
  BY <1>1
<1>3. /\ SubSeq(c, 1, i) \in Seq(Name)
      /\ Len(SubSeq(c, 1, i)) = IF 1 <= i THEN i - 1 + 1 ELSE 0
      /\ \A j \in 1..i - 1 + 1 : SubSeq(c, 1, i)[j] = c[1 + j - 1]
  BY <1>1, <1>2, SubSeqProperties
<1> QED
  BY <1>1, <1>3 DEF Path

(* Paths of the same names are equal.                                         *)
LEMMA SamePath ==
  ASSUME NEW c \in Path, NEW d \in Path, Len(c) = Len(d), \A j \in 1..Len(c) : c[j] = d[j]
  PROVE  c = d
BY SeqEqual DEF Path

(* d has the names of c, and may have more.                                   *)
Begins(c, d) == \A j \in 1..Len(c) : c[j] = d[j]

(* A path is a prefix of the paths that begin with its names.                 *)
LEMMA PrefixIs ==
  ASSUME NEW c \in Path, NEW d \in Path
  PROVE  /\ Len(c) \in Nat /\ Len(d) \in Nat
         /\ IsPrefix(c, d) <=> Len(c) <= Len(d) /\ Begins(c, d)
         /\ IsStrictPrefix(c, d) <=> Len(c) < Len(d) /\ Begins(c, d)
<1>1. Len(c) \in Nat /\ Len(d) \in Nat
  BY DEF Path
<1>2. /\ SubSeq(c, 1, Len(c)) \in Path /\ Len(SubSeq(c, 1, Len(c))) = Len(c)
      /\ \A j \in 1..Len(c) : SubSeq(c, 1, Len(c))[j] = c[j]
  BY <1>1, Cut
<1>3. ASSUME Len(c) <= Len(d)
      PROVE  SubSeq(c, 1, Len(c)) = SubSeq(d, 1, Len(c)) <=> Begins(c, d)
  <2>1. /\ SubSeq(d, 1, Len(c)) \in Path /\ Len(SubSeq(d, 1, Len(c))) = Len(c)
        /\ \A j \in 1..Len(c) : SubSeq(d, 1, Len(c))[j] = d[j]
    BY <1>1, <1>3, Cut
  <2>2. ASSUME Begins(c, d)
        PROVE  SubSeq(c, 1, Len(c)) = SubSeq(d, 1, Len(c))
    BY <1>2, <2>1, <2>2, SamePath DEF Begins
  <2>3. ASSUME SubSeq(c, 1, Len(c)) = SubSeq(d, 1, Len(c))
        PROVE  Begins(c, d)
    <3> SUFFICES ASSUME NEW j \in 1..Len(c)
                 PROVE  c[j] = d[j]
      BY DEF Begins
    <3>1. SubSeq(c, 1, Len(c))[j] = c[j] /\ SubSeq(d, 1, Len(c))[j] = d[j]
      BY <1>2, <2>1
    <3> QED
      BY <2>3, <3>1
  <2> QED
    BY <2>2, <2>3
<1>4. IsPrefix(c, d) <=> Len(c) <= Len(d) /\ Begins(c, d)
  BY <1>3, Zenon DEF IsPrefix
<1>5. Len(c) = Len(d) /\ Begins(c, d) => c = d
  BY SamePath DEF Begins
<1>6. c = d => Len(c) = Len(d)
  OBVIOUS
<1>7. IsStrictPrefix(c, d) <=> IsPrefix(c, d) /\ c # d
  BY Zenon DEF IsStrictPrefix
<1>8. ASSUME NEW m \in Nat, NEW k \in Nat
      PROVE  m < k <=> m <= k /\ m # k
  OBVIOUS
<1>9. Len(c) < Len(d) <=> Len(c) <= Len(d) /\ Len(c) # Len(d)
  BY <1>1, <1>8
<1> QED
  BY <1>1, <1>4, <1>5, <1>6, <1>7, <1>9, Zenon

(* What is before a path is before what the path is before.                   *)
LEMMA PrefixOrder ==
  ASSUME NEW c \in Path, NEW d \in Path, NEW e \in Path
  PROVE  /\ IsPrefix(c, d) /\ IsPrefix(d, e) => IsPrefix(c, e)
         /\ IsStrictPrefix(c, d) <=> IsPrefix(c, d) /\ c # d
         /\ IsPrefix(c, d) /\ IsStrictPrefix(d, e) => IsStrictPrefix(c, e)
         /\ IsPrefix(c, e) /\ IsPrefix(d, e) => IsPrefix(c, d) \/ IsStrictPrefix(d, c)
<1>1. /\ Len(c) \in Nat /\ Len(d) \in Nat /\ Len(e) \in Nat
      /\ IsPrefix(c, d) <=> Len(c) <= Len(d) /\ Begins(c, d)
      /\ IsPrefix(c, e) <=> Len(c) <= Len(e) /\ Begins(c, e)
      /\ IsPrefix(d, e) <=> Len(d) <= Len(e) /\ Begins(d, e)
      /\ IsStrictPrefix(d, e) <=> Len(d) < Len(e) /\ Begins(d, e)
      /\ IsStrictPrefix(c, e) <=> Len(c) < Len(e) /\ Begins(c, e)
      /\ IsStrictPrefix(d, c) <=> Len(d) < Len(c) /\ Begins(d, c)
  BY PrefixIs
<1>2. Len(c) <= Len(d) /\ Begins(c, d) /\ Begins(d, e) => Begins(c, e)
  BY <1>1 DEF Begins
<1>3. Len(c) <= Len(d) /\ Begins(c, e) /\ Begins(d, e) => Begins(c, d)
  BY <1>1 DEF Begins
<1>4. Len(d) <= Len(c) /\ Begins(c, e) /\ Begins(d, e) => Begins(d, c)
  BY <1>1 DEF Begins
<1>5. IsStrictPrefix(c, d) <=> IsPrefix(c, d) /\ c # d
  BY Zenon DEF IsStrictPrefix
<1> DEFINE lc == Len(c) ld == Len(d) le == Len(e)
<1>6. /\ lc <= ld /\ ld <= le => lc <= le
      /\ lc <= ld /\ ld < le => lc < le
      /\ ld < le => ld <= le
      /\ lc <= ld \/ ld < lc
      /\ ld < lc => ld <= lc
  BY <1>1
<1> QED
  BY <1>1, <1>2, <1>3, <1>4, <1>5, <1>6, Zenon

(* The root is before every other path, and nothing before the root.          *)
LEMMA RootFirst ==
  /\ Root \in Path /\ Len(Root) = 0
  /\ \A c \in Path : /\ ~IsStrictPrefix(c, Root)
                     /\ c # Root => IsStrictPrefix(Root, c) /\ Len(c) > 0
<1>1. Root \in Path /\ Len(Root) = 0
  BY EmptySeq DEF Root, Path
<1> SUFFICES ASSUME NEW c \in Path
             PROVE  /\ ~IsStrictPrefix(c, Root)
                    /\ c # Root => IsStrictPrefix(Root, c) /\ Len(c) > 0
  BY <1>1
<1>2. /\ Len(c) \in Nat
      /\ IsStrictPrefix(c, Root) <=> Len(c) < Len(Root) /\ Begins(c, Root)
      /\ IsStrictPrefix(Root, c) <=> Len(Root) < Len(c) /\ Begins(Root, c)
  BY <1>1, PrefixIs
<1>3. Begins(Root, c)
  BY <1>1 DEF Begins
<1>4. Len(c) = 0 => c = Root
  BY <1>1, SamePath
<1> QED
  BY <1>1, <1>2, <1>3, <1>4

(* The directory of a path is the last path before it.                        *)
LEMMA FrontIsLast ==
  ASSUME NEW c \in Path, c # Root
  PROVE  /\ Front(c) \in Path /\ IsStrictPrefix(Front(c), c)
         /\ \A d \in Path : IsStrictPrefix(d, c) => IsPrefix(d, Front(c))
<1>1. Len(c) \in Nat /\ Len(c) > 0 /\ Len(c) - 1 \in 0..Len(c)
  BY RootFirst DEF Path
<1>2. /\ Front(c) \in Path /\ Len(Front(c)) = Len(c) - 1
      /\ \A j \in 1..Len(c) - 1 : Front(c)[j] = c[j]
  BY <1>1, Cut DEF Front
<1>3. Begins(Front(c), c)
  BY <1>2 DEF Begins
<1>4. IsStrictPrefix(Front(c), c) <=> Len(Front(c)) < Len(c) /\ Begins(Front(c), c)
  BY <1>2, PrefixIs
<1>5. ASSUME NEW d \in Path, IsStrictPrefix(d, c)
      PROVE  IsPrefix(d, Front(c))
  <2>1. Len(d) \in Nat /\ Len(d) < Len(c) /\ Begins(d, c)
    BY <1>5, PrefixIs
  <2>2. IsPrefix(d, Front(c)) <=> Len(d) <= Len(Front(c)) /\ Begins(d, Front(c))
    BY <1>2, PrefixIs
  <2>3. Len(d) <= Len(c) - 1
    BY <1>1, <2>1
  <2>4. \A j \in 1..Len(d) : j \in 1..Len(c) - 1
    BY <1>1, <2>1, <2>3
  <2>5. Begins(d, Front(c))
    BY <1>2, <2>1, <2>4 DEF Begins
  <2> QED
    BY <1>2, <2>2, <2>3, <2>5
<1> QED
  BY <1>1, <1>2, <1>3, <1>4, <1>5

(* What rename makes of a path: the names of the new one, then the rest.      *)
Joined(r, o, n, c) ==
  /\ r \in Path /\ Len(r) = Len(n) + (Len(c) - Len(o)) /\ Len(o) <= Len(c)
  /\ \A j \in 1..Len(n) : r[j] = n[j]
  /\ \A j \in 1..Len(c) - Len(o) : r[Len(n) + j] = c[Len(o) + j]

(* Rename gives every path it moves one below the new one.                    *)
LEMMA Rebased ==
  ASSUME NEW o \in Path, NEW n \in Path, NEW c \in Path, IsPrefix(o, c)
  PROVE  Joined(Rebase(o, n, c), o, n, c)
<1> DEFINE r == SubSeq(c, Len(o) + 1, Len(c))
<1>1. Len(o) \in Nat /\ Len(n) \in Nat /\ Len(c) \in Nat /\ Len(o) <= Len(c)
  BY DEF Path, IsPrefix
<1>2. \A j \in Len(o) + 1..Len(c) : c[j] \in Name
  BY <1>1 DEF Path
<1>3. /\ r \in Seq(Name)
      /\ Len(r) = IF Len(o) + 1 <= Len(c) THEN Len(c) - (Len(o) + 1) + 1 ELSE 0
      /\ \A j \in 1..Len(c) - (Len(o) + 1) + 1 : r[j] = c[Len(o) + 1 + j - 1]
  BY <1>1, <1>2, SubSeqProperties
<1> HIDE DEF r
<1>4. Len(r) = Len(c) - Len(o) /\ \A j \in 1..Len(c) - Len(o) : r[j] = c[Len(o) + j]
  BY <1>1, <1>3
<1>5. /\ n \o r \in Seq(Name) /\ Len(n \o r) = Len(n) + Len(r)
      /\ \A j \in 1..Len(n) + Len(r) : (n \o r)[j] = IF j <= Len(n) THEN n[j] ELSE r[j - Len(n)]
  BY <1>3, ConcatProperties DEF Path
<1>6. \A j \in 1..Len(n) : (n \o r)[j] = n[j]
  BY <1>1, <1>4, <1>5
<1>7. \A j \in 1..Len(c) - Len(o) : (n \o r)[Len(n) + j] = c[Len(o) + j]
  <2>1. TAKE j \in 1..Len(c) - Len(o)
  <2>2. Len(n) + j \in 1..Len(n) + Len(r) /\ ~(Len(n) + j <= Len(n)) /\ (Len(n) + j) - Len(n) = j
    BY <1>1, <1>4
  <2> QED
    BY <1>4, <1>5, <2>2
<1> QED
  BY <1>1, <1>4, <1>5, <1>6, <1>7 DEF Rebase, Path, r, Joined

--------------------------------------------------------------------------------
(* Trees.                                                                     *)

(* What is above an entry is a directory, and there is a root.                *)
Closed(T) ==
  /\ IsDir(T, Root)
  /\ \A c \in DOMAIN T, d \in Path : IsStrictPrefix(d, c) => IsDir(T, d)

(* The entries and their types are the same.                                  *)
SameKinds(T, U) == DOMAIN U = DOMAIN T /\ \A c \in DOMAIN T : U[c].type = T[c].type

(* What changes sizes and times only leaves a tree.                           *)
LEMMA SameKindsClosed ==
  ASSUME NEW T, NEW U, Closed(T), SameKinds(T, U)
  PROVE  /\ Closed(U)
         /\ \A c : IsReg(T, c) => IsReg(U, c)
BY DEF Closed, SameKinds, IsDir, IsReg, Exists

(* An entry in a directory.                                                   *)
LEMMA PutClosed ==
  ASSUME NEW T, TreeType(T), Closed(T), NEW c \in Path, c \notin DOMAIN T, IsDir(T, Front(c)),
         NEW node
  PROVE  /\ Closed(PutEntry(T, c, node))
         /\ c \in DOMAIN PutEntry(T, c, node) /\ PutEntry(T, c, node)[c] = node
         /\ \A d \in DOMAIN T : d \in DOMAIN PutEntry(T, c, node) /\ PutEntry(T, c, node)[d] = T[d]
<1> DEFINE U == PutEntry(T, c, node)
<1>1. /\ DOMAIN U = DOMAIN T \union {c} /\ U[c] = node
      /\ \A d \in DOMAIN T : d \in DOMAIN U /\ U[d] = T[d]
  BY DEF PutEntry
<1> HIDE DEF U
<1>2. c # Root
  BY DEF Closed, IsDir, Exists
<1>3. ASSUME NEW d \in Path, IsStrictPrefix(d, c)
      PROVE  IsDir(T, d)
  <2>1. Front(c) \in Path /\ IsPrefix(d, Front(c)) /\ Front(c) \in DOMAIN T
    BY <1>2, <1>3, FrontIsLast DEF IsDir, Exists
  <2>2. d = Front(c) \/ IsStrictPrefix(d, Front(c))
    BY <2>1, PrefixOrder
  <2> QED
    BY <2>1, <2>2 DEF Closed
<1>4. \A d : IsDir(T, d) => IsDir(U, d)
  BY <1>1 DEF IsDir, Exists
<1>5. Closed(U)
  BY <1>1, <1>3, <1>4 DEF Closed
<1> QED
  BY <1>1, <1>5 DEF U

(* An entry with nothing below it goes.                                       *)
LEMMA RemoveClosed ==
  ASSUME NEW T, TreeType(T), Closed(T), NEW c \in Path, c # Root, Below(T, c) = {}
  PROVE  /\ Closed(RemoveEntry(T, c))
         /\ \A d \in DOMAIN T \ {c} : d \in DOMAIN RemoveEntry(T, c) /\ RemoveEntry(T, c)[d] = T[d]
<1> DEFINE U == RemoveEntry(T, c)
<1>1. DOMAIN U = DOMAIN T \ {c} /\ \A d \in DOMAIN T \ {c} : d \in DOMAIN U /\ U[d] = T[d]
  BY DEF RemoveEntry, Restrict
<1> HIDE DEF U
<1>2. \A d \in DOMAIN T : ~IsStrictPrefix(c, d)
  BY DEF Below
<1>3. \A d : d # c /\ IsDir(T, d) => IsDir(U, d)
  BY <1>1 DEF IsDir, Exists
<1>4. Closed(U)
  BY <1>1, <1>2, <1>3 DEF Closed
<1> QED
  BY <1>1, <1>4 DEF U

(* A rename that moves something: what is not below the old path stays,       *)
(* unless it is replaced; what is there moves below the new one.              *)
Stays(T, o, n, c) == c \in DOMAIN T /\ ~IsPrefix(o, c) /\ c # n
Moves(T, o, n, c) == c \in DOMAIN T /\ IsPrefix(o, c) /\ ~IsPrefix(o, n)

(* Two entries do not move to one place.                                      *)
LEMMA RebaseInjective ==
  ASSUME NEW o \in Path, NEW n \in Path, NEW c \in Path, NEW d \in Path,
         IsPrefix(o, c), IsPrefix(o, d), Rebase(o, n, c) = Rebase(o, n, d)
  PROVE  c = d
<1>1. /\ Len(o) \in Nat /\ Len(n) \in Nat /\ Len(c) \in Nat /\ Len(d) \in Nat
      /\ Len(o) <= Len(c) /\ Begins(o, c) /\ Len(o) <= Len(d) /\ Begins(o, d)
  BY PrefixIs
<1> DEFINE r == Rebase(o, n, c)
<1>2. Joined(r, o, n, c) /\ Joined(r, o, n, d)
  BY Rebased
<1> HIDE DEF r
<1>3. Len(c) = Len(d)
  BY <1>1, <1>2 DEF Joined
<1>4. ASSUME NEW j \in 1..Len(c)
      PROVE  c[j] = d[j]
  <2>1. CASE j <= Len(o)
    <3>1. j \in 1..Len(o)
      BY <1>1, <2>1
    <3> QED
      BY <1>1, <3>1 DEF Begins
  <2>2. CASE ~(j <= Len(o))
    <3>1. PICK k \in 1..Len(c) - Len(o) : j = Len(o) + k
      <4>1. j - Len(o) \in 1..Len(c) - Len(o) /\ j = Len(o) + (j - Len(o))
        BY <1>1, <2>2
      <4> QED
        BY <4>1
    <3>2. r[Len(n) + k] = c[Len(o) + k]
      BY <1>2 DEF Joined
    <3>3. r[Len(n) + k] = d[Len(o) + k]
      BY <1>2, <1>3 DEF Joined
    <3> QED
      BY <3>1, <3>2, <3>3
  <2> QED
    BY <2>1, <2>2
<1> QED
  BY <1>3, <1>4, SamePath

(* What moves is the new path itself, or below it.                            *)
LEMMA RebasedBelow ==
  ASSUME NEW o \in Path, NEW n \in Path, NEW c \in Path, IsPrefix(o, c)
  PROVE  /\ Rebase(o, n, c) \in Path
         /\ c = o => Rebase(o, n, c) = n
         /\ c # o => IsStrictPrefix(n, Rebase(o, n, c))
<1>1. /\ Len(o) \in Nat /\ Len(n) \in Nat /\ Len(c) \in Nat /\ Len(o) <= Len(c)
      /\ c # o => Len(o) < Len(c)
  <2>1. c # o => IsStrictPrefix(o, c)
    BY PrefixOrder
  <2> QED
    BY <2>1, PrefixIs
<1>2. /\ Rebase(o, n, c) \in Path /\ Len(Rebase(o, n, c)) = Len(n) + (Len(c) - Len(o))
      /\ Begins(n, Rebase(o, n, c))
  BY Rebased DEF Begins, Joined
<1>3. c = o => Rebase(o, n, c) = n
  <2> SUFFICES ASSUME c = o
               PROVE  n = Rebase(o, n, c)
    OBVIOUS
  <2>1. Len(n) = Len(Rebase(o, n, c))
    BY <1>1, <1>2
  <2> QED
    BY <1>2, <2>1, SamePath DEF Begins
<1>4. IsStrictPrefix(n, Rebase(o, n, c)) <=>
        Len(n) < Len(Rebase(o, n, c)) /\ Begins(n, Rebase(o, n, c))
  BY <1>2, PrefixIs
<1>5. c # o => Len(n) < Len(Rebase(o, n, c))
  BY <1>1, <1>2
<1> QED
  BY <1>2, <1>3, <1>4, <1>5

(* What is before a path that moved and is no shorter than the new path has   *)
(* moved too, from before that path.                                          *)
LEMMA BeforeRebased ==
  ASSUME NEW o \in Path, NEW n \in Path, NEW c \in Path, IsPrefix(o, c),
         NEW d \in Path, IsStrictPrefix(d, Rebase(o, n, c)), ~IsStrictPrefix(d, n)
  PROVE  \E e \in Path : IsPrefix(o, e) /\ IsStrictPrefix(e, c) /\ Rebase(o, n, e) = d
<1> DEFINE r == Rebase(o, n, c)
<1>1. /\ r \in Path /\ Len(r) = Len(n) + (Len(c) - Len(o)) /\ Len(o) <= Len(c)
      /\ \A j \in 1..Len(n) : r[j] = n[j]
      /\ \A j \in 1..Len(c) - Len(o) : r[Len(n) + j] = c[Len(o) + j]
  BY Rebased DEF Joined
<1> HIDE DEF r
<1>2. /\ Len(o) \in Nat /\ Len(n) \in Nat /\ Len(c) \in Nat /\ Len(d) \in Nat
      /\ Len(d) < Len(r) /\ Begins(d, r) /\ Begins(o, c)
  BY <1>1, PrefixIs DEF r
<1>3. Len(d) >= Len(n)
  <2>1. IsStrictPrefix(d, n) <=> Len(d) < Len(n) /\ Begins(d, n)
    BY PrefixIs
  <2>2. ASSUME Len(d) < Len(n)
        PROVE  FALSE
    <3>1. \A j \in 1..Len(d) : j \in 1..Len(n)
      BY <1>2, <2>2
    <3>2. Begins(d, n)
      BY <1>1, <1>2, <3>1 DEF Begins
    <3> QED
      BY <2>1, <2>2, <3>2
  <2> QED
    BY <1>2, <2>2
<1> DEFINE m == Len(o) + (Len(d) - Len(n))
           e == SubSeq(c, 1, m)
<1>4. m \in 0..Len(c) /\ Len(o) <= m /\ m < Len(c) /\ m - Len(o) = Len(d) - Len(n)
  BY <1>1, <1>2, <1>3
<1> HIDE DEF m
<1>5. e \in Path /\ Len(e) = m /\ \A j \in 1..m : e[j] = c[j]
  BY <1>4, Cut
<1> HIDE DEF e
<1>6. IsStrictPrefix(e, c)
  <2>1. Begins(e, c)
    BY <1>5 DEF Begins
  <2>2. IsStrictPrefix(e, c) <=> Len(e) < Len(c) /\ Begins(e, c)
    BY <1>5, PrefixIs
  <2> QED
    BY <1>4, <1>5, <2>1, <2>2
<1>7. IsPrefix(o, e)
  <2>1. IsPrefix(e, c)
    BY <1>5, <1>6, PrefixOrder
  <2>2. ~IsStrictPrefix(e, o)
    <3>1. IsStrictPrefix(e, o) <=> Len(e) < Len(o) /\ Begins(e, o)
      BY <1>5, PrefixIs
    <3> QED
      BY <1>2, <1>4, <1>5, <3>1
  <2> QED
    BY <1>5, <2>1, <2>2, PrefixOrder
<1>8. /\ Rebase(o, n, e) \in Path /\ Len(Rebase(o, n, e)) = Len(n) + (m - Len(o))
      /\ \A j \in 1..Len(n) : Rebase(o, n, e)[j] = n[j]
      /\ \A j \in 1..m - Len(o) : Rebase(o, n, e)[Len(n) + j] = e[Len(o) + j]
  <2>1. Joined(Rebase(o, n, e), o, n, e)
    BY <1>5, <1>7, Rebased
  <2> QED
    BY <1>5, <2>1 DEF Joined
<1>9. Len(Rebase(o, n, e)) = Len(d)
  BY <1>2, <1>4, <1>8
<1>10. ASSUME NEW j \in 1..Len(d)
       PROVE  d[j] = Rebase(o, n, e)[j]
  <2>1. d[j] = r[j]
    BY <1>2 DEF Begins
  <2>2. CASE j <= Len(n)
    <3>1. j \in 1..Len(n)
      BY <1>2, <2>2
    <3> QED
      BY <1>1, <1>8, <2>1, <3>1
  <2>3. CASE ~(j <= Len(n))
    <3>1. PICK k \in 1..m - Len(o) : j = Len(n) + k
      <4>1. j - Len(n) \in 1..m - Len(o) /\ j = Len(n) + (j - Len(n))
        BY <1>2, <1>4, <2>3
      <4> QED
        BY <4>1
    <3>2. k \in 1..Len(c) - Len(o) /\ Len(o) + k \in 1..m
      BY <1>2, <1>4
    <3>3. r[j] = c[Len(o) + k] /\ Rebase(o, n, e)[j] = e[Len(o) + k]
      BY <1>1, <1>8, <3>1, <3>2
    <3>4. e[Len(o) + k] = c[Len(o) + k]
      BY <1>5, <3>2
    <3> QED
      BY <2>1, <3>3, <3>4
  <2> QED
    BY <2>2, <2>3
<1>11. Rebase(o, n, e) = d
  BY <1>8, <1>9, <1>10, SamePath
<1> QED
  BY <1>5, <1>6, <1>7, <1>11

(* What a rename that succeeds may rely on: there is a directory to move to,  *)
(* and nothing is below the place it moves to.                                *)
LEMMA RenameAllowed ==
  ASSUME NEW T, TreeType(T), Closed(T), NEW o \in Path, NEW n \in Path, o # n,
         RenameError(T, o, n) = "SUCCESS"
  PROVE  /\ o \in DOMAIN T /\ o # Root /\ n # Root
         /\ \A d \in Path : IsStrictPrefix(d, n) => IsDir(T, d)
         /\ \A d \in DOMAIN T : ~IsStrictPrefix(n, d)
<1>1. /\ o \in DOMAIN T /\ o # Root /\ n # Root
      /\ n \notin DOMAIN T => IsDir(T, Front(n))
      /\ n \in DOMAIN T => Below(T, n) = {}
  <2>1. Exists(T, o)
    BY DEF RenameError, LookupError
  <2>2. o # Root /\ n # Root
    BY <2>1 DEF RenameError
  <2>3. ~Exists(T, n) => IsDir(T, Front(n))
    BY <2>1, <2>2 DEF RenameError, LookupError
  <2>4. Exists(T, n) => Below(T, n) = {}
    BY <2>1, <2>2 DEF RenameError
  <2> QED
    BY <2>1, <2>2, <2>3, <2>4 DEF Exists
<1>2. ASSUME NEW d \in Path, IsStrictPrefix(d, n)
      PROVE  IsDir(T, d)
  <2>1. CASE n \in DOMAIN T
    BY <1>2, <2>1 DEF Closed
  <2>2. CASE n \notin DOMAIN T
    <3>1. Front(n) \in Path /\ IsPrefix(d, Front(n)) /\ Front(n) \in DOMAIN T
      BY <1>1, <1>2, <2>2, FrontIsLast DEF IsDir, Exists
    <3>2. d = Front(n) \/ IsStrictPrefix(d, Front(n))
      BY <3>1, PrefixOrder
    <3> QED
      BY <1>1, <2>2, <3>1, <3>2 DEF Closed
  <2> QED
    BY <2>1, <2>2
<1>3. ASSUME NEW d \in DOMAIN T, IsStrictPrefix(n, d)
      PROVE  FALSE
  <2>1. n \in DOMAIN T
    BY <1>3 DEF Closed, IsDir, Exists
  <2> QED
    BY <1>1, <1>3, <2>1 DEF Below
<1> QED
  BY <1>1, <1>2, <1>3

(* Where a rename leaves the entries.                                         *)
LEMMA RenameIs ==
  ASSUME NEW T, TreeType(T), Closed(T), NEW o \in Path, NEW n \in Path, o # n,
         RenameError(T, o, n) = "SUCCESS", NEW U, U = Rename(T, o, n)
  PROVE  /\ \A c : Stays(T, o, n, c) => c \in DOMAIN U /\ U[c] = T[c]
         /\ \A c : Moves(T, o, n, c) => Rebase(o, n, c) \in DOMAIN U /\ U[Rebase(o, n, c)] = T[c]
         /\ \A x \in DOMAIN U : Stays(T, o, n, x) \/ \E c : Moves(T, o, n, c) /\ x = Rebase(o, n, c)
<1> DEFINE stay == {c \in DOMAIN T : ~IsPrefix(o, c) /\ c # n}
           move == {c \in DOMAIN T : IsPrefix(o, c) /\ ~IsPrefix(o, n)}
           dom == stay \union {Rebase(o, n, d) : d \in move}
           from(c) == IF c \in stay THEN T[c] ELSE T[CHOOSE d \in move : Rebase(o, n, d) = c]
<1>1. U = [c \in dom |-> from(c)]
  BY DEF Rename
<1>2. DOMAIN T \subseteq Path
  BY DEF TreeType
<1>3. \A c \in stay : c \in dom /\ from(c) = T[c]
  OBVIOUS
<1>4. ASSUME NEW c \in move
      PROVE  Rebase(o, n, c) \in dom /\ from(Rebase(o, n, c)) = T[c]
  <2> DEFINE x == Rebase(o, n, c)
             e == CHOOSE d \in move : Rebase(o, n, d) = x
  <2>1. c \in Path /\ c \in DOMAIN T /\ IsPrefix(o, c)
    BY <1>2
  <2>2. x \notin stay
    <3>1. x = n \/ IsStrictPrefix(n, x)
      BY <2>1, RebasedBelow
    <3>2. \A d \in DOMAIN T : ~IsStrictPrefix(n, d)
      BY RenameAllowed
    <3> HIDE DEF x
    <3> QED
      BY <3>1, <3>2
  <2>3. e \in move /\ Rebase(o, n, e) = x
    <3>1. \E d \in move : Rebase(o, n, d) = x
      OBVIOUS
    <3> QED
      BY <3>1
  <2> HIDE DEF e
  <2>4. e \in Path /\ IsPrefix(o, e)
    BY <1>2, <2>3
  <2>5. e = c
    BY <2>1, <2>3, <2>4, RebaseInjective
  <2>6. x \in dom
    OBVIOUS
  <2>7. from(x) = T[e]
    BY <2>2 DEF e
  <2> QED
    BY <2>5, <2>6, <2>7
<1>5. \A x \in dom : x \in stay \/ \E c \in move : x = Rebase(o, n, c)
  OBVIOUS
<1>6. /\ \A c : Stays(T, o, n, c) <=> c \in stay
      /\ \A c : Moves(T, o, n, c) <=> c \in move
  BY DEF Stays, Moves
<1> HIDE DEF stay, move, dom, from
<1>7. DOMAIN U = dom /\ \A c \in dom : U[c] = from(c)
  BY <1>1
<1> QED
  BY <1>3, <1>4, <1>5, <1>6, <1>7

(* A rename leaves a tree.                                                    *)
LEMMA RenameClosed ==
  ASSUME NEW T, TreeType(T), Closed(T), NEW o \in Path, NEW n \in Path, o # n,
         RenameError(T, o, n) = "SUCCESS", NEW U, U = Rename(T, o, n)
  PROVE  Closed(U)
<1>1. /\ \A c : Stays(T, o, n, c) => c \in DOMAIN U /\ U[c] = T[c]
      /\ \A c : Moves(T, o, n, c) => Rebase(o, n, c) \in DOMAIN U /\ U[Rebase(o, n, c)] = T[c]
      /\ \A x \in DOMAIN U : Stays(T, o, n, x) \/ \E c : Moves(T, o, n, c) /\ x = Rebase(o, n, c)
  BY RenameIs
<1>2. /\ o \in DOMAIN T /\ o # Root /\ n # Root
      /\ \A d \in Path : IsStrictPrefix(d, n) => IsDir(T, d)
      /\ \A d \in DOMAIN T : ~IsStrictPrefix(n, d)
  BY RenameAllowed
<1>3. /\ DOMAIN T \subseteq Path /\ Root \in DOMAIN T /\ T[Root].type = "dir"
      /\ \A c \in DOMAIN T, d \in Path : IsStrictPrefix(d, c) => d \in DOMAIN T /\ T[d].type = "dir"
  BY DEF TreeType, Closed, IsDir, Exists
<1>4. IsDir(U, Root)
  <2>1. ~IsPrefix(o, Root)
    BY <1>2, RootFirst, PrefixOrder
  <2>2. Stays(T, o, n, Root)
    BY <1>2, <1>3, <2>1 DEF Stays
  <2> QED
    BY <1>1, <1>3, <2>2 DEF IsDir, Exists
<1>5. ASSUME NEW x \in DOMAIN U, NEW d \in Path, IsStrictPrefix(d, x)
      PROVE  IsDir(U, d)
  <2>1. CASE Stays(T, o, n, x)
    <3>1. x \in DOMAIN T /\ x \in Path /\ ~IsPrefix(o, x)
      BY <1>3, <2>1 DEF Stays
    <3>2. d \in DOMAIN T /\ T[d].type = "dir"
      BY <1>3, <1>5, <3>1
    <3>3. ~IsPrefix(o, d)
      BY <1>5, <3>1, PrefixOrder
    <3>4. d # n
      BY <1>2, <1>5, <3>1
    <3>5. Stays(T, o, n, d)
      BY <3>2, <3>3, <3>4 DEF Stays
    <3> QED
      BY <1>1, <3>2, <3>5 DEF IsDir, Exists
  <2>2. ASSUME NEW c, Moves(T, o, n, c), x = Rebase(o, n, c)
        PROVE  IsDir(U, d)
    <3>1. c \in DOMAIN T /\ c \in Path /\ IsPrefix(o, c) /\ ~IsPrefix(o, n)
      BY <1>3, <2>2 DEF Moves
    <3>2. CASE IsStrictPrefix(d, n)
      <4>1. d \in DOMAIN T /\ T[d].type = "dir"
        BY <1>2, <3>2 DEF IsDir, Exists
      <4>2. ~IsPrefix(o, d) /\ d # n
        BY <3>1, <3>2, PrefixOrder
      <4>3. Stays(T, o, n, d)
        BY <4>1, <4>2 DEF Stays
      <4> QED
        BY <1>1, <4>1, <4>3 DEF IsDir, Exists
    <3>3. CASE ~IsStrictPrefix(d, n)
      <4>1. IsStrictPrefix(d, Rebase(o, n, c))
        BY <1>5, <2>2
      <4>2. PICK e \in Path : IsPrefix(o, e) /\ IsStrictPrefix(e, c) /\ Rebase(o, n, e) = d
        BY <3>1, <3>3, <4>1, BeforeRebased
      <4>3. e \in DOMAIN T /\ T[e].type = "dir"
        BY <1>3, <3>1, <4>2
      <4>4. Moves(T, o, n, e)
        BY <3>1, <4>2, <4>3 DEF Moves
      <4>5. d \in DOMAIN U /\ U[d] = T[e]
        BY <1>1, <4>2, <4>4
      <4> QED
        BY <4>3, <4>5 DEF IsDir, Exists
    <3> QED
      BY <3>2, <3>3
  <2> QED
    BY <1>1, <2>1, <2>2
<1> QED
  BY <1>4, <1>5 DEF Closed

(* The open file of an entry has it where the rename left it, if anywhere.    *)
LEMMA RenameFollowed ==
  ASSUME NEW T, TreeType(T), Closed(T), NEW o \in Path, NEW n \in Path,
         RenameError(T, o, n) = "SUCCESS", NEW U, U = Rename(T, o, n),
         NEW c \in Path, c \in DOMAIN T, EntryAfterRename(o, n, c) # Nowhere
  PROVE  EntryAfterRename(o, n, c) \in DOMAIN U /\ U[EntryAfterRename(o, n, c)] = T[c]
<1>1. CASE o = n
  BY <1>1 DEF EntryAfterRename, Rename
<1>2. CASE o # n /\ ~IsPrefix(o, c) /\ c # n
  <2>1. Stays(T, o, n, c) /\ EntryAfterRename(o, n, c) = c
    BY <1>2 DEF Stays, EntryAfterRename
  <2> QED
    BY <1>2, <2>1, RenameIs
<1>3. CASE o # n /\ ~(~IsPrefix(o, c) /\ c # n)
  <2>1. c \notin {o, n} /\ ~IsPrefix(o, n) /\ EntryAfterRename(o, n, c) = Rebase(o, n, c)
    BY <1>3 DEF EntryAfterRename
  <2>2. Moves(T, o, n, c)
    BY <1>3, <2>1 DEF Moves
  <2> QED
    BY <1>3, <2>1, <2>2, RenameIs
<1> QED
  BY <1>1, <1>2, <1>3

--------------------------------------------------------------------------------
(* The effects of calls on the tree and the open files.                       *)

(* What an open file shows, wherever its position is.                         *)
SameView(g, h) == h.at = g.at /\ h.len = g.len /\ h.dirty = g.dirty

(* A handle in the middle of a call.                                          *)
View == [at : Path, pos : Int, len : Int, dirty : BOOLEAN, mode : SUBSET {"r", "w"}]

(* h comes of g by operations on the open file: what changed is to be written *)
(* back.                                                                      *)
Touched(g, h) == h \in View /\ h.at = g.at /\ (h.dirty \/ SameView(g, h))

(* The entries, their types and their sizes are the same.                     *)
SameEntries(T, U) == SameKinds(T, U) /\ \A c \in DOMAIN T : U[c].size = T[c].size

OtherFiles(a) == \A b \in Addr : b # a => heap'[b].file = heap[b].file
OtherObjects(a) == \A b \in Addr : b # a => heap'[b] = heap[b]

Looks == SameEntries(tree, tree') /\ \A a \in Addr : SameView(heap[a].file, heap'[a].file)

Writes(a, h) ==
  /\ tree' = SyncTree(tree, h) /\ Touched(heap[a].file, h)
  /\ heap'[a].file = Synced(h) /\ OtherFiles(a)

Puts(c, node) ==
  /\ c \notin DOMAIN tree /\ IsDir(tree, Front(c))
  /\ tree' = PutEntry(tree, c, node)

Makes(c, node) == Puts(c, node) /\ \A a \in Addr : heap'[a].file = heap[a].file

Removes(c) ==
  /\ c # Root /\ Below(tree, c) = {} /\ tree' = RemoveEntry(tree, c)
  /\ \A a \in Addr : /\ heap[a].file.at # c => heap'[a].file = heap[a].file
                     /\ heap[a].file.at = c => heap'[a].file.at = Nowhere

Renames(o, n) ==
  /\ RenameError(tree, o, n) = "SUCCESS" /\ tree' = Rename(tree, o, n)
  /\ \A a \in Addr :
       /\ heap'[a].file.at = EntryAfterRename(o, n, heap[a].file.at)
       /\ heap'[a].file.len = heap[a].file.len /\ heap'[a].file.dirty = heap[a].file.dirty

Opens(a, h) ==
  /\ heap[a].type = "none" /\ heap'[a].file = h /\ OtherObjects(a)
  /\ \/ UNCHANGED tree /\ (h.at # Nowhere => IsReg(tree, h.at))
     \/ \E c \in Path, node \in Node : /\ Puts(c, node) /\ node.type = "reg"
                                       /\ h.at \in {c, Nowhere} /\ node.size = h.len
  /\ h.dirty => h.len = 0
  /\ h.at # Nowhere => h.dirty \/ tree'[h.at].size = h.len

Releases(a) ==
  /\ a > NPre /\ ~heap[a].stream
  /\ tree' = SyncTree(tree, heap[a].file) /\ heap'[a].file = NoFile /\ OtherObjects(a)

(* A call on the objects that are there.                                      *)
ObjectEffect ==
  \/ Looks
  \/ \E a \in Addr, h \in View : Writes(a, h)
  \/ \E c \in Path, node \in Node : Makes(c, node)
  \/ \E c \in Path : Removes(c)
  \/ \E o, n \in Path : Renames(o, n)

--------------------------------------------------------------------------------
(* The effect of each call.                                                   *)

(* The operations of Lfs on an open file.                                     *)
LEMMA HandleViews ==
  /\ Handle \subseteq View
  /\ \A h \in View :
       /\ \A pos \in Int : MovedTo(h, pos) \in View /\ SameView(h, MovedTo(h, pos))
       /\ \A n \in Nat : AfterRead(h, n) \in View /\ SameView(h, AfterRead(h, n))
       /\ \A n \in Nat, append \in BOOLEAN :
            /\ AfterWrite(h, n, append) \in View /\ AfterWrite(h, n, append).at = h.at
            /\ AfterWrite(h, n, append).dirty
       /\ \A size \in Int : Touched(h, AfterTruncate(h, size))
       /\ Touched(h, h)
<1>1. Handle \subseteq View
  BY FileMaxNat DEF Handle, View
<1> SUFFICES ASSUME NEW h \in View
             PROVE  /\ \A pos \in Int : MovedTo(h, pos) \in View /\ SameView(h, MovedTo(h, pos))
                    /\ \A n \in Nat : AfterRead(h, n) \in View /\ SameView(h, AfterRead(h, n))
                    /\ \A n \in Nat, append \in BOOLEAN :
                         /\ AfterWrite(h, n, append) \in View /\ AfterWrite(h, n, append).at = h.at
                         /\ AfterWrite(h, n, append).dirty
                    /\ \A size \in Int : Touched(h, AfterTruncate(h, size))
                    /\ Touched(h, h)
  BY <1>1
<1>2. \A pos \in Int : MovedTo(h, pos) \in View /\ SameView(h, MovedTo(h, pos))
  BY DEF MovedTo, View, SameView
<1>3. \A n \in Nat : AfterRead(h, n) \in View /\ SameView(h, AfterRead(h, n))
  BY DEF AfterRead, View, SameView
<1>4. ASSUME NEW n \in Nat, NEW append \in BOOLEAN
      PROVE  /\ AfterWrite(h, n, append) \in View /\ AfterWrite(h, n, append).at = h.at
             /\ AfterWrite(h, n, append).dirty
  <2>1. WriteEnd(h, n, append) \in Int
    BY DEF WriteEnd, View
  <2> QED
    BY <2>1 DEF AfterWrite, View
<1>5. ASSUME NEW size \in Int
      PROVE  Touched(h, AfterTruncate(h, size))
  BY DEF AfterTruncate, View, Touched, SameView
<1>6. Touched(h, h)
  BY DEF Touched, SameView
<1> QED
  BY <1>2, <1>3, <1>4, <1>5, <1>6

(* A call that only answers.                                                  *)
LEMMA AnswerLooks ==
  ASSUME UNCHANGED <<heap, tree>>
  PROVE  Looks
BY DEF Looks, SameView, SameEntries, SameKinds

(* An operation on an open file, written back.                                *)
LEMMA SyncedWrites ==
  ASSUME TypeOK, NEW fd \in Fd, fds[fd] \in Addr, NEW h, Touched(At(fd).file, h),
         SyncedTo(fd, h)
  PROVE  ObjectEffect
<1>1. heap \in [Addr -> FileDescriptor]
  BY DEF TypeOK, HeapOK
<1>2. heap' = [heap EXCEPT ![fds[fd]].file = Synced(h)] /\ tree' = SyncTree(tree, h)
  BY DEF SyncedTo
<1>3. heap'[fds[fd]].file = Synced(h) /\ OtherFiles(fds[fd])
  BY <1>1, <1>2 DEF OtherFiles, FileDescriptor
<1>4. Writes(fds[fd], h) /\ h \in View
  BY <1>2, <1>3 DEF Writes, At, Touched
<1> QED
  BY <1>4 DEF ObjectEffect

(* The truncation of fd_allocate and fd_filestat_set_size.                    *)
LEMMA TruncateEffect ==
  ASSUME TypeOK, NEW fd \in Fd, fds[fd] \in Addr, NEW size \in Int, TruncateFile(fd, size)
  PROVE  ObjectEffect
<1>1. At(fd).file \in View
  BY HandleViews DEF TypeOK, HeapOK, FileDescriptor, At
<1>2. CASE Answer("THROW") \/ Answer("INVAL") \/ OutOfSpace
  BY <1>2, AnswerLooks DEF Answer, OutOfSpace, ObjectEffect
<1>3. CASE SyncedTo(fd, AfterTruncate(At(fd).file, Low(size)))
  <2>1. Low(size) \in Int
    BY LowType
  <2>2. Touched(At(fd).file, AfterTruncate(At(fd).file, Low(size)))
    BY <1>1, <2>1, HandleViews
  <2> QED
    BY <1>3, <2>2, SyncedWrites
<1> QED
  BY <1>2, <1>3 DEF TruncateFile

(* What the calls on an open file have in common.                             *)
LEMMA OpenFileFound ==
  ASSUME TypeOK, NEW fd \in Fd, NEW right, NEW mode, file_of(fd, right, mode) = "SUCCESS"
  PROVE  fds[fd] \in Addr /\ At(fd).file \in View /\ At(fd).append \in BOOLEAN
<1>1. fds[fd] \in Addr /\ At(fd) \in FileDescriptor /\ At(fd).file \in Handle
  BY Found
<1> QED
  BY <1>1, HandleViews DEF FileDescriptor

(* fd_allocate.                                                               *)
LEMMA AllocateEffect ==
  ASSUME TypeOK, NEW fd \in Fd, NEW offset \in Offsets, NEW len \in Offsets,
         fd_allocate(fd, offset, len)
  PROVE  ObjectEffect
<1> DEFINE found == file_of(fd, "FD_ALLOCATE", {})
           required_size == (offset + len) % (Word * Word)
<1>1. CASE Fail(found) \/ Answer("SUCCESS")
  BY <1>1, AnswerLooks DEF Fail, Answer, ObjectEffect
<1>2. CASE found = "SUCCESS" /\ TruncateFile(fd, required_size)
  <2>1. offset + len \in Int
    BY ArgumentAssumption
  <2>2. Word * Word \in Nat /\ Word * Word > 0
    BY WordAssumption
  <2>3. \A i \in Int, m \in Nat : m > 0 => i % m \in Int
    OBVIOUS
  <2>4. required_size \in Int
    BY <2>1, <2>2, <2>3
  <2>5. fds[fd] \in Addr
    BY <1>2, Found
  <2> QED
    BY <1>2, <2>4, <2>5, TruncateEffect
<1> QED
  BY <1>1, <1>2 DEF fd_allocate

(* fd_filestat_set_size.                                                      *)
LEMMA SetSizeEffect ==
  ASSUME TypeOK, NEW fd \in Fd, NEW size \in Offsets, fd_filestat_set_size(fd, size)
  PROVE  ObjectEffect
<1> DEFINE found == file_of(fd, "FD_FILESTAT_SET_SIZE", {})
<1>1. CASE Fail(found)
  BY <1>1, AnswerLooks DEF Fail, Answer, ObjectEffect
<1>2. CASE found = "SUCCESS" /\ TruncateFile(fd, size)
  <2>1. size \in Int /\ fds[fd] \in Addr
    BY <1>2, Found, ArgumentAssumption
  <2> QED
    BY <1>2, <2>1, TruncateEffect
<1> QED
  BY <1>1, <1>2 DEF fd_filestat_set_size

(* fd_read and fd_pread.                                                      *)
LEMMA ReadEffect ==
  ASSUME TypeOK, NEW fd \in Fd, NEW n \in IoLens,
         fd_read(fd, n) \/ \E offset \in Offsets : fd_pread(fd, n, offset)
  PROVE  ObjectEffect
<1> DEFINE found == file_of(fd, "FD_READ", {"r"})
           h == At(fd).file
           target(offset) == SeekTarget(h, offset, "SET")
           read(offset) == AfterRead(MovedTo(h, target(offset)), n)
<1>1. CASE Fail(found) \/ Answer("INVAL")
  BY <1>1, AnswerLooks DEF Fail, Answer, ObjectEffect
<1>2. CASE found = "SUCCESS" /\ SyncedTo(fd, AfterRead(h, n))
  <2>1. h \in View /\ fds[fd] \in Addr /\ n \in Nat
    BY <1>2, OpenFileFound, ArgumentAssumption
  <2>2. Touched(h, AfterRead(h, n))
    BY <2>1, HandleViews DEF Touched, SameView
  <2> QED
    BY <1>2, <2>1, <2>2, SyncedWrites
<1>3. ASSUME NEW offset \in Offsets, found = "SUCCESS", target(offset) >= 0,
             SyncedTo(fd, MovedTo(read(offset), h.pos))
      PROVE  ObjectEffect
  <2>1. h \in View /\ fds[fd] \in Addr /\ n \in Nat /\ h.pos \in Int
    BY <1>3, OpenFileFound, ArgumentAssumption DEF View
  <2>2. target(offset) \in Int
    <3>1. h \in Handle
      BY <1>3, Found
    <3> QED
      BY <1>3, <3>1, SetTarget, FileMaxNat
  <2>3. MovedTo(h, target(offset)) \in View /\ SameView(h, MovedTo(h, target(offset)))
    BY <2>1, <2>2, HandleViews
  <2>4. read(offset) \in View /\ SameView(MovedTo(h, target(offset)), read(offset))
    BY <2>1, <2>3, HandleViews
  <2> HIDE DEF read
  <2>5. /\ MovedTo(read(offset), h.pos) \in View
        /\ SameView(read(offset), MovedTo(read(offset), h.pos))
    BY <2>1, <2>4, HandleViews
  <2>6. Touched(h, MovedTo(read(offset), h.pos))
    BY <2>3, <2>4, <2>5 DEF Touched, SameView
  <2> QED
    BY <1>3, <2>1, <2>6, SyncedWrites
<1> QED
  BY <1>1, <1>2, <1>3 DEF fd_read, fd_pread

(* fd_write and fd_pwrite.                                                    *)
LEMMA WriteEffect ==
  ASSUME TypeOK, NEW fd \in Fd, NEW n \in IoLens,
         fd_write(fd, n) \/ \E offset \in Offsets : fd_pwrite(fd, n, offset)
  PROVE  ObjectEffect
<1> DEFINE found == file_of(fd, "FD_WRITE", {"w"})
           h == At(fd).file
           append == At(fd).append
           written == AfterWrite(h, n, append)
           target(offset) == SeekTarget(h, offset, "SET")
           there(offset) == AfterWrite(MovedTo(h, target(offset)), n, FALSE)
<1>1. CASE Fail(found) \/ Answer("INVAL") \/ OutOfSpace
  BY <1>1, AnswerLooks DEF Fail, Answer, OutOfSpace, ObjectEffect
<1>2. CASE found = "SUCCESS" /\ SyncedTo(fd, IF append THEN MovedTo(written, h.pos) ELSE written)
  <2>1. h \in View /\ fds[fd] \in Addr /\ n \in Nat /\ append \in BOOLEAN /\ h.pos \in Int
    BY <1>2, OpenFileFound, ArgumentAssumption DEF View
  <2>2. written \in View /\ written.at = h.at /\ written.dirty
    BY <2>1, HandleViews
  <2> HIDE DEF written
  <2>3. MovedTo(written, h.pos) \in View /\ SameView(written, MovedTo(written, h.pos))
    BY <2>1, <2>2, HandleViews
  <2>4. Touched(h, IF append THEN MovedTo(written, h.pos) ELSE written)
    BY <2>1, <2>2, <2>3 DEF Touched, SameView
  <2> QED
    BY <1>2, <2>1, <2>4, SyncedWrites
<1>3. ASSUME NEW offset \in Offsets, found = "SUCCESS", target(offset) >= 0,
             SyncedTo(fd, MovedTo(there(offset), h.pos))
      PROVE  ObjectEffect
  <2>1. h \in View /\ fds[fd] \in Addr /\ n \in Nat /\ h.pos \in Int
    BY <1>3, OpenFileFound, ArgumentAssumption DEF View
  <2>2. target(offset) \in Int
    <3>1. h \in Handle
      BY <1>3, Found
    <3> QED
      BY <1>3, <3>1, SetTarget, FileMaxNat
  <2>3. MovedTo(h, target(offset)) \in View /\ SameView(h, MovedTo(h, target(offset)))
    BY <2>1, <2>2, HandleViews
  <2>4. /\ there(offset) \in View /\ there(offset).at = MovedTo(h, target(offset)).at
        /\ there(offset).dirty
    BY <2>1, <2>3, HandleViews
  <2> HIDE DEF there
  <2>5. /\ MovedTo(there(offset), h.pos) \in View
        /\ SameView(there(offset), MovedTo(there(offset), h.pos))
    BY <2>1, <2>4, HandleViews
  <2>6. Touched(h, MovedTo(there(offset), h.pos))
    BY <2>3, <2>4, <2>5 DEF Touched, SameView
  <2> QED
    BY <1>3, <2>1, <2>6, SyncedWrites
<1> QED
  BY <1>1, <1>2, <1>3 DEF fd_write, fd_pwrite

(* fd_seek and fd_tell.                                                       *)
LEMMA SeekEffect ==
  ASSUME TypeOK, NEW fd \in Fd, NEW offset \in Int, NEW whence, fd_seek(fd, offset, whence)
  PROVE  Looks
<1> DEFINE required == IF whence = "CUR" /\ offset = 0 THEN {"FD_SEEK", "FD_TELL"} ELSE {"FD_SEEK"}
           found == lookup_fd(fd, "reg", required, TRUE)
           target == SeekTarget(At(fd).file, offset, whence)
<1>1. CASE UNCHANGED <<heap, tree>>
  BY <1>1, AnswerLooks
<1>2. CASE /\ found = "SUCCESS" /\ target \in 0..FileMax
           /\ heap' = [heap EXCEPT ![fds[fd]].file = MovedTo(At(fd).file, target)]
           /\ UNCHANGED tree
  <2>1. fds[fd] \in Addr /\ At(fd) \in FileDescriptor
    <3> HIDE DEF required
    <3> QED
      BY <1>2, Found
  <2>2. SameView(At(fd).file, MovedTo(At(fd).file, target))
    BY <1>2, <2>1, HandleViews, FileMaxNat DEF FileDescriptor
  <2>3. ASSUME NEW a \in Addr
        PROVE  SameView(heap[a].file, heap'[a].file)
    <3>1. heap \in [Addr -> FileDescriptor]
      BY DEF TypeOK, HeapOK
    <3>2. a # fds[fd] => heap'[a] = heap[a]
      BY <1>2, <3>1
    <3>3. a = fds[fd] => heap'[a].file = MovedTo(At(fd).file, target)
      BY <1>2, <2>1, <3>1 DEF FileDescriptor
    <3>4. SameView(heap[a].file, heap[a].file)
      BY DEF SameView
    <3> HIDE DEF target
    <3> QED
      BY <2>2, <3>2, <3>3, <3>4 DEF At
  <2> QED
    BY <1>2, <2>3 DEF Looks, SameEntries, SameKinds
<1> QED
  BY <1>1, <1>2 DEF fd_seek, Fail, Answer

(* fd_fdstat_set_flags and fd_fdstat_set_rights.                              *)
LEMMA SetFlagsEffect ==
  ASSUME TypeOK, NEW fd \in Fd, NEW append, fd_fdstat_set_flags(fd, append)
  PROVE  Looks
<1>1. CASE UNCHANGED <<heap, tree>>
  BY <1>1, AnswerLooks
<1>2. CASE heap' = [heap EXCEPT ![fds[fd]].append = append] /\ UNCHANGED tree
  <2>1. \A a \in Addr : heap'[a].file = heap[a].file
    BY <1>2 DEF TypeOK, HeapOK, FileDescriptor
  <2> QED
    BY <1>2, <2>1 DEF Looks, SameEntries, SameKinds, SameView
<1> QED
  BY <1>1, <1>2 DEF fd_fdstat_set_flags, Fail, Answer

(* fd_fdstat_set_rights changes no open file.                                 *)
LEMMA SetRightsEffect ==
  ASSUME TypeOK, NEW fd \in Fd, NEW base, NEW inh, fd_fdstat_set_rights(fd, base, inh)
  PROVE  Looks
<1>1. CASE UNCHANGED <<heap, tree>>
  BY <1>1, AnswerLooks
<1>2. CASE heap' = [heap EXCEPT ![fds[fd]].base = base, ![fds[fd]].inh = inh] /\ UNCHANGED tree
  <2>1. \A a \in Addr : heap'[a].file = heap[a].file
    BY <1>2 DEF TypeOK, HeapOK, FileDescriptor
  <2> QED
    BY <1>2, <2>1 DEF Looks, SameEntries, SameKinds, SameView
<1> QED
  BY <1>1, <1>2 DEF fd_fdstat_set_rights, Fail, Answer

(* The calls that only look at a descriptor.                                  *)
LEMMA LookEffect ==
  ASSUME LookCalls
  PROVE  Looks
<1>1. UNCHANGED <<heap, tree>>
  BY DEF LookCalls, not_implemented, fd_advise, fd_datasync, fd_sync, fd_fdstat_get,
         fd_filestat_get, fd_prestat_get, path_filestat_get, Answer
<1> QED
  BY <1>1, AnswerLooks

(* The calls on open files, together.                                         *)
LEMMA FileEffect ==
  ASSUME TypeOK, FileCalls
  PROVE  ObjectEffect
<1>1. FdArgs \subseteq Fd
  BY Constants
<1>2. ASSUME NEW fd \in FdArgs, NEW offset \in Offsets, NEW len \in Offsets,
             fd_allocate(fd, offset, len)
      PROVE  ObjectEffect
  BY <1>1, <1>2, AllocateEffect
<1>3. ASSUME NEW fd \in FdArgs, NEW size \in Offsets, fd_filestat_set_size(fd, size)
      PROVE  ObjectEffect
  BY <1>1, <1>3, SetSizeEffect
<1>4. ASSUME NEW fd \in FdArgs, NEW n \in IoLens,
             fd_read(fd, n) \/ \E offset \in Offsets : fd_pread(fd, n, offset)
      PROVE  ObjectEffect
  BY <1>1, <1>4, ReadEffect
<1>5. ASSUME NEW fd \in FdArgs, NEW n \in IoLens,
             fd_write(fd, n) \/ \E offset \in Offsets : fd_pwrite(fd, n, offset)
      PROVE  ObjectEffect
  BY <1>1, <1>5, WriteEffect
<1>6. ASSUME NEW fd \in FdArgs, NEW offset \in Int, NEW whence, fd_seek(fd, offset, whence)
      PROVE  ObjectEffect
  BY <1>1, <1>6, SeekEffect DEF ObjectEffect
<1>7. Offsets \subseteq Int /\ 0 \in Int
  BY ArgumentAssumption
<1> QED
  BY <1>2, <1>3, <1>4, <1>5, <1>6, <1>7 DEF FileCalls, fd_tell

(* fd_filestat_set_times and path_filestat_set_times.                         *)
LEMMA SetTimesEffect ==
  ASSUME TypeOK, NEW c, NEW flags, NEW t, set_file_times(c, flags, t)
  PROVE  Looks
<1>1. CASE UNCHANGED <<heap, tree>>
  BY <1>1, AnswerLooks
<1>2. ASSUME c \in DOMAIN tree, NEW time, tree' = [tree EXCEPT ![c].time = time], UNCHANGED heap
      PROVE  Looks
  <2>1. tree[c] \in Node
    BY <1>2 DEF TypeOK, TreeOK
  <2>2. /\ [tree[c] EXCEPT !.time = time].type = tree[c].type
        /\ [tree[c] EXCEPT !.time = time].size = tree[c].size
    BY <2>1 DEF Node
  <2>3. /\ DOMAIN tree' = DOMAIN tree
        /\ \A d \in DOMAIN tree :
             tree'[d] = IF d = c THEN [tree[c] EXCEPT !.time = time] ELSE tree[d]
    BY <1>2 DEF TypeOK, TreeOK
  <2>4. SameEntries(tree, tree')
    BY <2>2, <2>3 DEF SameEntries, SameKinds
  <2> QED
    BY <1>2, <2>4 DEF Looks, SameView
<1>3. CASE Exists(tree, c) /\ UNCHANGED heap
           /\ \E now \in Times :
                tree' = [tree EXCEPT ![c].time = IF "TIM" \in flags THEN t
                                                 ELSE IF "TIM_NOW" \in flags THEN now ELSE @]
  <2>1. PICK now \in Times :
          tree' = [tree EXCEPT ![c].time = IF "TIM" \in flags THEN t
                                           ELSE IF "TIM_NOW" \in flags THEN now ELSE tree[c].time]
    BY <1>3 DEF Exists
  <2> QED
    BY <1>2, <1>3, <2>1 DEF Exists
<1> QED
  BY <1>1, <1>3 DEF set_file_times, Answer

(* path_create_directory.                                                     *)
LEMMA MkdirEffect ==
  ASSUME TypeOK, NEW fd \in Fd, NEW arg \in PathArgs, path_create_directory(fd, arg)
  PROVE  ObjectEffect
<1> DEFINE found == dir_of(fd, {"PATH_CREATE_DIRECTORY"})
           p == resolve_path(At(fd), arg)
           error == First(found, MkdirError(tree, p))
           node == [type |-> "dir", size |-> 0, time |-> DefaultTime]
<1>1. CASE UNCHANGED <<heap, tree>>
  BY <1>1, AnswerLooks DEF ObjectEffect
<1>2. CASE error = "SUCCESS" /\ tree' = PutEntry(tree, p.comps, node) /\ UNCHANGED heap
  <2>1. found = "SUCCESS" /\ MkdirError(tree, p) = "SUCCESS"
    BY <1>2 DEF First
  <2>2. p.comps \in Path
    BY <2>1, Found, ResolvePathType DEF PathRec
  <2>3. node \in Node
    BY ArgumentAssumption, FileMaxNat DEF Node
  <2>4. p.comps \notin DOMAIN tree /\ IsDir(tree, Front(p.comps))
    BY <2>1 DEF MkdirError, CreateError, LookupError, Exists
  <2>5. Makes(p.comps, node)
    BY <1>2, <2>4 DEF Makes, Puts
  <2> QED
    BY <2>2, <2>3, <2>5 DEF ObjectEffect
<1> QED
  BY <1>1, <1>2 DEF path_create_directory, Fail, Answer, OutOfSpace

(* path_remove_directory: what it removes is no file, so no open file has it. *)
LEMMA RemoveDirectoryEffect ==
  ASSUME TypeOK, \A a \in Addr : heap[a].file.at # Nowhere => IsReg(tree, heap[a].file.at),
         NEW fd \in Fd, NEW arg \in PathArgs, path_remove_directory(fd, arg)
  PROVE  ObjectEffect
<1> DEFINE found == dir_of(fd, {"PATH_REMOVE_DIRECTORY"})
           c == resolve_path(At(fd), arg).comps
           result == IF IsReg(tree, c) THEN "NOTDIR" ELSE RemoveError(tree, c)
<1>1. CASE UNCHANGED <<heap, tree>>
  BY <1>1, AnswerLooks DEF ObjectEffect
<1>2. CASE First(found, result) = "SUCCESS" /\ tree' = RemoveEntry(tree, c) /\ UNCHANGED heap
  <2>1. found = "SUCCESS" /\ result = "SUCCESS"
    BY <1>2 DEF First
  <2>2. c \in Path
    BY <2>1, Found, ResolvePathType DEF PathRec
  <2> HIDE DEF c
  <2>3. ~IsReg(tree, c) /\ c # Root /\ Below(tree, c) = {}
    BY <2>1 DEF RemoveError, LookupError
  <2>4. \A a \in Addr : heap[a].file.at # c
    BY <2>3 DEF Nowhere
  <2>5. Removes(c)
    BY <1>2, <2>3, <2>4 DEF Removes
  <2> QED
    BY <2>2, <2>5 DEF ObjectEffect
<1> QED
  BY <1>1, <1>2 DEF path_remove_directory, Fail, Answer

(* path_unlink_file.                                                          *)
LEMMA UnlinkEffect ==
  ASSUME TypeOK, NEW fd \in Fd, NEW arg \in PathArgs, path_unlink_file(fd, arg)
  PROVE  ObjectEffect
<1> DEFINE found == dir_of(fd, {"PATH_UNLINK_FILE"})
           p == resolve_path(At(fd), arg)
           result == IF IsDir(tree, p.comps) THEN "ISDIR"
                     ELSE IF p.slash THEN "NOTDIR" ELSE RemoveError(tree, p.comps)
<1>1. CASE UNCHANGED <<heap, tree>>
  BY <1>1, AnswerLooks DEF ObjectEffect
<1>2. CASE /\ First(found, result) = "SUCCESS"
           /\ tree' = RemoveEntry(tree, p.comps)
           /\ heap' = [a \in Addr |-> IF heap[a].file.at = p.comps
                                      THEN [heap[a] EXCEPT !.file.at = Nowhere] ELSE heap[a]]
  <2>1. found = "SUCCESS" /\ result = "SUCCESS"
    BY <1>2 DEF First
  <2>2. p.comps \in Path
    BY <2>1, Found, ResolvePathType DEF PathRec
  <2>3. p.comps # Root /\ Below(tree, p.comps) = {}
    BY <2>1 DEF RemoveError, LookupError
  <2>4. ASSUME NEW a \in Addr
        PROVE  /\ heap[a].file.at # p.comps => heap'[a].file = heap[a].file
               /\ heap[a].file.at = p.comps => heap'[a].file.at = Nowhere
    <3>1. heap[a] \in FileDescriptor
      BY DEF TypeOK, HeapOK
    <3> HIDE DEF p
    <3> QED
      BY <1>2, <3>1 DEF FileDescriptor, Handle
  <2>5. Removes(p.comps)
    BY <1>2, <2>3, <2>4 DEF Removes
  <2> QED
    BY <2>2, <2>5 DEF ObjectEffect
<1> QED
  BY <1>1, <1>2 DEF path_unlink_file, Fail, Answer

(* path_rename.                                                               *)
LEMMA RenameEffect ==
  ASSUME TypeOK, NEW old_fd \in Fd, NEW old_arg \in PathArgs, NEW new_fd \in Fd,
         NEW new_arg \in PathArgs, path_rename(old_fd, old_arg, new_fd, new_arg)
  PROVE  ObjectEffect
<1> DEFINE old == resolve_path(At(old_fd), old_arg)
           new == resolve_path(At(new_fd), new_arg)
           is_old_file == IsReg(tree, old.comps)
           result == RenameError(tree, old.comps, new.comps)
           mapped == IF result = "ISDIR" /\ IsReg(tree, new.comps) THEN "NOTDIR" ELSE result
           old_slash == IF is_old_file /\ old.slash THEN "NOTDIR" ELSE "SUCCESS"
           new_slash == IF is_old_file /\ new.slash THEN "NOTDIR" ELSE "SUCCESS"
           old_dir == dir_of(old_fd, {"PATH_RENAME_SOURCE"})
           new_dir == dir_of(new_fd, {"PATH_RENAME_TARGET"})
           error == First(old_dir, First(old_slash, First(new_dir, First(new_slash, mapped))))
<1>1. CASE UNCHANGED <<heap, tree>>
  BY <1>1, AnswerLooks DEF ObjectEffect
<1>2. CASE /\ error = "SUCCESS"
           /\ tree' = Rename(tree, old.comps, new.comps)
           /\ heap' = [a \in Addr |-> [heap[a] EXCEPT !.file.at =
                                         EntryAfterRename(old.comps, new.comps, @)]]
  <2>1. old_dir = "SUCCESS" /\ new_dir = "SUCCESS" /\ mapped = "SUCCESS"
    <3> HIDE DEF mapped, old_slash, new_slash, old_dir, new_dir
    <3> QED
      BY <1>2 DEF First
  <2>2. old \in PathRec /\ new \in PathRec
    BY <2>1, Found, ResolvePathType
  <2>3. old.comps \in Path /\ new.comps \in Path
    BY <2>2 DEF PathRec
  <2>4. result = "SUCCESS"
    <3> HIDE DEF result
    <3> QED
      BY <2>1
  <2>5. ASSUME NEW a \in Addr
        PROVE  /\ heap'[a].file.at = EntryAfterRename(old.comps, new.comps, heap[a].file.at)
               /\ heap'[a].file.len = heap[a].file.len /\ heap'[a].file.dirty = heap[a].file.dirty
    <3>1. heap[a] \in FileDescriptor
      BY DEF TypeOK, HeapOK
    <3> HIDE DEF old, new
    <3> QED
      BY <1>2, <3>1 DEF FileDescriptor, Handle
  <2>6. Renames(old.comps, new.comps)
    BY <1>2, <2>4, <2>5 DEF Renames
  <2> QED
    BY <2>3, <2>6 DEF ObjectEffect
<1> QED
  BY <1>1, <1>2 DEF path_rename, Fail, Answer, OutOfSpace

(* The calls on paths, together.                                              *)
LEMMA PathEffect ==
  ASSUME TypeOK, \A a \in Addr : heap[a].file.at # Nowhere => IsReg(tree, heap[a].file.at),
         PathCalls
  PROVE  ObjectEffect
<1>1. FdArgs \subseteq Fd
  BY Constants
<1>2. ASSUME NEW fd \in FdArgs, NEW flags \in TimeFlags, NEW t \in Times,
             fd_filestat_set_times(fd, flags, t)
      PROVE  ObjectEffect
  BY <1>2, SetTimesEffect, AnswerLooks DEF fd_filestat_set_times, Fail, Answer, ObjectEffect
<1>3. ASSUME NEW fd \in FdArgs, NEW arg \in PathArgs, NEW flags \in TimeFlags, NEW t \in Times,
             path_filestat_set_times(fd, arg, flags, t)
      PROVE  ObjectEffect
  BY <1>3, SetTimesEffect, AnswerLooks DEF path_filestat_set_times, Fail, Answer, ObjectEffect
<1>4. ASSUME NEW fd \in FdArgs, NEW arg \in PathArgs,
             path_create_directory(fd, arg) \/ path_remove_directory(fd, arg)
               \/ path_unlink_file(fd, arg)
      PROVE  ObjectEffect
  BY <1>1, <1>4, MkdirEffect, RemoveDirectoryEffect, UnlinkEffect
<1>5. ASSUME NEW old_fd \in FdArgs, NEW new_fd \in FdArgs, NEW old_arg \in PathArgs,
             NEW new_arg \in PathArgs, path_rename(old_fd, old_arg, new_fd, new_arg)
      PROVE  ObjectEffect
  BY <1>1, <1>5, RenameEffect
<1> QED
  BY <1>2, <1>3, <1>4, <1>5 DEF PathCalls

(* path_open: the handle is on an entry that was a file or has become one.    *)
LEMMA OpenEffect ==
  ASSUME TypeOK, NEW fd \in Fd, NEW arg \in PathArgs, NEW oflags,
         NEW base \in SUBSET Right, NEW inh \in SUBSET Right, NEW append \in BOOLEAN,
         path_open(fd, arg, oflags, base, inh, append)
  PROVE  UNCHANGED <<heap, tree>> \/ \E a \in Addr, h \in View : Opens(a, h)
<1> DEFINE p == resolve_path(At(fd), arg)
           creates == "DIRECTORY" \notin oflags /\ ~Exists(tree, p.comps)
           node == [type |-> "reg", size |-> 0, time |-> DefaultTime]
           new(m) == opened(At(fd), p, oflags, base, inh, append, m)
<1>1. CASE Fail(open_error(fd, p, oflags)) \/ OutOfSpace
  BY <1>1 DEF Fail, Answer, OutOfSpace
<1>2. ASSUME open_error(fd, p, oflags) = "SUCCESS",
             NEW a \in Addr, NEW m \in Pointers, heap[a].type = "none",
             heap' = [heap EXCEPT ![a] = new(m)],
             tree' = (IF creates THEN PutEntry(tree, p.comps, node) ELSE tree)
      PROVE  \E h \in View : Opens(a, h)
  <2> DEFINE h == new(m).file
  <2>1. p.comps \in Path /\ new(m) \in FileDescriptor /\ heap \in [Addr -> FileDescriptor]
    BY <1>2, OpenedType DEF TypeOK, HeapOK
  <2>2. h \in Handle /\ h \in View
    <3> HIDE DEF new
    <3> QED
      BY <2>1, HandleViews DEF FileDescriptor
  <2>3. heap'[a].file = h /\ OtherObjects(a)
    <3> HIDE DEF new
    <3> QED
      BY <1>2, <2>1 DEF OtherObjects
  <2>4. CASE "DIRECTORY" \in oflags
    <3>1. h.at = Nowhere /\ ~h.dirty /\ UNCHANGED tree
      BY <1>2, <2>4 DEF opened, NoFile
    <3> HIDE DEF h
    <3> QED
      BY <1>2, <2>2, <2>3, <3>1 DEF Opens
  <2>5. CASE "DIRECTORY" \notin oflags
    <3> DEFINE mode == open_mode(open_rights(At(fd), oflags, base))
    <3>1. FileOpenError(tree, p, oflags) = "SUCCESS"
      BY <1>2, <2>5 DEF open_error, First
    <3>2. h = OpenHandle(tree, p, oflags, mode)
      BY <2>5 DEF opened
    <3> HIDE DEF h, mode
    <3>3. CASE Exists(tree, p.comps)
      <4>1. UNCHANGED tree
        BY <1>2, <3>3
      <4>2. IsReg(tree, p.comps)
        <5>1. ~IsDir(tree, p.comps)
          BY <3>1, <3>3 DEF FileOpenError
        <5>2. tree[p.comps].type \in {"dir", "reg"}
          BY <3>3 DEF TypeOK, TreeOK, Exists, Node
        <5> QED
          BY <3>3, <5>1, <5>2 DEF IsReg, IsDir
      <4>3. /\ h.at = IF p.slash THEN Nowhere ELSE p.comps
            /\ h.len = IF "TRUNC" \in oflags THEN 0 ELSE tree[p.comps].size
            /\ h.dirty <=> "TRUNC" \in oflags
        BY <3>2, <3>3 DEF OpenHandle
      <4> HIDE DEF p
      <4>4. Opens(a, h)
        BY <1>2, <2>3, <4>1, <4>2, <4>3 DEF Opens
      <4> QED
        BY <2>2, <4>4
    <3>4. CASE ~Exists(tree, p.comps)
      <4>1. tree' = PutEntry(tree, p.comps, node) /\ node \in Node
        BY <1>2, <2>5, <3>4, ArgumentAssumption, FileMaxNat DEF Node
      <4>2. IsDir(tree, Front(p.comps)) /\ p.comps \notin DOMAIN tree
        BY <3>1, <3>4 DEF FileOpenError, CreateError, LookupError, Exists
      <4>3. h.at \in {p.comps, Nowhere} /\ h.len = 0 /\ ~h.dirty
        BY <3>2, <3>4 DEF OpenHandle
      <4>4. tree'[p.comps] = node /\ node.type = "reg" /\ node.size = 0
        BY <4>1 DEF PutEntry
      <4> HIDE DEF p, node
      <4>5. Puts(p.comps, node)
        BY <4>1, <4>2 DEF Puts
      <4>6. Opens(a, h)
        BY <1>2, <2>1, <2>3, <4>1, <4>3, <4>4, <4>5 DEF Opens
      <4> QED
        BY <2>2, <4>6
    <3> QED
      BY <3>3, <3>4
  <2> QED
    BY <2>4, <2>5
<1> QED
  BY <1>1, <1>2 DEF path_open

(* fd_close and fd_renumber.                                                  *)
LEMMA ReleaseEffect ==
  ASSUME IInv, NEW fd \in Fd, fds[fd] \in Addr, ~At(fd).stream, ~IsPreopen(fd), Release(fd)
  PROVE  Releases(fds[fd])
<1>1. heap \in [Addr -> FileDescriptor]
  BY DEF IInv, TypeOK, HeapOK
<1>2. \A a \in Addr : heap'[a] = IF a = fds[fd] THEN Blank ELSE heap[a]
  BY <1>1 DEF Release
<1>3. Blank.file = NoFile
  BY DEF Blank
<1>4. tree' = SyncTree(tree, heap[fds[fd]].file)
  BY DEF Release, At
<1>5. fds[fd] > NPre
  BY NotPreopened
<1> QED
  BY <1>2, <1>3, <1>4, <1>5 DEF Releases, OtherObjects, At

(* fd_close releases the object of its number, or fails.                      *)
LEMMA CloseEffect ==
  ASSUME IInv, NEW fd \in Fd, fd_close(fd)
  PROVE  UNCHANGED <<heap, tree>> \/ \E a \in Addr : Releases(a)
<1>1. CASE fd >= 3 /\ fd_close_error(fd) = "SUCCESS" /\ Release(fd)
  <2>1. fds[fd] \in Addr /\ ~At(fd).stream /\ ~IsPreopen(fd)
    BY <1>1, CloseError DEF IInv
  <2> QED
    BY <1>1, <2>1, ReleaseEffect
<1> QED
  BY <1>1 DEF fd_close, Fail, Answer

(* fd_renumber releases the object of the number it takes, if there is one.   *)
LEMMA RenumberEffect ==
  ASSUME IInv, NEW fd \in Fd, NEW to \in Fd, fd_renumber(fd, to)
  PROVE  UNCHANGED <<heap, tree>> \/ \E a \in Addr : Releases(a)
<1>1. CASE fd_renumber_error(fd, to) = "SUCCESS" /\ to >= 3 /\ fds[to] # Free /\ Release(to)
  <2>1. fd_close_error(to) = "SUCCESS"
    BY <1>1, Zenon DEF fd_renumber_error, First, require_not_preopen
  <2>2. fds[to] \in Addr /\ ~At(to).stream /\ ~IsPreopen(to)
    BY <1>1, <2>1, CloseError DEF IInv
  <2> QED
    BY <1>1, <2>2, ReleaseEffect
<1> QED
  BY <1>1 DEF fd_renumber, Fail, Answer

(* No object appears, disappears or becomes a stream.                         *)
SameTypes ==
  \A a \in Addr : heap'[a].type = heap[a].type /\ heap'[a].stream = heap[a].stream

Effect ==
  \/ ObjectEffect /\ SameTypes
  \/ \E a \in Addr, h \in View : Opens(a, h)
  \/ \E a \in Addr : Releases(a)

(* Every call has one of the effects.                                         *)
LEMMA StepEffect ==
  ASSUME IInv, \A a \in Addr : heap[a].file.at # Nowhere => IsReg(tree, heap[a].file.at), Next
  PROVE  Effect
<1>1. FdArgs \subseteq Fd /\ RightsArgs \subseteq SUBSET Right /\ AppendArgs \subseteq BOOLEAN
  BY Constants, ArgumentAssumption
<1>2. TypeOK
  BY DEF IInv
<1>3. SameObjects => SameTypes
  BY DEF SameObjects, SameTypes
<1>4. CASE LookCalls
  BY <1>2, <1>3, <1>4, LookEffect, LookStep DEF Effect, ObjectEffect
<1>5. CASE FileCalls
  BY <1>2, <1>3, <1>5, FileEffect, FileStep DEF Effect
<1>6. CASE PathCalls
  BY <1>2, <1>3, <1>6, PathEffect, PathStep DEF Effect
<1>7. CASE UNCHANGED <<heap, tree>>
  BY <1>7, AnswerLooks DEF Effect, ObjectEffect, SameTypes
<1>8. ASSUME NEW fd \in FdArgs, NEW append \in AppendArgs, fd_fdstat_set_flags(fd, append)
      PROVE  Effect
  BY <1>1, <1>2, <1>3, <1>8, SetFlagsEffect, SetFlagsStep DEF Effect, ObjectEffect
<1>9. ASSUME NEW fd \in FdArgs, NEW base \in RightsArgs, NEW inh \in RightsArgs,
             fd_fdstat_set_rights(fd, base, inh)
      PROVE  Effect
  BY <1>1, <1>2, <1>3, <1>9, SetRightsEffect, SetRightsStep DEF Effect, ObjectEffect
<1>10. ASSUME NEW fd \in FdArgs, fd_close(fd)
       PROVE  Effect
  BY <1>1, <1>7, <1>10, CloseEffect DEF Effect
<1>11. ASSUME NEW fd \in FdArgs, NEW to \in FdArgs, fd_renumber(fd, to)
       PROVE  Effect
  BY <1>1, <1>7, <1>11, RenumberEffect DEF Effect
<1>12. ASSUME NEW fd \in FdArgs, NEW arg \in PathArgs, NEW oflags \in OpenFlags,
              NEW base \in RightsArgs, NEW inh \in RightsArgs, NEW append \in AppendArgs,
              path_open(fd, arg, oflags, base, inh, append)
       PROVE  Effect
  <2>1. fd \in Fd /\ base \in SUBSET Right /\ inh \in SUBSET Right /\ append \in BOOLEAN
    BY <1>1
  <2>2. UNCHANGED <<heap, tree>> \/ \E a \in Addr, h \in View : Opens(a, h)
    BY <1>2, <1>12, <2>1, OpenEffect
  <2> QED
    BY <1>7, <2>2 DEF Effect
<1>13. CASE TableCalls
  BY <1>8, <1>9, <1>10, <1>11, <1>12, <1>13 DEF TableCalls
<1> QED
  BY <1>4, <1>5, <1>6, <1>13 DEF Next

--------------------------------------------------------------------------------
(* The tree and the open files.                                               *)

(* An open file with an entry: the entry is a file, and what is still to be   *)
(* written back is a truncation.                                              *)
Fits(T, h) == h.at # Nowhere => IsReg(T, h.at) /\ (h.dirty => h.len = 0)

FInv == Closed(tree) /\ \A a \in Addr : Fits(tree, heap[a].file)

(* If an open file has an entry after a step it had one before, of the same   *)
(* type and size, and it shows the same.                                      *)
Carries(T, g, U, h) ==
  h.at # Nowhere => /\ g.at # Nowhere /\ h.at \in DOMAIN U
                    /\ U[h.at].type = T[g.at].type /\ U[h.at].size = T[g.at].size
                    /\ h.len = g.len /\ h.dirty = g.dirty

(* An open file that is carried fits its entry as before.                     *)
LEMMA CarriesFits ==
  ASSUME NEW T, NEW g, NEW U, NEW h, Fits(T, g), Carries(T, g, U, h)
  PROVE  Fits(U, h)
BY DEF Fits, Carries, IsReg, Exists

(* The calls that write nothing back carry every open file.                   *)
LEMMA LooksCarries ==
  ASSUME FInv, Looks
  PROVE  Closed(tree') /\ \A a \in Addr : Carries(tree, heap[a].file, tree', heap'[a].file)
<1>1. Closed(tree')
  BY SameKindsClosed DEF FInv, Looks, SameEntries
<1>2. ASSUME NEW a \in Addr
      PROVE  Carries(tree, heap[a].file, tree', heap'[a].file)
  BY DEF FInv, Fits, IsReg, Exists, Looks, SameEntries, SameKinds, SameView, Carries
<1> QED
  BY <1>1, <1>2

(* A new directory disturbs no entry that is there.                           *)
LEMMA MakesCarries ==
  ASSUME TypeOK, FInv, NEW c \in Path, NEW node, Makes(c, node)
  PROVE  Closed(tree') /\ \A a \in Addr : Carries(tree, heap[a].file, tree', heap'[a].file)
<1>1. /\ Closed(tree')
      /\ \A d \in DOMAIN tree : d \in DOMAIN tree' /\ tree'[d] = tree[d]
  <2>1. TreeType(tree) /\ Closed(tree)
    BY DEF TypeOK, TreeOK, TreeType, FInv
  <2> QED
    BY <2>1, PutClosed DEF Makes, Puts
<1>2. ASSUME NEW a \in Addr
      PROVE  Carries(tree, heap[a].file, tree', heap'[a].file)
  BY <1>1 DEF FInv, Fits, IsReg, Exists, Makes, Carries
<1> QED
  BY <1>1, <1>2

(* What is removed has nothing below it, and the open files that had it lose  *)
(* it.                                                                        *)
LEMMA RemovesCarries ==
  ASSUME TypeOK, FInv, NEW c \in Path, Removes(c)
  PROVE  Closed(tree') /\ \A a \in Addr : Carries(tree, heap[a].file, tree', heap'[a].file)
<1>1. /\ Closed(tree')
      /\ \A d \in DOMAIN tree \ {c} : d \in DOMAIN tree' /\ tree'[d] = tree[d]
  <2>1. TreeType(tree) /\ Closed(tree)
    BY DEF TypeOK, TreeOK, TreeType, FInv
  <2> QED
    BY <2>1, RemoveClosed DEF Removes
<1>2. ASSUME NEW a \in Addr
      PROVE  Carries(tree, heap[a].file, tree', heap'[a].file)
  BY <1>1 DEF FInv, Fits, IsReg, Exists, Removes, Carries
<1> QED
  BY <1>1, <1>2

(* A rename moves the entries of the open files as it moves the tree.         *)
LEMMA RenamesCarries ==
  ASSUME TypeOK, FInv, NEW o \in Path, NEW n \in Path, Renames(o, n)
  PROVE  Closed(tree') /\ \A a \in Addr : Carries(tree, heap[a].file, tree', heap'[a].file)
<1>1. TreeType(tree) /\ Closed(tree) /\ RenameError(tree, o, n) = "SUCCESS"
      /\ tree' = Rename(tree, o, n)
  BY DEF TypeOK, TreeOK, TreeType, FInv, Renames
<1>2. Closed(tree')
  <2>1. CASE o = n
    BY <1>1, <2>1 DEF Rename
  <2>2. CASE o # n
    BY <1>1, <2>2, RenameClosed
  <2> QED
    BY <2>1, <2>2
<1>3. EntryAfterRename(o, n, Nowhere) = Nowhere
  <2>1. CASE o = n
    BY <2>1 DEF EntryAfterRename
  <2>2. CASE o # n
    <3>1. o # Root /\ n # Root
      BY <1>1, <2>2, RenameAllowed
    <3>2. ~IsPrefix(o, Root)
      BY <3>1, RootFirst, PrefixOrder
    <3> QED
      BY <3>1, <3>2 DEF EntryAfterRename, Nowhere
  <2> QED
    BY <2>1, <2>2
<1>4. ASSUME NEW a \in Addr
      PROVE  Carries(tree, heap[a].file, tree', heap'[a].file)
  <2> DEFINE at == heap[a].file.at
  <2>1. /\ heap'[a].file.at = EntryAfterRename(o, n, at)
        /\ heap'[a].file.len = heap[a].file.len /\ heap'[a].file.dirty = heap[a].file.dirty
    BY DEF Renames
  <2>2. at \in Path
    BY DEF TypeOK, HeapOK, FileDescriptor, Handle
  <2>3. at # Nowhere => at \in DOMAIN tree
    BY DEF FInv, Fits, IsReg, Exists
  <2> HIDE DEF at
  <2>4. ASSUME heap'[a].file.at # Nowhere
        PROVE  /\ at # Nowhere /\ heap'[a].file.at \in DOMAIN tree'
               /\ tree'[heap'[a].file.at] = tree[at]
    <3>1. at # Nowhere
      BY <1>3, <2>1, <2>4
    <3> QED
      BY <1>1, <2>1, <2>2, <2>3, <2>4, <3>1, RenameFollowed
  <2> QED
    BY <2>1, <2>4 DEF Carries, at
<1> QED
  BY <1>2, <1>4

(* Writing an open file back changes the size of its entry, and nothing else. *)
LEMMA SyncKeeps ==
  ASSUME TypeOK, FInv, NEW h, h.at # Nowhere => IsReg(tree, h.at), tree' = SyncTree(tree, h)
  PROVE  /\ Closed(tree') /\ \A c : IsReg(tree, c) => IsReg(tree', c)
         /\ h.at = Nowhere \/ ~h.dirty => tree' = tree
         /\ h.at # Nowhere /\ h.dirty => tree'[h.at].size = h.len
<1>1. CASE h.at = Nowhere \/ ~h.dirty
  BY <1>1 DEF SyncTree, FInv
<1>2. CASE h.at # Nowhere /\ h.dirty
  <2>1. h.at \in DOMAIN tree /\ tree[h.at] \in Node
    BY <1>2 DEF IsReg, Exists, TypeOK, TreeOK
  <2>2. tree' = [tree EXCEPT ![h.at].size = h.len]
    BY <1>2 DEF SyncTree
  <2>3. /\ DOMAIN tree' = DOMAIN tree
        /\ tree'[h.at] = [tree[h.at] EXCEPT !.size = h.len]
        /\ \A c \in DOMAIN tree : c # h.at => tree'[c] = tree[c]
    BY <2>1, <2>2 DEF TypeOK, TreeOK
  <2>4. tree'[h.at].size = h.len /\ tree'[h.at].type = tree[h.at].type
    BY <2>1, <2>3 DEF Node
  <2>5. SameKinds(tree, tree')
    BY <2>3, <2>4 DEF SameKinds
  <2> QED
    BY <1>2, <2>4, <2>5, SameKindsClosed DEF FInv
<1> QED
  BY <1>1, <1>2

(* path_open carries the files that were open.                                *)
LEMMA OpensCarries ==
  ASSUME TypeOK, FInv, NEW a \in Addr, NEW h, Opens(a, h)
  PROVE  /\ Closed(tree') /\ Fits(tree', h)
         /\ \A b \in Addr \ {a} : Carries(tree, heap[b].file, tree', heap'[b].file)
<1>1. TreeType(tree) /\ Closed(tree)
  BY DEF TypeOK, TreeOK, TreeType, FInv
<1>2. /\ Closed(tree') /\ (h.at # Nowhere => IsReg(tree', h.at))
      /\ \A d \in DOMAIN tree : d \in DOMAIN tree' /\ tree'[d] = tree[d]
  <2>1. CASE UNCHANGED tree /\ (h.at # Nowhere => IsReg(tree, h.at))
    BY <1>1, <2>1
  <2>2. ASSUME NEW c \in Path, NEW node \in Node, Puts(c, node), node.type = "reg",
               h.at \in {c, Nowhere}
        PROVE  /\ Closed(tree') /\ (h.at # Nowhere => IsReg(tree', h.at))
               /\ \A d \in DOMAIN tree : d \in DOMAIN tree' /\ tree'[d] = tree[d]
    BY <1>1, <2>2, PutClosed DEF Puts, IsReg, Exists
  <2> QED
    BY <2>1, <2>2 DEF Opens
<1>3. Fits(tree', h)
  BY <1>2 DEF Fits, Opens
<1>4. ASSUME NEW b \in Addr \ {a}
      PROVE  Carries(tree, heap[b].file, tree', heap'[b].file)
  BY <1>2 DEF FInv, Fits, IsReg, Exists, Opens, OtherObjects, Carries
<1> QED
  BY <1>2, <1>3, <1>4

(* Every effect keeps the tree and the open files.                            *)
LEMMA EffectFInv ==
  ASSUME TypeOK, FInv, Effect
  PROVE  FInv'
<1>1. ASSUME Closed(tree'), NEW S \in SUBSET Addr,
             \A a \in S : Carries(tree, heap[a].file, tree', heap'[a].file),
             \A a \in Addr \ S : Fits(tree', heap'[a].file)
      PROVE  FInv'
  <2>1. \A a \in S : Fits(tree', heap'[a].file)
    BY <1>1, CarriesFits DEF FInv
  <2> QED
    BY <1>1, <2>1 DEF FInv
<1>2. CASE Looks
  BY <1>1, <1>2, LooksCarries
<1>3. ASSUME NEW a \in Addr, NEW h \in View, Writes(a, h)
      PROVE  FInv'
  <2>1. h.at # Nowhere => IsReg(tree, h.at)
    BY <1>3 DEF FInv, Fits, Writes, Touched
  <2>2. Closed(tree') /\ \A c : IsReg(tree, c) => IsReg(tree', c)
    BY <1>3, <2>1, SyncKeeps DEF Writes
  <2>3. Fits(tree', Synced(h))
    BY <1>3, <2>1, <2>2 DEF Fits, Synced, View
  <2>4. \A b \in Addr \ {a} : Fits(tree', heap'[b].file)
    BY <1>3, <2>2 DEF FInv, Fits, Writes, OtherFiles
  <2> QED
    BY <1>3, <2>2, <2>3, <2>4 DEF FInv, Writes
<1>4. ASSUME NEW c \in Path, NEW node \in Node, Makes(c, node)
      PROVE  FInv'
  BY <1>1, <1>4, MakesCarries
<1>5. ASSUME NEW c \in Path, Removes(c)
      PROVE  FInv'
  BY <1>1, <1>5, RemovesCarries
<1>6. ASSUME NEW o \in Path, NEW n \in Path, Renames(o, n)
      PROVE  FInv'
  BY <1>1, <1>6, RenamesCarries
<1>7. ASSUME NEW a \in Addr, NEW h \in View, Opens(a, h)
      PROVE  FInv'
  <2>1. /\ Closed(tree') /\ Fits(tree', h)
        /\ \A b \in Addr \ {a} : Carries(tree, heap[b].file, tree', heap'[b].file)
    BY <1>7, OpensCarries
  <2>2. heap'[a].file = h
    BY <1>7 DEF Opens
  <2> QED
    BY <1>1, <2>1, <2>2
<1>8. ASSUME NEW a \in Addr, Releases(a)
      PROVE  FInv'
  <2>1. heap[a].file.at # Nowhere => IsReg(tree, heap[a].file.at)
    BY DEF FInv, Fits
  <2>2. Closed(tree') /\ \A c : IsReg(tree, c) => IsReg(tree', c)
    BY <1>8, <2>1, SyncKeeps DEF Releases
  <2>3. Fits(tree', NoFile)
    BY DEF Fits, NoFile
  <2>4. \A b \in Addr \ {a} : Fits(tree', heap'[b].file)
    BY <1>8, <2>2 DEF FInv, Fits, Releases, OtherObjects
  <2> QED
    BY <1>8, <2>2, <2>3, <2>4 DEF FInv, Releases
<1> QED
  BY <1>2, <1>3, <1>4, <1>5, <1>6, <1>7, <1>8 DEF Effect, ObjectEffect

(* The initial files and the directories made for them are a tree.            *)
LEMMA InitTreeClosed == Closed(InitTree)
<1> DEFINE dirs == {Root}
                     \union UNION {{SubSeq(f, 1, i) : i \in 1..Len(f) - 1} : f \in DOMAIN Files}
<1>1. /\ \A f \in DOMAIN Files : f \in Path /\ f # Root
      /\ \A f, g \in DOMAIN Files : ~IsStrictPrefix(f, g)
  BY PathAssumption
<1>2. DOMAIN InitTree = dirs \union DOMAIN Files
  BY DEF InitTree
<1>3. \A c \in dirs : c \notin DOMAIN Files => IsDir(InitTree, c)
  BY DEF InitTree, IsDir, Exists
<1>4. \A c : c \in dirs <=>
              \/ c = Root
              \/ \E f \in DOMAIN Files : \E i \in 1..Len(f) - 1 : c = SubSeq(f, 1, i)
  <2> DEFINE above(f) == {SubSeq(f, 1, i) : i \in 1..Len(f) - 1}
  <2>1. \A f, c : c \in above(f) <=> \E i \in 1..Len(f) - 1 : c = SubSeq(f, 1, i)
    OBVIOUS
  <2>2. dirs = {Root} \union UNION {above(f) : f \in DOMAIN Files}
    OBVIOUS
  <2> HIDE DEF above, dirs
  <2>3. \A c : c \in UNION {above(f) : f \in DOMAIN Files} <=>
                 \E f \in DOMAIN Files : c \in above(f)
    OBVIOUS
  <2> QED
    BY <2>1, <2>2, <2>3
<1> HIDE DEF dirs
<1>5. Root \in Path /\ Root \notin DOMAIN Files
  BY <1>1, RootFirst
<1>6. IsDir(InitTree, Root)
  BY <1>3, <1>5, <1>4
<1>7. ASSUME NEW f \in DOMAIN Files, NEW i \in 1..Len(f) - 1
      PROVE  SubSeq(f, 1, i) \in Path /\ IsPrefix(SubSeq(f, 1, i), f)
  <2>1. f \in Path /\ Len(f) \in Nat /\ i \in 0..Len(f) /\ i <= Len(f)
    BY <1>1 DEF Path
  <2>2. /\ SubSeq(f, 1, i) \in Path /\ Len(SubSeq(f, 1, i)) = i
        /\ \A j \in 1..i : SubSeq(f, 1, i)[j] = f[j]
    BY <2>1, Cut
  <2>3. Begins(SubSeq(f, 1, i), f)
    BY <2>2 DEF Begins
  <2> QED
    BY <2>1, <2>2, <2>3, PrefixIs
<1>8. \A c \in DOMAIN InitTree : c = Root \/ \E f \in DOMAIN Files : c \in Path /\ IsPrefix(c, f)
  <2>1. \A f \in DOMAIN Files : IsPrefix(f, f)
    BY <1>1 DEF IsPrefix
  <2> TAKE c \in DOMAIN InitTree
  <2>2. CASE c \in DOMAIN Files
    BY <1>1, <2>1, <2>2
  <2>3. CASE c \in dirs /\ c # Root
    <3>1. PICK f \in DOMAIN Files : \E i \in 1..Len(f) - 1 : c = SubSeq(f, 1, i)
      BY <1>4, <2>3
    <3> QED
      BY <1>7, <3>1
  <2> QED
    BY <1>2, <2>2, <2>3
<1>9. ASSUME NEW f \in DOMAIN Files, NEW d \in Path, IsStrictPrefix(d, f)
      PROVE  d \in dirs
  <2>1. f \in Path /\ Len(d) \in Nat /\ Len(f) \in Nat /\ Len(d) < Len(f) /\ Begins(d, f)
    BY <1>1, <1>9, PrefixIs
  <2>2. /\ SubSeq(f, 1, Len(d)) \in Path /\ Len(SubSeq(f, 1, Len(d))) = Len(d)
        /\ \A j \in 1..Len(d) : SubSeq(f, 1, Len(d))[j] = f[j]
    <3>1. Len(d) \in 0..Len(f)
      BY <2>1
    <3> QED
      BY <2>1, <3>1, Cut
  <2>3. d = SubSeq(f, 1, Len(d))
    BY <2>1, <2>2, SamePath DEF Begins
  <2>4. d = Root \/ Len(d) \in 1..Len(f) - 1
    <3>1. d # Root => Len(d) > 0
      BY RootFirst
    <3> QED
      BY <2>1, <3>1
  <2> QED
    BY <1>4, <2>3, <2>4
<1>10. ASSUME NEW c \in DOMAIN InitTree, NEW d \in Path, IsStrictPrefix(d, c)
      PROVE  IsDir(InitTree, d)
  <2>1. c # Root
    BY <1>10, RootFirst
  <2>2. PICK f \in DOMAIN Files : c \in Path /\ IsPrefix(c, f)
    BY <1>8, <2>1
  <2>3. f \in Path
    BY <1>1
  <2>4. IsStrictPrefix(d, f)
    <3>1. IsPrefix(d, c) /\ d # c
      BY <1>10, <2>2, PrefixOrder
    <3>2. IsPrefix(d, f)
      BY <2>2, <2>3, <3>1, PrefixOrder
    <3>3. d # f
      <4>1. IsStrictPrefix(f, c) => FALSE
        <5>1. Len(c) \in Nat /\ Len(f) \in Nat /\ Len(c) <= Len(f)
          BY <2>2, <2>3, PrefixIs
        <5>2. IsStrictPrefix(f, c) => Len(f) < Len(c)
          BY <2>2, <2>3, PrefixIs
        <5> QED
          BY <5>1, <5>2
      <4> QED
        BY <1>10, <4>1
    <3> QED
      BY <2>3, <3>2, <3>3, PrefixOrder
  <2>5. d \in dirs
    BY <1>9, <2>4
  <2>6. d \notin DOMAIN Files
    BY <1>1, <2>4
  <2> QED
    BY <1>3, <2>5, <2>6
<1> QED
  BY <1>6, <1>10 DEF Closed

(* At first nothing is open.                                                  *)
LEMMA InitFiles == Init => \A a \in Addr : heap[a].file = NoFile
<1> SUFFICES ASSUME Init, NEW a \in Addr
             PROVE  heap[a].file = NoFile
  OBVIOUS
<1>1. PICK m \in [1..NPre -> Pointers] : heap = InitHeap(m)
  BY DEF Init
<1>2. /\ Blank.file = NoFile
      /\ \A path, ptr : make_preopen_fd(path, ptr).file = NoFile
      /\ \A rights : make_stream_fd(rights).file = NoFile
  BY DEF Blank, make_preopen_fd, make_stream_fd
<1> QED
  BY <1>1, <1>2 DEF InitHeap

(* The initial tree, with nothing open, satisfies the invariant.              *)
LEMMA InitFInv == Init => FInv
<1> SUFFICES ASSUME Init
             PROVE  FInv
  OBVIOUS
<1>1. Closed(tree)
  BY InitTreeClosed DEF Init
<1>2. \A a \in Addr : heap[a].file.at = Nowhere
  BY InitFiles DEF NoFile
<1> QED
  BY <1>1, <1>2 DEF FInv, Fits

(* Every call keeps the invariant.                                            *)
LEMMA StepFInv == IInv /\ FInv /\ [Next]_vars => FInv'
<1> SUFFICES ASSUME IInv, FInv, [Next]_vars
             PROVE  FInv'
  OBVIOUS
<1>1. CASE Next
  <2>1. \A a \in Addr : heap[a].file.at # Nowhere => IsReg(tree, heap[a].file.at)
    BY DEF FInv, Fits
  <2>2. Effect
    BY <1>1, <2>1, StepEffect
  <2> QED
    BY <2>2, EffectFInv DEF IInv
<1>2. CASE UNCHANGED vars
  BY <1>2 DEF vars, FInv
<1> QED
  BY <1>1, <1>2

(* After any sequence of calls, of any guests, the files are a tree whose     *)
(* inner entries are directories, and every open file fits it, for any names, *)
(* any number of entries and of descriptors (memfs.cc 251-263, 327-360,       *)
(* 390-423, 481-699). The parts are proved together: whether a rename keeps   *)
(* the entry of an open file depends on what is above and below the two paths *)
(* it names.                                                                  *)
THEOREM TreeInvariance == Spec => []FInv
BY InitFInv, StepFInv, Invariance, PTL DEF Spec

(* A handle that has an entry has one that names a regular file, through      *)
(* every path_rename (memfs.cc 631-674), path_unlink_file (681-699) and       *)
(* path_remove_directory (612-630) of it or of what is above it.              *)
THEOREM EntriesStayFiles == Spec => []EntriesAreFiles
<1>1. FInv => EntriesAreFiles
  BY DEF FInv, Fits, EntriesAreFiles
<1> QED
  BY <1>1, TreeInvariance, PTL

(* Every call that changes the data of an open file writes it back before it  *)
(* returns (memfs.cc 251-263, 327-332, 341-360, 390-423, 481-507): all that   *)
(* fd_close may still write is the truncation of path_open (559-604).         *)
THEOREM OnlyTruncationWaits == Spec => []OnlyTruncationPending
<1>1. FInv => OnlyTruncationPending
  BY DEF FInv, Fits, OnlyTruncationPending
<1> QED
  BY <1>1, TreeInvariance, PTL

--------------------------------------------------------------------------------
(* One open file at a time.                                                   *)

(* The preopens and the streams stay, and have no file; so the open file is   *)
(* the one object there is beside them.                                       *)
Fixed ==
  \A a \in 1..NPre + 3 :
    Live(a) /\ heap[a].file.at = Nowhere /\ (a > NPre => heap[a].stream)

Shown(T, h) == h.at # Nowhere => T[h.at].size = h.len \/ (h.dirty /\ h.len = 0)

VInv == Fixed /\ \A a \in Addr : Shown(tree, heap[a].file)

(* An open file that is carried shows its entry as before.                    *)
LEMMA CarriesShown ==
  ASSUME NEW T, NEW g, NEW U, NEW h, Shown(T, g), Carries(T, g, U, h)
  PROVE  Shown(U, h)
BY DEF Shown, Carries

(* At first nothing is open beside the preopens and the streams.              *)
LEMMA InitVInv == Init => VInv
<1> SUFFICES ASSUME Init
             PROVE  VInv
  OBVIOUS
<1>1. \A a \in Addr : heap[a].file.at = Nowhere
  BY InitFiles DEF NoFile
<1>2. PICK m \in [1..NPre -> Pointers] : heap = InitHeap(m)
  BY DEF Init
<1>3. ASSUME NEW a \in 1..NPre + 3
      PROVE  a \in Addr /\ Live(a) /\ (a > NPre => heap[a].stream)
  <2>1. a \in Addr
    BY Constants DEF Addr
  <2>2. CASE a <= NPre
    <3>1. heap[a] = make_preopen_fd(Preopens[a], m[a])
      BY <1>2, <2>1, <2>2 DEF InitHeap
    <3>2. ~(a > NPre)
      BY <2>2, Constants
    <3> QED
      BY <2>1, <3>1, <3>2 DEF make_preopen_fd, Blank, Live
  <2>3. CASE ~(a <= NPre)
    <3>1. a = StreamAddr(0) \/ a \in {StreamAddr(1), StreamAddr(2)}
      BY <2>3, Constants DEF StreamAddr
    <3>2. \E rights : heap[a] = make_stream_fd(rights)
      BY <1>2, <2>1, <2>3, <3>1 DEF InitHeap
    <3> QED
      BY <2>1, <3>2 DEF make_stream_fd, Blank, Live
  <2> QED
    BY <2>2, <2>3
<1> QED
  BY <1>1, <1>3 DEF VInv, Fixed, Shown

(* Every effect keeps the preopens and the streams as they are.               *)
LEMMA EffectFixed ==
  ASSUME IInv, FInv, Fixed, Effect
  PROVE  Fixed'
<1>1. \A a \in 1..NPre + 3 : a \in Addr
  BY Constants DEF Addr
<1>2. ASSUME SameTypes, \A a \in Addr : heap[a].file.at = Nowhere => heap'[a].file.at = Nowhere
      PROVE  Fixed'
  <2> SUFFICES ASSUME NEW a \in 1..NPre + 3
               PROVE  /\ Live(a)' /\ heap'[a].file.at = Nowhere
                      /\ a > NPre => heap'[a].stream
    BY DEF Fixed
  <2>1. a \in Addr /\ Live(a) /\ heap[a].file.at = Nowhere /\ (a > NPre => heap[a].stream)
    BY <1>1 DEF Fixed
  <2> QED
    BY <1>2, <2>1 DEF SameTypes, Live
<1>3. ASSUME \A a \in Addr : Carries(tree, heap[a].file, tree', heap'[a].file), SameTypes
      PROVE  Fixed'
  BY <1>2, <1>3 DEF Carries
<1>4. CASE Looks /\ SameTypes
  BY <1>3, <1>4, LooksCarries
<1>5. ASSUME NEW a \in Addr, NEW h \in View, Writes(a, h), SameTypes
      PROVE  Fixed'
  <2>1. heap'[a].file.at = heap[a].file.at
    BY <1>5 DEF Writes, Touched, Synced, View
  <2> QED
    BY <1>2, <1>5, <2>1 DEF Writes, OtherFiles
<1>6. ASSUME NEW c \in Path, NEW node \in Node, Makes(c, node), SameTypes
      PROVE  Fixed'
  BY <1>3, <1>6, MakesCarries DEF IInv
<1>7. ASSUME NEW c \in Path, Removes(c), SameTypes
      PROVE  Fixed'
  BY <1>3, <1>7, RemovesCarries DEF IInv
<1>8. ASSUME NEW o \in Path, NEW n \in Path, Renames(o, n), SameTypes
      PROVE  Fixed'
  BY <1>3, <1>8, RenamesCarries DEF IInv
<1>9. ASSUME NEW a \in Addr, ~Live(a) \/ (a > NPre /\ ~heap[a].stream), OtherObjects(a)
       PROVE  Fixed'
  <2> SUFFICES ASSUME NEW b \in 1..NPre + 3
               PROVE  /\ Live(b)' /\ heap'[b].file.at = Nowhere
                      /\ b > NPre => heap'[b].stream
    BY DEF Fixed
  <2>1. b \in Addr /\ Live(b) /\ heap[b].file.at = Nowhere /\ (b > NPre => heap[b].stream)
    BY <1>1 DEF Fixed
  <2>2. b # a
    BY <1>9, <2>1
  <2> QED
    BY <1>9, <2>1, <2>2 DEF OtherObjects, Live
<1>10. ASSUME NEW a \in Addr, NEW h \in View, Opens(a, h)
      PROVE  Fixed'
  BY <1>10, <1>9 DEF Live, Opens
<1>11. ASSUME NEW a \in Addr, Releases(a)
       PROVE  Fixed'
  BY <1>11, <1>9 DEF Releases
<1> QED
  BY <1>4, <1>5, <1>6, <1>7, <1>8, <1>10, <1>11 DEF Effect, ObjectEffect

(* Every effect leaves the one open file and its entry in agreement.          *)
LEMMA EffectShown ==
  ASSUME MaxDesc = NPre + 4, IInv, FInv, VInv, Effect
  PROVE  \A a \in Addr : Shown(tree', heap'[a].file)
<1> DEFINE Goal == \A a \in Addr : Shown(tree', heap'[a].file)
<1>1. ASSUME \A a \in Addr : Carries(tree, heap[a].file, tree', heap'[a].file)
      PROVE  Goal
  BY <1>1, CarriesShown DEF VInv
<1>2. \A a \in Addr : a # NPre + 4 => a \in 1..NPre + 3 /\ heap[a].file.at = Nowhere
  <2>1. \A a \in Addr : a # NPre + 4 => a \in 1..NPre + 3
    BY Constants DEF Addr
  <2> QED
    BY <2>1 DEF VInv, Fixed
<1>3. ASSUME NEW a \in Addr, heap[a].type = "none" \/ (a > NPre /\ ~heap[a].stream)
      PROVE  a = NPre + 4
  <2>1. a \in 1..NPre + 3 => Live(a) /\ (a > NPre => heap[a].stream)
    BY DEF VInv, Fixed
  <2> QED
    BY <1>2, <1>3, <2>1 DEF Live
<1>4. CASE Looks
  BY <1>1, <1>4, LooksCarries
<1>5. ASSUME NEW a \in Addr, NEW h \in View, Writes(a, h)
      PROVE  Goal
  <2>1. h.at = heap[a].file.at /\ (h.at # Nowhere => IsReg(tree, h.at))
    BY <1>5 DEF FInv, Fits, Writes, Touched
  <2>2. /\ h.at = Nowhere \/ ~h.dirty => tree' = tree
        /\ h.at # Nowhere /\ h.dirty => tree'[h.at].size = h.len
    BY <1>5, <2>1, SyncKeeps DEF IInv, Writes
  <2>3. Shown(tree', Synced(h))
    <3>1. CASE h.at = Nowhere
      BY <3>1 DEF Shown, Synced
    <3>2. CASE h.at # Nowhere /\ h.dirty
      BY <2>2, <3>2 DEF Shown, Synced, View
    <3>3. CASE h.at # Nowhere /\ ~h.dirty
      <4>1. SameView(heap[a].file, h) /\ Shown(tree, heap[a].file)
        BY <1>5, <3>3 DEF Writes, Touched, VInv
      <4> QED
        BY <2>2, <3>3, <4>1 DEF Shown, Synced, SameView, View
    <3> QED
      BY <3>1, <3>2, <3>3
  <2>4. ASSUME NEW b \in Addr, b # a
        PROVE  Shown(tree', heap'[b].file)
    <3>1. heap'[b].file = heap[b].file
      BY <1>5, <2>4 DEF Writes, OtherFiles
    <3>2. CASE b = NPre + 4
      <4>1. tree' = tree
        BY <1>2, <2>1, <2>2, <2>4, <3>2
      <4> QED
        BY <3>1, <4>1 DEF VInv
    <3>3. CASE b # NPre + 4
      BY <1>2, <3>1, <3>3 DEF Shown
    <3> QED
      BY <3>2, <3>3
  <2> QED
    BY <1>5, <2>3, <2>4 DEF Writes
<1>6. ASSUME NEW c \in Path, NEW node \in Node, Makes(c, node)
      PROVE  Goal
  BY <1>1, <1>6, MakesCarries DEF IInv
<1>7. ASSUME NEW c \in Path, Removes(c)
      PROVE  Goal
  BY <1>1, <1>7, RemovesCarries DEF IInv
<1>8. ASSUME NEW o \in Path, NEW n \in Path, Renames(o, n)
      PROVE  Goal
  BY <1>1, <1>8, RenamesCarries DEF IInv
<1>9. ASSUME NEW a \in Addr, NEW h \in View, Opens(a, h)
      PROVE  Goal
  <2>1. Shown(tree', heap'[a].file)
    BY <1>9 DEF Opens, Shown
  <2>2. \A b \in Addr : b # a => Shown(tree', heap'[b].file)
    BY <1>2, <1>3, <1>9 DEF Opens, OtherObjects, Shown
  <2> QED
    BY <2>1, <2>2
<1>10. ASSUME NEW a \in Addr, Releases(a)
       PROVE  Goal
  <2>1. Shown(tree', heap'[a].file)
    BY <1>10 DEF Releases, Shown, NoFile
  <2>2. \A b \in Addr : b # a => Shown(tree', heap'[b].file)
    BY <1>2, <1>3, <1>10 DEF Releases, OtherObjects, Shown
  <2> QED
    BY <2>1, <2>2
<1> QED
  BY <1>4, <1>5, <1>6, <1>7, <1>8, <1>9, <1>10 DEF Effect, ObjectEffect

(* Every call keeps it, as long as there is room for one opened descriptor.   *)
LEMMA StepVInv ==
  ASSUME MaxDesc = NPre + 4
  PROVE  IInv /\ FInv /\ VInv /\ [Next]_vars => VInv'
<1> SUFFICES ASSUME IInv, FInv, VInv, [Next]_vars
             PROVE  VInv'
  OBVIOUS
<1>1. CASE Next
  <2>1. \A a \in Addr : heap[a].file.at # Nowhere => IsReg(tree, heap[a].file.at)
    BY DEF FInv, Fits
  <2>2. Effect
    BY <1>1, <2>1, StepEffect
  <2>3. Fixed'
    BY <2>2, EffectFixed DEF VInv
  <2>4. \A a \in Addr : Shown(tree', heap'[a].file)
    BY <2>2, EffectShown
  <2> QED
    BY <2>3, <2>4 DEF VInv
<1>2. CASE UNCHANGED vars
  BY <1>2 DEF vars, VInv, Fixed, Live
<1> QED
  BY <1>1, <1>2

(* With room for one opened descriptor at a time, the size littlefs shows on  *)
(* the path is the size the descriptor shows, whatever is written, allocated, *)
(* truncated, renamed or removed in between, but for the truncation of        *)
(* path_open (memfs.cc 251-263, 327-332, 390-408, 481-507, 559-604). With two *)
(* descriptors on one file it fails: each has its own view.                   *)
THEOREM OneViewIsFile ==
  ASSUME MaxDesc = NPre + 4
  PROVE  Spec => []ViewIsFile
<1>1. VInv => ViewIsFile
  BY DEF VInv, Shown, ViewIsFile
<1>2. IInv /\ FInv /\ VInv /\ [Next]_vars => VInv'
  BY StepVInv
<1> QED
  BY <1>1, <1>2, InitVInv, Invariance, TreeInvariance, PTL DEF Spec

================================================================================
