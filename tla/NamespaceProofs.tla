------------------------- MODULE NamespaceProofs -------------------------
(***************************************************************************)
(* Theorems about Namespace, for every set of names, number of inodes and  *)
(* number of failures: what its entries point at, that no name is lost,    *)
(* that link counts are exact between calls, and what can be reached.      *)
(*                                                                         *)
(* A link count is 16 bits wide and no call looks whether it is full, so   *)
(* all of this is said of executions in which it never is: LinksFit.       *)
(***************************************************************************)
EXTENDS Namespace, FiniteSetTheorems, SequenceTheorems, WellFoundedInduction,
        NaturalsInduction, TLAPS

\* The link count an inode ought to have.
Count(i) == IF IsDir(i) THEN 2 + Cardinality(Subdirs(i)) ELSE Cardinality(NamesOf(i))

\* No inode has more names, no directory more subdirectories, than its link count
\* can say.
LinksFit == \A i \in Inodes : Count(i) < LinkModulus

InTree  == {Root} \cup {i \in Inodes : NamesOf(i) # {}}
AllDirs == {i \in Inodes : IsDir(i)}

(***************************************************************************)
(* The inductive invariant.  Core holds at every moment; the rest says     *)
(* which writes a call has still to make, and how far the tree is from     *)
(* being whole until they are made.                                        *)
(***************************************************************************)
Core ==
    /\ TypeOK /\ NamesPointAtInodes /\ NoNameLost
    /\ \A i \in Inodes : kind[i] # "none" => i \in allocated
    /\ IsDir(Root) /\ NamesOf(Root) = {}
    /\ \A d \in Inodes : ~ IsEmpty(d) => d \in InTree
    /\ \A d \in Inodes, n \in Names : entries[d][n] # d

\* What is exact between calls, but for the inodes of a set.
Counted(S)  == \A i \in InTree \ S : links[i] = Count(i)
OneName(S)  == \A i \in Inodes \ S : IsDir(i) => \A p, q \in NamesOf(i) : p = q
Parented(S) == \A i \in Inodes \ S : IsDir(i) => \A p \in NamesOf(i) : dotdot[i] = p[1]
TreeExact   == Counted({}) /\ OneName({}) /\ Parented({})

\* The inodes of E are in use without a name, and the tally is t ahead.
Tallied(E, t) ==
    /\ usedDirs >= Cardinality(AllDirs) + t
    /\ harm = "none" => allocated = InTree \cup E /\ usedDirs = Cardinality(AllDirs) + t

One(k) == IF k = "dir" THEN 1 ELSE 0

\* The writes of a rename: a directory that changes its parent makes three more.
Renames(w, i, fd, fn, td, tn) ==
    w = IF IsDir(i) /\ fd # td
        THEN <<AddName(td, tn, i), TakeName(fd, fn), Point(i, td), DropLink(fd), AddLink(td)>>
        ELSE <<AddName(td, tn, i), TakeName(fd, fn)>>

Moving(w, i, fd, fn, td, tn) ==
    /\ Renames(w, i, fd, fn, td, tn)
    /\ entries[fd][fn] = i
    /\ td \in InTree /\ IsDir(td) /\ (IsDir(i) => i # td)

\* A rename waits until what the name n of d holds is gone, or has only to go on.
WillMove(d, n) ==
    next # <<>> =>
        \E i, fd \in Inodes, fn \in Names :
            Moving(next, i, fd, fn, d, n) /\ i # entries[d][n]
MayMove ==
    next # <<>> =>
        \E i, fd, td \in Inodes, fn, tn \in Names :
            Moving(next, i, fd, fn, td, tn) /\ entries[td][tn] = None

Rest ==
    /\ todo = <<>>
    /\ harm = "torn" => next = <<>>
    /\ harm # "torn" => TreeExact /\ Tallied({}, 0) /\ MayMove

(***************************************************************************)
(* The stages of a call, by the write that comes next.                     *)
(***************************************************************************)
AtAllocate ==
    /\ next = <<>> /\ entries = before /\ TreeExact /\ Tallied({}, 0)
    /\ \E i, d \in Inodes, n \in Names, k \in {"dir", "file"} :
          /\ todo = IF k = "dir"
                    THEN <<Allocate(i, k), Make(i, k, d), AddName(d, n, i), AddLink(d)>>
                    ELSE <<Allocate(i, k), Make(i, k, d), AddName(d, n, i)>>
          /\ i \notin allocated
          /\ d \in InTree /\ IsDir(d) /\ entries[d][n] = None

AtMake ==
    /\ next = <<>> /\ entries = before /\ TreeExact
    /\ \E i, d \in Inodes, n \in Names, k \in {"dir", "file"} :
          /\ todo = IF k = "dir"
                    THEN <<Make(i, k, d), AddName(d, n, i), AddLink(d)>>
                    ELSE <<Make(i, k, d), AddName(d, n, i)>>
          /\ i \in allocated /\ kind[i] = "none" /\ Tallied({i}, One(k))
          /\ d \in InTree /\ IsDir(d) /\ entries[d][n] = None

\* A new inode gets its first name, a file one more, a renamed inode its second.
NamesNew(i, k, d, n) ==
    /\ todo = IF k = "dir" THEN <<AddName(d, n, i), AddLink(d)>> ELSE <<AddName(d, n, i)>>
    /\ i \in allocated /\ kind[i] = k /\ Tallied({i}, 0)
    /\ i # Root /\ NamesOf(i) = {} /\ IsEmpty(i)
    /\ links[i] = NewLinks(k) /\ (k = "dir" => dotdot[i] = d)

NamesAgain(i, d, n) ==
    /\ todo = <<AddName(d, n, i), AddLink(i)>>
    /\ i \in InTree /\ kind[i] = "file" /\ Tallied({}, 0)

NamesMoved(i, d, n) ==
    /\ \E fd \in Inodes, fn \in Names :
          Renames(todo, i, fd, fn, d, n) /\ entries[fd][fn] = i
    /\ (IsDir(i) => i # d) /\ Tallied({}, 0)

AtAddName ==
    /\ next = <<>> /\ entries = before /\ TreeExact
    /\ \E i, d \in Inodes, n \in Names :
          /\ d \in InTree /\ IsDir(d) /\ entries[d][n] = None
          /\ \/ \E k \in {"dir", "file"} : NamesNew(i, k, d, n)
             \/ NamesAgain(i, d, n)
             \/ NamesMoved(i, d, n)

\* The last name of a file is taken, one of several, or that of a directory.
TakesLast(i, d, n) ==
    /\ todo = <<TakeName(d, n), Clear(i), Free(i, "file")>>
    /\ kind[i] = "file" /\ NamesOf(i) = {<<d, n>>}

TakesOne(i, d, n) ==
    /\ todo = <<TakeName(d, n), DropLink(i)>>
    /\ kind[i] = "file" /\ links[i] > 1

TakesDir(i, d, n) ==
    /\ todo = <<TakeName(d, n), Clear(i), Free(i, "dir"), DropLink(d)>>
    /\ kind[i] = "dir" /\ IsEmpty(i)

Removes ==
    /\ entries = before /\ TreeExact /\ Tallied({}, 0)
    /\ \E i, d \in Inodes, n \in Names :
          /\ entries[d][n] = i /\ gone = i /\ WillMove(d, n)
          /\ TakesLast(i, d, n) \/ TakesOne(i, d, n) \/ TakesDir(i, d, n)

\* A renamed inode has both its names.
HasBoth(i, fd, fn, td, tn) ==
    /\ todo = IF IsDir(i) /\ fd # td
              THEN <<TakeName(fd, fn), Point(i, td), DropLink(fd), AddLink(td)>>
              ELSE <<TakeName(fd, fn)>>
    /\ before = [entries EXCEPT ![td][tn] = None]
    /\ before[fd][fn] = i /\ entries[td][tn] = i
    /\ IsDir(i) => i # td /\ NamesOf(i) = {<<fd, fn>>, <<td, tn>>} /\ dotdot[i] = fd
    /\ OneName({i}) /\ Parented({i}) /\ Counted({i, td})
    /\ IF IsDir(i) THEN links[i] = Count(i) /\ links[td] + 1 = Count(td)
                   ELSE links[i] + 1 = Count(i) /\ links[td] = Count(td)

Moves ==
    /\ next = <<>> /\ Tallied({}, 0)
    /\ \E i, fd, td \in Inodes, fn, tn \in Names : HasBoth(i, fd, fn, td, tn)

AtTakeName == Removes \/ Moves

AtPoint ==
    /\ next = <<>> /\ entries # before /\ OneName({}) /\ Tallied({}, 0)
    /\ \E i, fd, td \in Inodes :
          /\ todo = <<Point(i, td), DropLink(fd), AddLink(td)>>
          /\ fd # td /\ fd \in InTree /\ td \in InTree
          /\ \A p \in NamesOf(i) : p[1] = td
          /\ Parented({i}) /\ Counted({fd, td})
          /\ links[fd] = Count(fd) + 1 /\ links[td] + 1 = Count(td)

\* The count of a file that lost a name, of the parent of a directory that is
\* gone, or of one that a directory has left for another.
DropsLast(j) == todo = <<DropLink(j)>> /\ Counted({j}) /\ MayMove

DropsParent(j) ==
    /\ next = <<>>
    /\ \E td \in InTree \ {j} :
          /\ todo = <<DropLink(j), AddLink(td)>>
          /\ Counted({j, td}) /\ links[td] + 1 = Count(td)

AtDropLink ==
    /\ entries # before /\ OneName({}) /\ Parented({}) /\ Tallied({}, 0)
    /\ \E j \in InTree : links[j] = Count(j) + 1 /\ (DropsLast(j) \/ DropsParent(j))

AtAddLink ==
    /\ next = <<>> /\ entries # before /\ OneName({}) /\ Parented({}) /\ Tallied({}, 0)
    /\ \E j \in InTree : todo = <<AddLink(j)>> /\ Counted({j}) /\ links[j] + 1 = Count(j)

\* An inode that lost its last name; if a directory, d is still to lose a link.
Orphaned(i, k, d) ==
    /\ i \notin InTree /\ i \in allocated /\ IsEmpty(i)
    /\ IF k = "dir" THEN d \in InTree /\ Counted({d}) /\ links[d] = Count(d) + 1
                    ELSE Counted({})

AtClear ==
    /\ entries # before /\ OneName({}) /\ Parented({}) /\ MayMove
    /\ \E i, d \in Inodes, k \in {"dir", "file"} :
          /\ todo = IF k = "dir" THEN <<Clear(i), Free(i, k), DropLink(d)>>
                                 ELSE <<Clear(i), Free(i, k)>>
          /\ Orphaned(i, k, d) /\ kind[i] = k /\ Tallied({i}, 0)

AtFree ==
    /\ entries # before /\ OneName({}) /\ Parented({}) /\ MayMove
    /\ \E i, d \in Inodes, k \in {"dir", "file"} :
          /\ todo = IF k = "dir" THEN <<Free(i, k), DropLink(d)>> ELSE <<Free(i, k)>>
          /\ Orphaned(i, k, d) /\ kind[i] = "none" /\ Tallied({i}, One(k))

Working ==
    /\ harm # "torn"
    /\ \/ AtAllocate \/ AtMake \/ AtAddName \/ AtTakeName \/ AtPoint
       \/ AtDropLink \/ AtAddLink \/ AtClear \/ AtFree

Inv == Core /\ (Rest \/ Working)

(***************************************************************************)
(* Sequences of writes.                                                    *)
(***************************************************************************)
\* The first of some writes, and the others.
LEMMA Writes ==
    ASSUME NEW a, NEW b, NEW c, NEW d, NEW e
    PROVE  /\ Head(<<a>>) = a /\ Tail(<<a>>) = <<>> /\ <<a>> # <<>>
           /\ Head(<<a, b>>) = a /\ Tail(<<a, b>>) = <<b>> /\ <<a, b>> # <<>>
           /\ Head(<<a, b, c>>) = a /\ Tail(<<a, b, c>>) = <<b, c>> /\ <<a, b, c>> # <<>>
           /\ Head(<<a, b, c, d>>) = a /\ Tail(<<a, b, c, d>>) = <<b, c, d>>
           /\ <<a, b, c, d>> # <<>>
           /\ Head(<<a, b, c, d, e>>) = a /\ Tail(<<a, b, c, d, e>>) = <<b, c, d, e>>
           /\ <<a, b, c, d, e>> # <<>>
<1>1. /\ Head(<<a>>) = a /\ Tail(<<a>>) = <<>> /\ <<a>> # <<>>
      /\ Head(<<a, b>>) = a /\ Tail(<<a, b>>) = <<b>> /\ <<a, b>> # <<>>
  OBVIOUS
<1>2. Head(<<a, b, c>>) = a /\ Tail(<<a, b, c>>) = <<b, c>> /\ <<a, b, c>> # <<>>
  OBVIOUS
<1>3. /\ Head(<<a, b, c, d>>) = a /\ Tail(<<a, b, c, d>>) = <<b, c, d>>
      /\ <<a, b, c, d>> # <<>>
  OBVIOUS
<1>4. /\ Head(<<a, b, c, d, e>>) = a /\ Tail(<<a, b, c, d, e>>) = <<b, c, d, e>>
      /\ <<a, b, c, d, e>> # <<>>
  OBVIOUS
<1> QED  BY <1>1, <1>2, <1>3, <1>4

\* The writes of a directory's move follow those of a rename.
LEMMA WritesJoined ==
    ASSUME NEW a, NEW b, NEW c, NEW d, NEW e
    PROVE  /\ <<a, b>> \o <<c, d, e>> = <<a, b, c, d, e>>
           /\ <<a, b>> \o <<>> = <<a, b>>
<1> DEFINE W == {a, b, c, d, e}
           s == <<a, b>>
           t == <<c, d, e>>
           w == <<a, b, c, d, e>>
<1>1. s \in Seq(W) /\ t \in Seq(W) /\ w \in Seq(W)
  OBVIOUS
<1>2. Len(s) = 2 /\ Len(t) = 3 /\ Len(w) = 5
  OBVIOUS
<1>3. s \o t \in Seq(W) /\ Len(s \o t) = 5
  BY <1>1, <1>2, ConcatProperties
<1>4. \A i \in 1 .. 5 : (s \o t)[i] = w[i]
  <2>1. \A i \in 1 .. 5 : (s \o t)[i] = IF i <= 2 THEN s[i] ELSE t[i - 2]
    BY <1>1, <1>2, ConcatProperties
  <2> QED  BY <2>1
<1>5. s \o t = w
  BY <1>1, <1>2, <1>3, <1>4, SeqEqual
<1>6. s \o <<>> = s
  BY <1>1, ConcatEmptySeq
<1> QED  BY <1>5, <1>6

\* Every write says what it is.
LEMMA WriteTags ==
    /\ \A i, k : Allocate(i, k)[1] = "allocate"
    /\ \A i, k, d : Make(i, k, d)[1] = "make"
    /\ \A d, n, i : AddName(d, n, i)[1] = "addName"
    /\ \A d, n : TakeName(d, n)[1] = "takeName"
    /\ \A i, d : Point(i, d)[1] = "point"
    /\ \A i : AddLink(i)[1] = "addLink"
    /\ \A i : DropLink(i)[1] = "dropLink"
    /\ \A i : Clear(i)[1] = "clear"
    /\ \A i, k : Free(i, k)[1] = "free"
BY DEF Allocate, Make, AddName, TakeName, Point, AddLink, DropLink, Clear, Free

\* A write is one on what it names.
LEMMA WriteArguments ==
    /\ \A i, k, j, l : Allocate(i, k) = Allocate(j, l) => i = j /\ k = l
    /\ \A i, k, d, j, l, e : Make(i, k, d) = Make(j, l, e) => i = j /\ k = l /\ d = e
    /\ \A d, n, i, e, m, j : AddName(d, n, i) = AddName(e, m, j) => d = e /\ n = m /\ i = j
    /\ \A d, n, e, m : TakeName(d, n) = TakeName(e, m) => d = e /\ n = m
    /\ \A i, d, j, e : Point(i, d) = Point(j, e) => i = j /\ d = e
    /\ \A i, j : AddLink(i) = AddLink(j) => i = j
    /\ \A i, j : DropLink(i) = DropLink(j) => i = j
    /\ \A i, j : Clear(i) = Clear(j) => i = j
    /\ \A i, k, j, l : Free(i, k) = Free(j, l) => i = j /\ k = l
BY DEF Allocate, Make, AddName, TakeName, Point, AddLink, DropLink, Clear, Free

(***************************************************************************)
(* Numbers.                                                                *)
(***************************************************************************)
\* A set of numbers that is not empty has a least one.
LEMMA LeastNumber ==
    ASSUME NEW S \in SUBSET Nat, S # {}
    PROVE  \E x \in S : \A y \in S : x <= y
<1>1. IsWellFoundedOn(OpToRel(<, Nat), Nat)
  BY NatLessThanWellFounded, Zenon
<1>2. PICK x \in S : \A y \in S : <<y, x>> \notin OpToRel(<, Nat)
  BY <1>1, WFMin
<1>3. \A y \in S : ~ (y < x)
  BY <1>2 DEF OpToRel
<1> QED  BY <1>3

\* The inode that alloc_inode takes is one of the free ones.
LEMMA LeastIsOne ==
    ASSUME NEW S \in SUBSET Nat, S # {}  PROVE  Least(S) \in S
BY LeastNumber DEF Least

\* A set that holds zero and, with a number, the next holds them all.
LEMMA NumbersReached ==
    ASSUME NEW S, 0 \in S, \A n \in Nat : n \in S => n + 1 \in S
    PROVE  Nat \subseteq S
<1> SUFFICES ASSUME Nat \ S # {}  PROVE  FALSE
  OBVIOUS
<1>1. PICK x \in Nat \ S : \A y \in Nat \ S : x <= y
  BY LeastNumber
<1>2. x # 0 /\ x - 1 \in Nat /\ x - 1 \in S
  BY <1>1
<1> QED  BY <1>1, <1>2

(***************************************************************************)
(* Names and what they make of the tree.                                   *)
(***************************************************************************)
\* The inodes are numbers, the root one of them and None not.
LEMMA Numbers ==
    /\ Root \in Inodes /\ None \notin Inodes /\ IsFiniteSet(Inodes) /\ Inodes \subseteq Nat
    /\ LinkModulus \in Nat /\ LinkModulus > 2 /\ MaxFailures \in Nat
<1>1. /\ Root \in Inodes /\ None \notin Inodes /\ Inodes \subseteq Nat
      /\ LinkModulus \in Nat /\ LinkModulus > 2 /\ MaxFailures \in Nat
  BY NamesAssumption DEF Root, None, Inodes
<1>2. IsFiniteSet(Inodes)
  BY FS_Interval, NamesAssumption DEF Inodes
<1> QED  BY <1>1, <1>2

\* What there is to count is finite.
LEMMA Countable ==
    /\ \A i : IsFiniteSet(NamesOf(i)) /\ Cardinality(NamesOf(i)) \in Nat
    /\ \A d : IsFiniteSet(Subdirs(d)) /\ Cardinality(Subdirs(d)) \in Nat
    /\ IsFiniteSet(AllDirs) /\ Cardinality(AllDirs) \in Nat
    /\ \A i : Count(i) \in Nat
<1>1. IsFiniteSet(Inodes \X Names)
  BY Numbers, NamesAssumption, FS_Product
<1>2. ASSUME NEW i  PROVE  IsFiniteSet(NamesOf(i)) /\ Cardinality(NamesOf(i)) \in Nat
  <2>1. NamesOf(i) \in SUBSET (Inodes \X Names)
    BY DEF NamesOf
  <2> QED  BY <1>1, <2>1, FS_Subset, FS_CardinalityType
<1>3. ASSUME NEW d  PROVE  IsFiniteSet(Subdirs(d)) /\ Cardinality(Subdirs(d)) \in Nat
  <2>1. Subdirs(d) \in SUBSET Names
    BY DEF Subdirs
  <2> QED  BY <2>1, NamesAssumption, FS_Subset, FS_CardinalityType
<1>4. IsFiniteSet(AllDirs) /\ Cardinality(AllDirs) \in Nat
  <2>1. AllDirs \in SUBSET Inodes
    BY DEF AllDirs
  <2> QED  BY <2>1, Numbers, FS_Subset, FS_CardinalityType
<1> QED  BY <1>2, <1>3, <1>4 DEF Count

\* One more of what is counted ...
LEMMA OneMore ==
    ASSUME NEW S, IsFiniteSet(S), NEW x, x \notin S
    PROVE  Cardinality(S \cup {x}) = Cardinality(S) + 1
BY FS_AddElement

\* ... and one less.
LEMMA OneLess ==
    ASSUME NEW S, IsFiniteSet(S), NEW x \in S
    PROVE  Cardinality(S \ {x}) = Cardinality(S) - 1
BY FS_RemoveElement

\* The type invariant, as the proofs use it.
LEMMA TypeFacts ==
    ASSUME TypeOK
    PROVE  /\ \A d \in Inodes, n \in Names : entries[d][n] \in Inodes \cup {None}
           /\ \A d \in Inodes, n \in Names : before[d][n] \in Inodes \cup {None}
           /\ \A i \in Inodes : links[i] \in Nat /\ links[i] < LinkModulus
           /\ \A i \in Inodes : kind[i] \in {"dir", "file", "none"}
           /\ \A i \in Inodes : dotdot[i] \in Inodes \cup {None}
           /\ usedDirs \in Nat /\ allocated \subseteq Inodes /\ InTree \subseteq Inodes
           /\ AllDirs \subseteq Inodes
BY Numbers DEF TypeOK, InTree, AllDirs

\* A name of an inode is an entry that holds it.
LEMMA NamesAre ==
    /\ \A i : \A d \in Inodes, n \in Names : <<d, n>> \in NamesOf(i) <=> entries[d][n] = i
    /\ \A i : \A p \in NamesOf(i) :
          p = <<p[1], p[2]>> /\ p[1] \in Inodes /\ p[2] \in Names /\ entries[p[1]][p[2]] = i
BY DEF NamesOf

\* What follows from the entries and the kinds of inodes alone.
LEMMA SameTree ==
    ASSUME UNCHANGED <<entries, kind>>
    PROVE  /\ \A i : NamesOf(i)' = NamesOf(i) /\ Count(i)' = Count(i)
           /\ \A i : (IsDir(i)' <=> IsDir(i)) /\ (IsEmpty(i)' <=> IsEmpty(i))
           /\ InTree' = InTree /\ AllDirs' = AllDirs
<1>1. \A i : NamesOf(i)' = NamesOf(i) /\ Subdirs(i)' = Subdirs(i)
  BY DEF NamesOf, Subdirs, IsDir
<1>2. \A i : (IsDir(i)' <=> IsDir(i)) /\ (IsEmpty(i)' <=> IsEmpty(i))
  BY DEF IsDir, IsEmpty
<1> QED  BY <1>1, <1>2 DEF InTree, AllDirs, Count

\* A name is added.
LEMMA NameAdded ==
    ASSUME TypeOK, NEW d \in Inodes, NEW n \in Names, NEW i \in Inodes, IsDir(d), i # d,
           entries[d][n] = None, entries' = [entries EXCEPT ![d][n] = i], kind' = kind
    PROVE  /\ \A e \in Inodes, m \in Names :
                 entries'[e][m] = IF <<e, m>> = <<d, n>> THEN i ELSE entries[e][m]
           /\ entries' # entries
           /\ NamesOf(i)' = NamesOf(i) \cup {<<d, n>>}
           /\ \A j \in Inodes \ {i} : NamesOf(j)' = NamesOf(j)
           /\ InTree' = InTree \cup {i} /\ AllDirs' = AllDirs
           /\ \A j : IsDir(j)' <=> IsDir(j)
           /\ \A e \in Inodes \ {d} : IsEmpty(e)' <=> IsEmpty(e)
           /\ IF IsDir(i) THEN Count(i)' = Count(i) /\ Count(d)' = Count(d) + 1
                          ELSE Count(i)' = Count(i) + 1 /\ Count(d)' = Count(d)
           /\ \A j \in Inodes \ {i, d} : Count(j)' = Count(j)
<1>1. \A e \in Inodes, m \in Names :
         entries'[e][m] = IF <<e, m>> = <<d, n>> THEN i ELSE entries[e][m]
  BY DEF TypeOK
<1>2. entries' # entries
  BY <1>1, Numbers
<1>3. \A j : IsDir(j)' <=> IsDir(j)
  BY DEF IsDir
<1>4. \A e \in Inodes \ {d} : entries'[e] = entries[e]
  BY DEF TypeOK
<1>5. \A e \in Inodes \ {d} : IsEmpty(e)' <=> IsEmpty(e)
  BY <1>4 DEF IsEmpty
<1>6. NamesOf(i)' = NamesOf(i) \cup {<<d, n>>} /\ <<d, n>> \notin NamesOf(i)
  BY <1>1, Numbers DEF NamesOf
<1>7. \A j \in Inodes \ {i} : NamesOf(j)' = NamesOf(j)
  BY <1>1, Numbers DEF NamesOf
<1>8. InTree' = InTree \cup {i} /\ AllDirs' = AllDirs
  BY <1>3, <1>6, <1>7 DEF InTree, AllDirs
<1>9. \A e \in Inodes \ {d} : Subdirs(e)' = Subdirs(e)
  BY <1>3, <1>4 DEF Subdirs
<1>10. IF IsDir(i) THEN Subdirs(d)' = Subdirs(d) \cup {n} /\ n \notin Subdirs(d)
                   ELSE Subdirs(d)' = Subdirs(d)
  BY <1>1, <1>3, Numbers DEF Subdirs
<1>11. /\ Cardinality(NamesOf(i)') = Cardinality(NamesOf(i)) + 1
       /\ IsDir(i) => Cardinality(Subdirs(d)') = Cardinality(Subdirs(d)) + 1
  BY <1>6, <1>10, OneMore, Countable
<1>12. IF IsDir(i) THEN Count(i)' = Count(i) /\ Count(d)' = Count(d) + 1
                   ELSE Count(i)' = Count(i) + 1 /\ Count(d)' = Count(d)
  BY <1>3, <1>9, <1>10, <1>11, Countable DEF Count
<1>13. \A j \in Inodes \ {i, d} : Count(j)' = Count(j)
  BY <1>3, <1>7, <1>9 DEF Count
<1> QED  BY <1>1, <1>2, <1>3, <1>5, <1>6, <1>7, <1>8, <1>12, <1>13

\* A name is taken.
LEMMA NameTaken ==
    ASSUME TypeOK, NEW d \in Inodes, NEW n \in Names, NEW i \in Inodes, IsDir(d), i # d,
           i # Root,
           entries[d][n] = i, entries' = [entries EXCEPT ![d][n] = None], kind' = kind
    PROVE  /\ \A e \in Inodes, m \in Names :
                 entries'[e][m] = IF <<e, m>> = <<d, n>> THEN None ELSE entries[e][m]
           /\ entries' # entries
           /\ NamesOf(i)' = NamesOf(i) \ {<<d, n>>} /\ <<d, n>> \in NamesOf(i)
           /\ \A j \in Inodes \ {i} : NamesOf(j)' = NamesOf(j)
           /\ InTree' = (IF NamesOf(i)' = {} THEN InTree \ {i} ELSE InTree)
           /\ AllDirs' = AllDirs
           /\ \A j : IsDir(j)' <=> IsDir(j)
           /\ \A e \in Inodes \ {d} : IsEmpty(e)' <=> IsEmpty(e)
           /\ IF IsDir(i) THEN Count(i)' = Count(i) /\ Count(d)' = Count(d) - 1
                          ELSE Count(i)' = Count(i) - 1 /\ Count(d)' = Count(d)
           /\ \A j \in Inodes \ {i, d} : Count(j)' = Count(j)
<1>1. \A e \in Inodes, m \in Names :
         entries'[e][m] = IF <<e, m>> = <<d, n>> THEN None ELSE entries[e][m]
  BY DEF TypeOK
<1>2. entries' # entries
  BY <1>1, Numbers
<1>3. \A j : IsDir(j)' <=> IsDir(j)
  BY DEF IsDir
<1>4. \A e \in Inodes \ {d} : entries'[e] = entries[e]
  BY DEF TypeOK
<1>5. \A e \in Inodes \ {d} : IsEmpty(e)' <=> IsEmpty(e)
  BY <1>4 DEF IsEmpty
<1>6. NamesOf(i)' = NamesOf(i) \ {<<d, n>>} /\ <<d, n>> \in NamesOf(i)
  BY <1>1, Numbers DEF NamesOf
<1>7. \A j \in Inodes \ {i} : NamesOf(j)' = NamesOf(j)
  BY <1>1, Numbers DEF NamesOf
<1>8. InTree' = (IF NamesOf(i)' = {} THEN InTree \ {i} ELSE InTree) /\ AllDirs' = AllDirs
  BY <1>3, <1>6, <1>7 DEF InTree, AllDirs
<1>9. \A e \in Inodes \ {d} : Subdirs(e)' = Subdirs(e)
  BY <1>3, <1>4 DEF Subdirs
<1>10. IF IsDir(i) THEN Subdirs(d)' = Subdirs(d) \ {n} /\ n \in Subdirs(d)
                   ELSE Subdirs(d)' = Subdirs(d)
  BY <1>1, <1>3, Numbers DEF Subdirs
<1>11. /\ Cardinality(NamesOf(i)') = Cardinality(NamesOf(i)) - 1
       /\ IsDir(i) => Cardinality(Subdirs(d)') = Cardinality(Subdirs(d)) - 1
  BY <1>6, <1>10, OneLess, Countable
<1>12. IF IsDir(i) THEN Count(i)' = Count(i) /\ Count(d)' = Count(d) - 1
                   ELSE Count(i)' = Count(i) - 1 /\ Count(d)' = Count(d)
  BY <1>3, <1>9, <1>10, <1>11, Countable DEF Count
<1>13. \A j \in Inodes \ {i, d} : Count(j)' = Count(j)
  BY <1>3, <1>7, <1>9 DEF Count
<1> QED  BY <1>1, <1>2, <1>3, <1>5, <1>6, <1>7, <1>8, <1>12, <1>13

\* Only directories hold names.
LEMMA NotDirEmpty ==
    ASSUME Core, NEW i \in Inodes, ~ IsDir(i)  PROVE  IsEmpty(i)
<1>1. \A n \in Names : entries[i][n] = None
  BY DEF Core, NamesPointAtInodes
<1>2. entries[i] \in [Names -> Inodes \cup {None}]
  BY DEF Core, TypeOK
<1> QED  BY <1>1, <1>2 DEF IsEmpty, NoNames

(***************************************************************************)
(* The stages, by their next write.                                        *)
(***************************************************************************)
\* A call that has begun is at the stage of the write it makes next.
LEMMA Stages ==
    /\ AtAllocate => todo # <<>> /\ Head(todo)[1] = "allocate"
    /\ AtMake => todo # <<>> /\ Head(todo)[1] = "make"
    /\ AtAddName => todo # <<>> /\ Head(todo)[1] = "addName"
    /\ AtTakeName => todo # <<>> /\ Head(todo)[1] = "takeName"
    /\ AtPoint => todo # <<>> /\ Head(todo)[1] = "point"
    /\ AtDropLink => todo # <<>> /\ Head(todo)[1] = "dropLink"
    /\ AtAddLink => todo # <<>> /\ Head(todo)[1] = "addLink"
    /\ AtClear => todo # <<>> /\ Head(todo)[1] = "clear"
    /\ AtFree => todo # <<>> /\ Head(todo)[1] = "free"
<1>1. AtAllocate => todo # <<>> /\ Head(todo)[1] = "allocate"
  BY Writes, WriteTags DEF AtAllocate
<1>2. AtMake => todo # <<>> /\ Head(todo)[1] = "make"
  BY Writes, WriteTags DEF AtMake
<1>3. AtAddName => todo # <<>> /\ Head(todo)[1] = "addName"
  <2>1. SUFFICES ASSUME AtAddName  PROVE  todo # <<>> /\ Head(todo)[1] = "addName"
    OBVIOUS
  <2>2. PICK i, d \in Inodes, n \in Names :
           \/ \E k \in {"dir", "file"} : NamesNew(i, k, d, n)
           \/ NamesAgain(i, d, n) \/ NamesMoved(i, d, n)
    BY <2>1 DEF AtAddName
  <2>3. CASE \E k \in {"dir", "file"} : NamesNew(i, k, d, n)
    BY <2>3, Writes, WriteTags DEF NamesNew
  <2>4. CASE NamesAgain(i, d, n)
    BY <2>4, Writes, WriteTags DEF NamesAgain
  <2>5. CASE NamesMoved(i, d, n)
    BY <2>5, Writes, WriteTags DEF NamesMoved, Renames
  <2> QED  BY <2>2, <2>3, <2>4, <2>5
<1>4. AtTakeName => todo # <<>> /\ Head(todo)[1] = "takeName"
  <2>1. ASSUME Removes  PROVE  todo # <<>> /\ Head(todo)[1] = "takeName"
    <3>1. PICK i, d \in Inodes, n \in Names :
             TakesLast(i, d, n) \/ TakesOne(i, d, n) \/ TakesDir(i, d, n)
      BY <2>1 DEF Removes
    <3>2. CASE TakesLast(i, d, n)
      BY <3>2, Writes, WriteTags DEF TakesLast
    <3>3. CASE TakesOne(i, d, n)
      BY <3>3, Writes, WriteTags DEF TakesOne
    <3>4. CASE TakesDir(i, d, n)
      BY <3>4, Writes, WriteTags DEF TakesDir
    <3> QED  BY <3>1, <3>2, <3>3, <3>4
  <2>2. ASSUME Moves  PROVE  todo # <<>> /\ Head(todo)[1] = "takeName"
    <3>1. PICK i, fd, td, fn :
             \/ todo = <<TakeName(fd, fn), Point(i, td), DropLink(fd), AddLink(td)>>
             \/ todo = <<TakeName(fd, fn)>>
      BY <2>2 DEF Moves, HasBoth
    <3> QED  BY <3>1, Writes, WriteTags
  <2> QED  BY <2>1, <2>2 DEF AtTakeName
<1>5. AtPoint => todo # <<>> /\ Head(todo)[1] = "point"
  BY Writes, WriteTags DEF AtPoint
<1>6. AtDropLink => todo # <<>> /\ Head(todo)[1] = "dropLink"
  <2>1. SUFFICES ASSUME AtDropLink  PROVE  todo # <<>> /\ Head(todo)[1] = "dropLink"
    OBVIOUS
  <2>2. PICK j : \/ todo = <<DropLink(j)>>
                 \/ \E td : todo = <<DropLink(j), AddLink(td)>>
    BY <2>1 DEF AtDropLink, DropsLast, DropsParent
  <2> QED  BY <2>2, Writes, WriteTags
<1>7. AtAddLink => todo # <<>> /\ Head(todo)[1] = "addLink"
  BY Writes, WriteTags DEF AtAddLink
<1>8. AtClear => todo # <<>> /\ Head(todo)[1] = "clear"
  BY Writes, WriteTags DEF AtClear
<1>9. AtFree => todo # <<>> /\ Head(todo)[1] = "free"
  BY Writes, WriteTags DEF AtFree
<1> QED  BY <1>1, <1>2, <1>3, <1>4, <1>5, <1>6, <1>7, <1>8, <1>9

\* A write is made at its stage, and no call that has failed makes one.
LEMMA StageOf ==
    ASSUME Inv, NEW write, Do(write)
    PROVE  /\ Working /\ harm # "torn" /\ Head(todo) = write /\ todo' = Tail(todo)
           /\ UNCHANGED <<next, before, gone, harm, failures>>
           /\ write[1] = "allocate" => AtAllocate
           /\ write[1] = "make" => AtMake
           /\ write[1] = "addName" => AtAddName
           /\ write[1] = "takeName" => AtTakeName
           /\ write[1] = "point" => AtPoint
           /\ write[1] = "dropLink" => AtDropLink
           /\ write[1] = "addLink" => AtAddLink
           /\ write[1] = "clear" => AtClear
           /\ write[1] = "free" => AtFree
<1>1. Working
  BY DEF Inv, Rest, Do
<1>2. /\ Head(todo) = write /\ todo' = Tail(todo)
      /\ UNCHANGED <<next, before, gone, harm, failures>>
  BY DEF Do, callVars
<1> QED  BY <1>1, <1>2, Stages DEF Working

(***************************************************************************)
(* Writes that leave the entries alone.                                    *)
(***************************************************************************)
\* What is exact stays so while what it speaks of stays.
LEMMA SameExact ==
    ASSUME UNCHANGED <<entries, kind>>
    PROVE  /\ \A S : OneName(S) => OneName(S)'
           /\ dotdot' = dotdot => \A S : Parented(S) => Parented(S)'
           /\ links' = links => \A S : Counted(S) => Counted(S)'
           /\ next' = next => (MayMove => MayMove')
           /\ UNCHANGED <<usedDirs, allocated, harm>> =>
                 \A E, t : Tallied(E, t) => Tallied(E, t)'
<1>1. \A S : OneName(S) => OneName(S)'
  BY SameTree DEF OneName
<1>2. dotdot' = dotdot => \A S : Parented(S) => Parented(S)'
  BY SameTree DEF Parented
<1>3. links' = links => \A S : Counted(S) => Counted(S)'
  BY SameTree DEF Counted
<1>4. next' = next => (MayMove => MayMove')
  BY SameTree DEF MayMove, Moving, Renames
<1>5. UNCHANGED <<usedDirs, allocated, harm>> =>
         \A E, t : Tallied(E, t) => Tallied(E, t)'
  BY SameTree DEF Tallied
<1> QED  BY <1>1, <1>2, <1>3, <1>4, <1>5

\* What holds at every moment, when only counts and the bitmap change.
LEMMA SameCore ==
    ASSUME Core, TypeOK', UNCHANGED <<entries, kind, before, gone>>,
           \A i \in Inodes : kind[i] # "none" => i \in allocated'
    PROVE  Core'
<1>1. NamesPointAtInodes'
  BY Numbers DEF Core, TypeOK, NamesPointAtInodes, IsDir
<1>2. NoNameLost'
  BY SameTree DEF Core, NoNameLost
<1> QED  BY <1>1, <1>2, SameTree DEF Core

\* A link is added: the count is then what it ought to be.
LEMMA AddLinkStep ==
    ASSUME Inv, LinksFit, NEW i \in Inodes, DoAddLink(i)  PROVE  Inv'
<1>1. /\ Do(AddLink(i)) /\ links' = [links EXCEPT ![i] = (@ + 1) % LinkModulus]
      /\ UNCHANGED <<allocated, usedDirs, kind, entries, dotdot, indexed>>
  BY DEF DoAddLink, dirVars
<1>2. /\ AtAddLink /\ Head(todo) = AddLink(i) /\ todo' = Tail(todo) /\ harm # "torn"
      /\ UNCHANGED <<next, before, gone, harm, failures>>
  BY <1>1, StageOf, WriteTags
<1>3. PICK j \in InTree : todo = <<AddLink(j)>> /\ Counted({j}) /\ links[j] + 1 = Count(j)
  BY <1>2 DEF AtAddLink
<1>4. j = i /\ todo' = <<>>
  BY <1>2, <1>3, Writes, WriteArguments
<1>5. Core /\ TypeOK
  BY DEF Inv, Core
<1>6. links'[i] = Count(i) /\ \A k \in Inodes \ {i} : links'[k] = links[k]
  <2>1. links[i] \in Nat /\ links[i] + 1 < LinkModulus /\ LinkModulus \in Nat
    BY <1>3, <1>4, <1>5, TypeFacts, Numbers DEF LinksFit
  <2>2. (links[i] + 1) % LinkModulus = links[i] + 1
    BY <2>1
  <2> QED  BY <1>1, <1>3, <1>4, <1>5, <2>2 DEF TypeOK
<1>7. TypeOK'
  <2>1. links' \in [Inodes -> 0 .. LinkModulus - 1]
    BY <1>1, <1>5, Numbers DEF TypeOK
  <2> QED  BY <1>1, <1>2, <1>5, <2>1 DEF TypeOK
<1>8. Core'
  BY <1>1, <1>2, <1>5, <1>7, SameCore DEF Core
<1>9. Counted({})'
  BY <1>1, <1>3, <1>4, <1>5, <1>6, SameTree, TypeFacts DEF Counted
<1>10. OneName({})' /\ Parented({})' /\ Tallied({}, 0)'
  BY <1>1, <1>2, SameExact DEF AtAddLink
<1>11. MayMove'
  BY <1>2 DEF MayMove, AtAddLink
<1> QED  BY <1>2, <1>4, <1>8, <1>9, <1>10, <1>11 DEF Inv, Rest, TreeExact

\* A link is dropped.
LEMMA DropLinkStep ==
    ASSUME Inv, NEW i \in Inodes, DoDropLink(i)  PROVE  Inv'
<1>1. /\ Do(DropLink(i))
      /\ links' = [links EXCEPT ![i] = IF @ = 0 THEN 0 ELSE @ - 1]
      /\ UNCHANGED <<allocated, usedDirs, kind, entries, dotdot, indexed>>
  BY DEF DoDropLink, dirVars
<1>2. /\ AtDropLink /\ Head(todo) = DropLink(i) /\ todo' = Tail(todo) /\ harm # "torn"
      /\ UNCHANGED <<next, before, gone, harm, failures>>
  BY <1>1, StageOf, WriteTags
<1>3. PICK j \in InTree : links[j] = Count(j) + 1 /\ (DropsLast(j) \/ DropsParent(j))
  BY <1>2 DEF AtDropLink
<1>4. j = i
  <2>1. todo = <<DropLink(j)>> \/ \E td : todo = <<DropLink(j), AddLink(td)>>
    BY <1>3 DEF DropsLast, DropsParent
  <2>2. DropLink(i) = DropLink(j)
    BY <1>2, <2>1, Writes
  <2> QED  BY <2>2, WriteArguments
<1>5. Core /\ TypeOK
  BY DEF Inv, Core
<1>6. links'[i] = Count(i) /\ \A k \in Inodes \ {i} : links'[k] = links[k]
  <2>1. Count(i) \in Nat /\ links[i] = Count(i) + 1
    BY <1>3, <1>4, Countable
  <2>2. links'[i] = links[i] - 1 /\ \A k \in Inodes \ {i} : links'[k] = links[k]
    BY <1>1, <1>5, <2>1 DEF TypeOK
  <2> QED  BY <2>1, <2>2
<1>7. TypeOK'
  <2>1. links' \in [Inodes -> 0 .. LinkModulus - 1]
    BY <1>1, <1>5, Numbers DEF TypeOK
  <2> QED  BY <1>1, <1>2, <1>5, <2>1 DEF TypeOK
<1>8. Core'
  BY <1>1, <1>2, <1>5, <1>7, SameCore DEF Core
<1>9. OneName({})' /\ Parented({})' /\ Tallied({}, 0)'
  BY <1>1, <1>2, SameExact DEF AtDropLink
<1>10. CASE DropsLast(i)
  <2>1. todo' = <<>> /\ MayMove'
    BY <1>1, <1>2, <1>10, Writes, SameExact DEF DropsLast
  <2>2. Counted({})'
    BY <1>1, <1>3, <1>4, <1>5, <1>6, <1>10, SameTree, TypeFacts DEF Counted, DropsLast
  <2> QED  BY <1>2, <1>8, <1>9, <2>1, <2>2 DEF Inv, Rest, TreeExact
<1>11. CASE DropsParent(i)
  <2>1. PICK td \in InTree \ {i} : /\ todo = <<DropLink(i), AddLink(td)>>
                                   /\ Counted({i, td}) /\ links[td] + 1 = Count(td)
    BY <1>11 DEF DropsParent
  <2>2. todo' = <<AddLink(td)>> /\ next' = <<>> /\ entries' # before'
    BY <1>1, <1>2, <1>11, <2>1, Writes DEF DropsParent, AtDropLink
  <2>3. Counted({td})'
    BY <1>1, <1>3, <1>4, <1>5, <1>6, <2>1, SameTree, TypeFacts DEF Counted
  <2>4. links'[td] + 1 = Count(td)' /\ td \in InTree'
    BY <1>1, <1>5, <1>6, <2>1, SameTree, TypeFacts
  <2>5. AtAddLink'
    BY <1>9, <2>2, <2>3, <2>4 DEF AtAddLink
  <2> QED  BY <1>2, <1>8, <2>5 DEF Inv, Working
<1> QED  BY <1>3, <1>4, <1>10, <1>11

\* ".." of a directory that moves is made to point at its new parent.
LEMMA PointStep ==
    ASSUME Inv, NEW i \in Inodes, NEW parent \in Inodes, DoPoint(i, parent)  PROVE  Inv'
<1>1. /\ Do(Point(i, parent)) /\ dotdot' = [dotdot EXCEPT ![i] = parent]
      /\ UNCHANGED <<allocated, usedDirs, kind, links, entries, indexed>>
  BY DEF DoPoint, inodeVars
<1>2. /\ AtPoint /\ Head(todo) = Point(i, parent) /\ todo' = Tail(todo) /\ harm # "torn"
      /\ UNCHANGED <<next, before, gone, harm, failures>>
  BY <1>1, StageOf, WriteTags
<1>3. PICK j, fd, td \in Inodes :
         /\ todo = <<Point(j, td), DropLink(fd), AddLink(td)>>
         /\ fd # td /\ fd \in InTree /\ td \in InTree
         /\ \A p \in NamesOf(j) : p[1] = td
         /\ Parented({j}) /\ Counted({fd, td})
         /\ links[fd] = Count(fd) + 1 /\ links[td] + 1 = Count(td)
  BY <1>2 DEF AtPoint
<1>4. j = i /\ td = parent /\ todo' = <<DropLink(fd), AddLink(td)>>
  BY <1>2, <1>3, Writes, WriteArguments
<1>5. Core /\ TypeOK
  BY DEF Inv, Core
<1>6. TypeOK'
  BY <1>1, <1>2, <1>5 DEF TypeOK
<1>7. Core'
  BY <1>1, <1>2, <1>5, <1>6, SameCore DEF Core
<1>8. Parented({})'
  <2>1. dotdot'[i] = td /\ \A k \in Inodes \ {i} : dotdot'[k] = dotdot[k]
    BY <1>1, <1>4, <1>5 DEF TypeOK
  <2> QED  BY <1>1, <1>3, <1>4, <2>1, SameTree DEF Parented
<1>9. /\ OneName({})' /\ Tallied({}, 0)' /\ Counted({fd, td})'
      /\ next' = <<>> /\ entries' # before'
  BY <1>1, <1>2, <1>3, SameExact DEF AtPoint
<1>10. DropsParent(fd)' /\ links'[fd] = Count(fd)' + 1 /\ fd \in InTree'
  BY <1>1, <1>3, <1>4, <1>9, SameTree DEF DropsParent
<1>11. AtDropLink'
  BY <1>8, <1>9, <1>10 DEF AtDropLink
<1> QED  BY <1>2, <1>7, <1>11 DEF Inv, Working

(***************************************************************************)
(* Writes to an inode that no entry names: made and given back.            *)
(***************************************************************************)
\* What an inode without names is does not show in the tree.
LEMMA UnnamedTree ==
    ASSUME TypeOK, NEW i \in Inodes, i \notin InTree, entries' = entries,
           \A j \in Inodes \ {i} : kind'[j] = kind[j]
    PROVE  /\ \A j : NamesOf(j)' = NamesOf(j) /\ (IsEmpty(j)' <=> IsEmpty(j))
           /\ InTree' = InTree /\ NamesOf(i) = {} /\ i # Root
           /\ \A j \in Inodes \ {i} : Count(j)' = Count(j) /\ (IsDir(j)' <=> IsDir(j))
<1>1. \A j : NamesOf(j)' = NamesOf(j) /\ (IsEmpty(j)' <=> IsEmpty(j))
  BY DEF NamesOf, IsEmpty
<1>2. InTree' = InTree /\ NamesOf(i) = {} /\ i # Root
  BY <1>1 DEF InTree
<1>3. \A j \in Inodes \ {i} : IsDir(j)' <=> IsDir(j)
  BY DEF IsDir
<1>4. \A d \in Inodes, n \in Names : entries[d][n] # i
  BY <1>2, NamesAre
<1>5. \A d \in Inodes : Subdirs(d)' = Subdirs(d)
  BY <1>3, <1>4, TypeFacts DEF Subdirs
<1>6. \A j \in Inodes \ {i} : Count(j)' = Count(j)
  BY <1>1, <1>3, <1>5 DEF Count
<1> QED  BY <1>1, <1>2, <1>3, <1>6

\* What is exact of the tree does not depend on an inode without a name.
LEMMA UnnamedExact ==
    ASSUME TypeOK, NEW i \in Inodes, i \notin InTree, entries' = entries,
           \A j \in Inodes \ {i} : kind'[j] = kind[j]
    PROVE  /\ OneName({}) => OneName({})'
           /\ (\A j \in Inodes \ {i} : dotdot'[j] = dotdot[j]) =>
                 (Parented({}) => Parented({})')
           /\ (\A j \in Inodes \ {i} : links'[j] = links[j]) =>
                 \A S : Counted(S) => Counted(S)'
           /\ next' = next => (MayMove => MayMove')
<1>1. OneName({}) => OneName({})'
  BY UnnamedTree DEF OneName
<1>2. (\A j \in Inodes \ {i} : dotdot'[j] = dotdot[j]) => (Parented({}) => Parented({})')
  BY UnnamedTree DEF Parented
<1>3. (\A j \in Inodes \ {i} : links'[j] = links[j]) => \A S : Counted(S) => Counted(S)'
  <2> SUFFICES ASSUME \A j \in Inodes \ {i} : links'[j] = links[j],
                      NEW S, Counted(S), NEW j \in InTree' \ S
               PROVE  links'[j] = Count(j)'
    BY DEF Counted
  <2>1. j \in InTree \ S /\ j # i /\ j \in Inodes
    BY UnnamedTree, TypeFacts
  <2> QED  BY <2>1, UnnamedTree DEF Counted
<1>4. next' = next => (MayMove => MayMove')
  <2> SUFFICES ASSUME next' = next, MayMove, next # <<>>
               PROVE  \E j, fd, td \in Inodes, fn, tn \in Names :
                         Moving(next, j, fd, fn, td, tn)' /\ entries'[td][tn] = None
    BY DEF MayMove
  <2>1. PICK j, fd, td \in Inodes, fn, tn \in Names :
           Moving(next, j, fd, fn, td, tn) /\ entries[td][tn] = None
    BY DEF MayMove
  <2>2. j # i /\ td # i
    <3>1. td \in InTree /\ entries[fd][fn] = j
      BY <2>1 DEF Moving
    <3>2. NamesOf(j) # {}
      BY <3>1, NamesAre
    <3> QED  BY <3>1, <3>2, UnnamedTree
  <2>3. Moving(next, j, fd, fn, td, tn)'
    BY <2>1, <2>2, UnnamedTree DEF Moving, Renames
  <2> QED  BY <2>1, <2>3
<1> QED  BY <1>1, <1>2, <1>3, <1>4

\* What holds at every moment holds while an inode without a name is made or cleared.
LEMMA UnnamedCore ==
    ASSUME Core, TypeOK', NEW i \in Inodes, i \notin InTree, IsEmpty(i),
           UNCHANGED <<entries, before, gone>>,
           \A j \in Inodes \ {i} : kind'[j] = kind[j],
           \A j \in allocated \ {i} : j \in allocated',
           kind'[i] # "none" => i \in allocated'
    PROVE  Core'
<1>1. TypeOK /\ i # Root /\ \A d \in Inodes, n \in Names : entries[d][n] # i
  <2>1. TypeOK
    BY DEF Core
  <2>2. i # Root /\ NamesOf(i) = {}
    BY <2>1, UnnamedTree
  <2> QED  BY <2>1, <2>2, NamesAre
<1>2. \A n \in Names : entries[i][n] = None
  BY DEF IsEmpty, NoNames
<1>3. NamesPointAtInodes'
  <2> SUFFICES ASSUME NEW d \in Inodes, NEW n \in Names, entries'[d][n] # None
               PROVE  /\ entries'[d][n] \in allocated' /\ kind'[entries'[d][n]] # "none"
                      /\ d \in allocated' /\ kind'[d] = "dir"
    BY DEF NamesPointAtInodes, IsDir
  <2>1. entries[d][n] \in Inodes \ {i} /\ d # i
    BY <1>1, <1>2, TypeFacts
  <2> QED  BY <2>1 DEF Core, NamesPointAtInodes, IsDir
<1>4. NoNameLost'
  BY <1>1, UnnamedTree DEF Core, NoNameLost
<1>5. IsDir(Root)' /\ NamesOf(Root)' = {}
  BY <1>1, UnnamedTree, Numbers DEF Core
<1> QED  BY <1>1, <1>3, <1>4, <1>5, UnnamedTree DEF Core

\* alloc_inode marks an inode.
LEMMA AllocateStep ==
    ASSUME Inv, NEW i \in Inodes, NEW k \in {"dir", "file"}, DoAllocate(i, k)  PROVE  Inv'
<1>1. /\ Do(Allocate(i, k)) /\ allocated' = allocated \cup {i}
      /\ usedDirs' = usedDirs + One(k)
      /\ UNCHANGED <<kind, links, entries, dotdot, indexed>>
  <2>1. TypeOK
    BY DEF Inv, Core
  <2> QED  BY <2>1, TypeFacts DEF DoAllocate, dirVars, One
<1>2. /\ AtAllocate /\ Head(todo) = Allocate(i, k) /\ todo' = Tail(todo) /\ harm # "torn"
      /\ UNCHANGED <<next, before, gone, harm, failures>>
  BY <1>1, StageOf, WriteTags
<1>3. PICK j, d \in Inodes, n \in Names, l \in {"dir", "file"} :
         /\ todo = IF l = "dir"
                   THEN <<Allocate(j, l), Make(j, l, d), AddName(d, n, j), AddLink(d)>>
                   ELSE <<Allocate(j, l), Make(j, l, d), AddName(d, n, j)>>
         /\ j \notin allocated
         /\ d \in InTree /\ IsDir(d) /\ entries[d][n] = None
  BY <1>2 DEF AtAllocate
<1>4. Allocate(i, k) = Allocate(j, l)
  BY <1>2, <1>3, Writes
<1>5. j = i /\ l = k
  BY <1>4, WriteArguments
<1>6. todo' = IF k = "dir" THEN <<Make(i, k, d), AddName(d, n, i), AddLink(d)>>
                           ELSE <<Make(i, k, d), AddName(d, n, i)>>
  BY <1>2, <1>3, <1>5, Writes
<1>7. Core /\ TypeOK
  BY DEF Inv, Core
<1>8. TypeOK'
  BY <1>1, <1>2, <1>7 DEF TypeOK, One
<1>9. Core'
  BY <1>1, <1>2, <1>7, <1>8, SameCore DEF Core
<1>10. kind[i] = "none"
  BY <1>3, <1>5, <1>7 DEF Core
<1>11. Tallied({i}, One(k))'
  <2>1. usedDirs >= Cardinality(AllDirs) /\ AllDirs' = AllDirs /\ InTree' = InTree
        /\ (harm = "none" => allocated = InTree /\ usedDirs = Cardinality(AllDirs))
    BY <1>1, <1>2, Countable, SameTree DEF AtAllocate, Tallied
  <2>2. Cardinality(AllDirs) \in Nat /\ usedDirs \in Nat /\ One(k) \in Nat
    BY <1>7, Countable, TypeFacts DEF One
  <2> QED  BY <1>1, <1>2, <2>1, <2>2 DEF Tallied
<1>12. TreeExact'
  BY <1>1, <1>2, SameExact DEF AtAllocate, TreeExact
<1>13. /\ next' = <<>> /\ entries' = before' /\ i \in allocated' /\ kind'[i] = "none"
       /\ d \in InTree' /\ IsDir(d)' /\ entries'[d][n] = None
  BY <1>1, <1>2, <1>3, <1>10, SameTree DEF AtAllocate
<1>14. AtMake'
  BY <1>6, <1>11, <1>12, <1>13 DEF AtMake
<1> QED  BY <1>2, <1>9, <1>14 DEF Inv, Working

\* write_inode gives a new inode its kind and its links.
LEMMA MakeStep ==
    ASSUME Inv, NEW i \in Inodes, NEW parent \in Inodes, NEW k \in {"dir", "file"},
           DoMake(i, k, parent)
    PROVE  Inv'
<1>1. /\ Do(Make(i, k, parent)) /\ kind' = [kind EXCEPT ![i] = k]
      /\ links' = [links EXCEPT ![i] = NewLinks(k)]
      /\ dotdot' = IF k = "dir" THEN [dotdot EXCEPT ![i] = parent] ELSE dotdot
      /\ UNCHANGED <<allocated, usedDirs, entries, indexed>>
  BY DEF DoMake
<1>2. /\ AtMake /\ Head(todo) = Make(i, k, parent) /\ todo' = Tail(todo) /\ harm # "torn"
      /\ UNCHANGED <<next, before, gone, harm, failures>>
  BY <1>1, StageOf, WriteTags
<1>3. PICK j, d \in Inodes, n \in Names, l \in {"dir", "file"} :
         /\ todo = IF l = "dir"
                   THEN <<Make(j, l, d), AddName(d, n, j), AddLink(d)>>
                   ELSE <<Make(j, l, d), AddName(d, n, j)>>
         /\ j \in allocated /\ kind[j] = "none" /\ Tallied({j}, One(l))
         /\ d \in InTree /\ IsDir(d) /\ entries[d][n] = None
  BY <1>2 DEF AtMake
<1>4. Make(i, k, parent) = Make(j, l, d)
  BY <1>2, <1>3, Writes
<1>5. j = i /\ l = k /\ d = parent
  BY <1>4, WriteArguments
<1>6. todo' = IF k = "dir" THEN <<AddName(d, n, i), AddLink(d)>> ELSE <<AddName(d, n, i)>>
  BY <1>2, <1>3, <1>5, Writes
<1>7. Core /\ TypeOK
  BY DEF Inv, Core
<1>8. i \notin InTree /\ IsEmpty(i) /\ ~ IsDir(i)
  <2>1. \A e \in Inodes, m \in Names : entries[e][m] # i
    BY <1>3, <1>5, <1>7, Numbers DEF Core, NamesPointAtInodes, None
  <2>2. NamesOf(i) = {} /\ i # Root
    BY <1>3, <1>5, <1>7, <2>1, NamesAre DEF Core, IsDir
  <2>3. \A m \in Names : entries[i][m] = None
    BY <1>3, <1>5, <1>7 DEF Core, NamesPointAtInodes, IsDir
  <2>4. entries[i] \in [Names -> Inodes \cup {None}]
    BY <1>7 DEF TypeOK
  <2> QED  BY <1>3, <1>5, <2>2, <2>3, <2>4 DEF InTree, IsEmpty, NoNames, IsDir
<1>9. /\ kind'[i] = k /\ links'[i] = NewLinks(k) /\ (k = "dir" => dotdot'[i] = d)
      /\ \A e \in Inodes \ {i} :
            kind'[e] = kind[e] /\ links'[e] = links[e] /\ dotdot'[e] = dotdot[e]
  BY <1>1, <1>5, <1>7 DEF TypeOK
<1>10. TypeOK'
  <2>1. NewLinks(k) \in 0 .. LinkModulus - 1
    BY Numbers DEF NewLinks
  <2> QED  BY <1>1, <1>2, <1>7, <2>1 DEF TypeOK
<1>11. Core'
  BY <1>1, <1>2, <1>3, <1>5, <1>7, <1>8, <1>9, <1>10, UnnamedCore
<1>12. /\ InTree' = InTree /\ NamesOf(i)' = {} /\ i # Root /\ IsEmpty(i)' /\ IsDir(d)'
  BY <1>1, <1>3, <1>7, <1>8, <1>9, UnnamedTree
<1>13. Tallied({i}, 0)'
  <2>1. AllDirs' = IF k = "dir" THEN AllDirs \cup {i} ELSE AllDirs
    BY <1>8, <1>9 DEF AllDirs, IsDir
  <2>2. Cardinality(AllDirs') = Cardinality(AllDirs) + One(k)
    <3>1. i \notin AllDirs
      BY <1>8 DEF AllDirs
    <3>2. Cardinality(AllDirs \cup {i}) = Cardinality(AllDirs) + 1
      BY <3>1, OneMore, Countable
    <3> QED  BY <2>1, <3>2, Countable DEF One
  <2>3. Tallied({i}, One(k))
    BY <1>3, <1>5
  <2>4. Cardinality(AllDirs) \in Nat /\ usedDirs \in Nat /\ One(k) \in Nat
    BY <1>7, Countable, TypeFacts DEF One
  <2> QED  BY <1>1, <1>2, <1>12, <2>2, <2>3, <2>4 DEF Tallied
<1>14. TreeExact'
  BY <1>1, <1>2, <1>7, <1>8, <1>9, UnnamedExact DEF AtMake, TreeExact
<1>15. NamesNew(i, k, d, n)'
  BY <1>1, <1>3, <1>5, <1>6, <1>9, <1>12, <1>13 DEF NamesNew
<1>16. AtAddName'
  BY <1>1, <1>2, <1>3, <1>12, <1>14, <1>15 DEF AtAddName, AtMake
<1> QED  BY <1>2, <1>11, <1>16 DEF Inv, Working

\* truncate and write_inode leave an inode without a kind.
LEMMA ClearStep ==
    ASSUME Inv, NEW i \in Inodes, DoClear(i)  PROVE  Inv'
<1>1. /\ Do(Clear(i)) /\ kind' = [kind EXCEPT ![i] = "none"]
      /\ links' = [links EXCEPT ![i] = 0] /\ dotdot' = [dotdot EXCEPT ![i] = None]
      /\ indexed' = indexed \ {i} /\ UNCHANGED <<allocated, usedDirs, entries>>
  BY DEF DoClear
<1>2. /\ AtClear /\ Head(todo) = Clear(i) /\ todo' = Tail(todo) /\ harm # "torn"
      /\ UNCHANGED <<next, before, gone, harm, failures>>
  BY <1>1, StageOf, WriteTags
<1>3. PICK j, d \in Inodes, k \in {"dir", "file"} :
         /\ todo = IF k = "dir" THEN <<Clear(j), Free(j, k), DropLink(d)>>
                                ELSE <<Clear(j), Free(j, k)>>
         /\ Orphaned(j, k, d) /\ kind[j] = k /\ Tallied({j}, 0)
  BY <1>2 DEF AtClear
<1>4. Clear(i) = Clear(j)
  BY <1>2, <1>3, Writes
<1>5. j = i
  BY <1>4, WriteArguments
<1>6. todo' = IF k = "dir" THEN <<Free(i, k), DropLink(d)>> ELSE <<Free(i, k)>>
  BY <1>2, <1>3, <1>5, Writes
<1>7. Core /\ TypeOK
  BY DEF Inv, Core
<1>8. i \notin InTree /\ IsEmpty(i) /\ i \in allocated
  BY <1>3, <1>5 DEF Orphaned
<1>9. /\ kind'[i] = "none"
      /\ \A e \in Inodes \ {i} :
            kind'[e] = kind[e] /\ links'[e] = links[e] /\ dotdot'[e] = dotdot[e]
  BY <1>1, <1>7 DEF TypeOK
<1>10. TypeOK'
  <2>1. 0 \in 0 .. LinkModulus - 1
    BY Numbers
  <2> QED  BY <1>1, <1>2, <1>7, <2>1 DEF TypeOK
<1>11. Core'
  BY <1>1, <1>2, <1>7, <1>8, <1>9, <1>10, UnnamedCore
<1>12. InTree' = InTree /\ IsEmpty(i)' /\ \A e \in Inodes \ {i} : Count(e)' = Count(e)
  BY <1>1, <1>7, <1>8, <1>9, UnnamedTree
<1>13. Tallied({i}, One(k))'
  <2>1. AllDirs' = IF k = "dir" THEN AllDirs \ {i} ELSE AllDirs
    BY <1>3, <1>5, <1>9 DEF AllDirs, IsDir
  <2>2. k = "dir" => i \in AllDirs
    BY <1>3, <1>5 DEF AllDirs, IsDir
  <2>3. Cardinality(AllDirs) \in Nat /\ usedDirs \in Nat
    BY <1>7, Countable, TypeFacts
  <2>4. Cardinality(AllDirs') + One(k) = Cardinality(AllDirs)
    BY <2>1, <2>2, <2>3, OneLess, Countable DEF One
  <2>5. Tallied({i}, 0)
    BY <1>3, <1>5
  <2> QED  BY <1>1, <1>2, <1>12, <2>3, <2>4, <2>5 DEF Tallied
<1>14. OneName({})' /\ Parented({})' /\ MayMove'
  BY <1>1, <1>2, <1>7, <1>8, <1>9, UnnamedExact DEF AtClear
<1>15. Orphaned(i, k, d)'
  <2>1. IF k = "dir" THEN d \in InTree /\ Counted({d}) /\ links[d] = Count(d) + 1
                     ELSE Counted({})
    BY <1>3, <1>5 DEF Orphaned
  <2>2. \A S : Counted(S) => Counted(S)'
    BY <1>1, <1>7, <1>8, <1>9, UnnamedExact
  <2>3. d \in InTree => links'[d] = links[d] /\ Count(d)' = Count(d)
    BY <1>8, <1>9, <1>12
  <2> QED  BY <1>1, <1>8, <1>12, <2>1, <2>2, <2>3 DEF Orphaned
<1>16. AtFree'
  BY <1>1, <1>2, <1>6, <1>9, <1>13, <1>14, <1>15 DEF AtFree, AtClear
<1> QED  BY <1>2, <1>11, <1>16 DEF Inv, Working

\* free_inode gives the inode back, and a directory's place in the tally.
LEMMA FreeStep ==
    ASSUME Inv, NEW i \in Inodes, NEW k \in {"dir", "file"}, DoFree(i, k)  PROVE  Inv'
<1>1. /\ Do(Free(i, k)) /\ allocated' = allocated \ {i}
      /\ usedDirs' = IF k = "dir" THEN usedDirs - 1 ELSE usedDirs
      /\ UNCHANGED <<kind, links, entries, dotdot, indexed>>
  BY DEF DoFree, TallyAfterFree, dirVars
<1>2. /\ AtFree /\ Head(todo) = Free(i, k) /\ todo' = Tail(todo) /\ harm # "torn"
      /\ UNCHANGED <<next, before, gone, harm, failures>>
  BY <1>1, StageOf, WriteTags
<1>3. PICK j, d \in Inodes, l \in {"dir", "file"} :
         /\ todo = IF l = "dir" THEN <<Free(j, l), DropLink(d)>> ELSE <<Free(j, l)>>
         /\ Orphaned(j, l, d) /\ kind[j] = "none" /\ Tallied({j}, One(l))
  BY <1>2 DEF AtFree
<1>4. Free(i, k) = Free(j, l)
  BY <1>2, <1>3, Writes
<1>5. j = i /\ l = k
  BY <1>4, WriteArguments
<1>6. todo' = IF k = "dir" THEN <<DropLink(d)>> ELSE <<>>
  BY <1>2, <1>3, <1>5, Writes
<1>7. Core /\ TypeOK
  BY DEF Inv, Core
<1>8. i \notin InTree /\ i \in allocated /\ kind[i] = "none" /\ Tallied({i}, One(k))
  BY <1>3, <1>5 DEF Orphaned
<1>9. usedDirs' \in Nat /\ usedDirs = usedDirs' + One(k)
  <2>1. usedDirs \in Nat /\ Cardinality(AllDirs) \in Nat
    BY <1>7, TypeFacts, Countable
  <2> QED  BY <1>1, <1>8, <2>1 DEF Tallied, One
<1>10. TypeOK'
  BY <1>1, <1>2, <1>7, <1>9 DEF TypeOK
<1>11. Core'
  <2>1. \A e \in Inodes : kind[e] # "none" => e \in allocated'
    BY <1>1, <1>7, <1>8 DEF Core
  <2> QED  BY <1>1, <1>2, <1>7, <1>10, <2>1, SameCore
<1>12. Tallied({}, 0)'
  <2>1. AllDirs' = AllDirs /\ InTree' = InTree
    BY <1>1, SameTree
  <2>2. Cardinality(AllDirs) \in Nat /\ One(k) \in Nat
    BY Countable DEF One
  <2> QED  BY <1>1, <1>2, <1>8, <1>9, <2>1, <2>2 DEF Tallied
<1>13. OneName({})' /\ Parented({})' /\ MayMove'
  BY <1>1, <1>2, SameExact DEF AtFree
<1>14. CASE k = "file"
  <2>1. Counted({})'
    BY <1>1, <1>3, <1>5, <1>14, SameExact DEF Orphaned
  <2> QED  BY <1>2, <1>6, <1>11, <1>12, <1>13, <1>14, <2>1 DEF Inv, Rest, TreeExact
<1>15. CASE k = "dir"
  <2>1. d \in InTree /\ Counted({d}) /\ links[d] = Count(d) + 1
    BY <1>3, <1>5, <1>15 DEF Orphaned
  <2>2. d \in InTree' /\ Counted({d})' /\ links'[d] = Count(d)' + 1
    BY <1>1, <2>1, SameTree, SameExact
  <2>3. DropsLast(d)'
    BY <1>6, <1>13, <1>15, <2>2 DEF DropsLast
  <2>4. AtDropLink'
    BY <1>1, <1>2, <1>12, <1>13, <2>2, <2>3 DEF AtDropLink, AtFree
  <2> QED  BY <1>2, <1>11, <2>4 DEF Inv, Working
<1> QED  BY <1>14, <1>15

(***************************************************************************)
(* link_into adds a name.                                                  *)
(***************************************************************************)
\* A name may be added to an inode in use, in a directory of the tree.
LEMMA AddNameCore ==
    ASSUME Core, TypeOK', NEW d \in Inodes, NEW n \in Names, NEW i \in Inodes,
           IsDir(d), d \in InTree, entries[d][n] = None,
           i # d, i # Root, kind[i] # "none",
           entries' = [entries EXCEPT ![d][n] = i],
           UNCHANGED <<allocated, kind, before, gone>>
    PROVE  Core'
<1>1. TypeOK /\ i \in allocated /\ d \in allocated
  BY DEF Core, IsDir
<1>2. \A e \in Inodes, m \in Names :
         entries'[e][m] = IF <<e, m>> = <<d, n>> THEN i ELSE entries[e][m]
  BY <1>1, NameAdded
<1>3. /\ NamesOf(i)' = NamesOf(i) \cup {<<d, n>>} /\ InTree' = InTree \cup {i}
      /\ \A j \in Inodes \ {i} : NamesOf(j)' = NamesOf(j)
      /\ \A e \in Inodes \ {d} : IsEmpty(e)' <=> IsEmpty(e)
  BY <1>1, NameAdded
<1>4. NamesPointAtInodes'
  <2> SUFFICES ASSUME NEW e \in Inodes, NEW m \in Names, entries'[e][m] # None
               PROVE  /\ entries'[e][m] \in allocated' /\ kind'[entries'[e][m]] # "none"
                      /\ e \in allocated' /\ kind'[e] = "dir"
    BY DEF NamesPointAtInodes, IsDir
  <2>1. CASE <<e, m>> = <<d, n>>
    BY <1>1, <1>2, <2>1 DEF IsDir
  <2>2. CASE <<e, m>> # <<d, n>>
    BY <1>2, <2>2 DEF Core, NamesPointAtInodes, IsDir
  <2> QED  BY <2>1, <2>2
<1>5. NoNameLost'
  <2>1. \A j \in Inodes : NamesOf(j) \subseteq NamesOf(j)'
    BY <1>3
  <2>2. \A e \in Inodes, m \in Names : before[e][m] # None => before[e][m] \in Inodes
    BY <1>1, TypeFacts
  <2> QED  BY <2>1, <2>2 DEF Core, NoNameLost
<1>6. \A e \in Inodes : ~ IsEmpty(e)' => e \in InTree'
  BY <1>3 DEF Core
<1>7. \A e \in Inodes, m \in Names : entries'[e][m] # e
  BY <1>2 DEF Core
<1>8. IsDir(Root)' /\ NamesOf(Root)' = {} /\ \A j \in Inodes : kind'[j] # "none" => j \in allocated'
  BY <1>3, Numbers DEF Core, IsDir
<1> QED  BY <1>4, <1>5, <1>6, <1>7, <1>8 DEF Core

\* A new inode gets its name: a file is there, a directory's parent wants a link.
LEMMA NamesNewStep ==
    ASSUME Core, TypeOK', Core', AtAddName, harm # "torn", UNCHANGED harm,
           NEW d \in Inodes, NEW n \in Names, NEW i \in Inodes, NEW k \in {"dir", "file"},
           IsDir(d), d \in InTree, entries[d][n] = None, i # d, NamesNew(i, k, d, n),
           entries' = [entries EXCEPT ![d][n] = i], todo' = Tail(todo),
           UNCHANGED <<next, before, allocated, usedDirs, kind, links, dotdot>>
    PROVE  Inv'
<1>1. TypeOK /\ next = <<>> /\ entries = before /\ Counted({}) /\ OneName({}) /\ Parented({})
  BY DEF Core, AtAddName, TreeExact
<1>2. /\ i # Root /\ i \notin InTree /\ NamesOf(i) = {} /\ links[i] = NewLinks(k)
      /\ kind[i] = k /\ IsEmpty(i) /\ Tallied({i}, 0) /\ (k = "dir" => dotdot[i] = d)
  BY DEF NamesNew, InTree
<1>3. /\ NamesOf(i)' = {<<d, n>>} /\ entries' # entries /\ AllDirs' = AllDirs
      /\ InTree' = InTree \cup {i} /\ \A j : IsDir(j)' <=> IsDir(j)
      /\ \A j \in Inodes \ {i} : NamesOf(j)' = NamesOf(j)
      /\ IF IsDir(i) THEN Count(i)' = Count(i) /\ Count(d)' = Count(d) + 1
                     ELSE Count(i)' = Count(i) + 1 /\ Count(d)' = Count(d)
      /\ \A j \in Inodes \ {i, d} : Count(j)' = Count(j)
  <2>1. kind' = kind
    OBVIOUS
  <2>2. NamesOf(i)' = NamesOf(i) \cup {<<d, n>>}
    <3>1. \A e \in Inodes, m \in Names :
             entries'[e][m] = IF <<e, m>> = <<d, n>> THEN i ELSE entries[e][m]
      BY <1>1, <2>1, NameAdded
    <3> QED  BY <3>1 DEF NamesOf
  <2>3. /\ entries' # entries /\ AllDirs' = AllDirs
        /\ InTree' = InTree \cup {i} /\ \A j : IsDir(j)' <=> IsDir(j)
        /\ \A j \in Inodes \ {i} : NamesOf(j)' = NamesOf(j)
    BY <1>1, <2>1, NameAdded
  <2>4. IF IsDir(i) THEN Count(i)' = Count(i) /\ Count(d)' = Count(d) + 1
                    ELSE Count(i)' = Count(i) + 1 /\ Count(d)' = Count(d)
    BY <1>1, <2>1, NameAdded
  <2>5. \A j \in Inodes \ {i, d} : Count(j)' = Count(j)
    BY <1>1, <2>1, NameAdded
  <2> QED  BY <1>2, <2>2, <2>3, <2>4, <2>5
<1>4. links[i] = Count(i)'
  <2>1. CASE k = "dir"
    <3>1. \A m \in Names : entries[i][m] = None
      BY <1>2 DEF IsEmpty, NoNames
    <3>2. Subdirs(i) = {}
      BY <3>1 DEF Subdirs
    <3>3. Count(i) = 2
      BY <1>2, <2>1, <3>2, FS_EmptySet DEF Count, IsDir
    <3> QED  BY <1>2, <1>3, <2>1, <3>3 DEF IsDir, NewLinks
  <2>2. CASE k = "file"
    <3>1. Count(i) = 0
      BY <1>2, <2>2, FS_EmptySet DEF Count, IsDir
    <3> QED  BY <1>2, <1>3, <2>2, <3>1 DEF IsDir, NewLinks
  <2> QED  BY <2>1, <2>2
<1>5. OneName({})'
  BY <1>1, <1>3 DEF OneName
<1>6. Parented({})'
  BY <1>1, <1>2, <1>3 DEF Parented, IsDir
<1>7. Tallied({}, 0)'
  BY <1>2, <1>3 DEF Tallied
<1>8. InTree \subseteq Inodes
  BY <1>1, TypeFacts
<1>9. CASE k = "file"
  <2>1. todo' = <<>>
    BY <1>9, Writes DEF NamesNew
  <2>2. Counted({})'
    BY <1>1, <1>2, <1>3, <1>4, <1>8, <1>9 DEF Counted, IsDir
  <2> QED  BY <1>1, <1>5, <1>6, <1>7, <2>1, <2>2 DEF Inv, Rest, TreeExact, MayMove
<1>10. CASE k = "dir"
  <2>1. todo' = <<AddLink(d)>>
    BY <1>10, Writes DEF NamesNew
  <2>2. Counted({d})'
    BY <1>1, <1>2, <1>3, <1>4, <1>8, <1>10 DEF Counted, IsDir
  <2>3. d \in InTree' /\ links'[d] + 1 = Count(d)'
    BY <1>1, <1>2, <1>3, <1>10 DEF Counted, IsDir
  <2>4. AtAddLink'
    BY <1>1, <1>3, <1>5, <1>6, <1>7, <2>1, <2>2, <2>3 DEF AtAddLink
  <2> QED  BY <2>4 DEF Inv, Working
<1> QED  BY <1>9, <1>10

\* A file gets one more name, and wants a link for it.
LEMMA NamesAgainStep ==
    ASSUME Core, TypeOK', Core', AtAddName, harm # "torn", UNCHANGED harm,
           NEW d \in Inodes, NEW n \in Names, NEW i \in Inodes,
           IsDir(d), d \in InTree, entries[d][n] = None, i # d, NamesAgain(i, d, n),
           entries' = [entries EXCEPT ![d][n] = i], todo' = Tail(todo),
           UNCHANGED <<next, before, allocated, usedDirs, kind, links, dotdot>>
    PROVE  Inv'
<1>1. TypeOK /\ next = <<>> /\ entries = before /\ Counted({}) /\ OneName({}) /\ Parented({})
  BY DEF Core, AtAddName, TreeExact
<1>2. i \in InTree /\ ~ IsDir(i) /\ Tallied({}, 0) /\ todo' = <<AddLink(i)>>
  BY Writes DEF NamesAgain, IsDir
<1>3. /\ entries' # entries /\ AllDirs' = AllDirs
      /\ InTree' = InTree \cup {i} /\ \A j : IsDir(j)' <=> IsDir(j)
      /\ \A j \in Inodes \ {i} : NamesOf(j)' = NamesOf(j)
      /\ Count(i)' = Count(i) + 1 /\ Count(d)' = Count(d)
      /\ \A j \in Inodes \ {i, d} : Count(j)' = Count(j)
  BY <1>1, <1>2, NameAdded
<1>4. InTree' = InTree /\ InTree \subseteq Inodes
  BY <1>1, <1>2, <1>3, TypeFacts
<1>5. OneName({})' /\ Parented({})'
  BY <1>1, <1>2, <1>3 DEF OneName, Parented
<1>6. Tallied({}, 0)'
  BY <1>2, <1>3, <1>4 DEF Tallied
<1>7. Counted({i})' /\ links'[i] + 1 = Count(i)'
  BY <1>1, <1>2, <1>3, <1>4 DEF Counted
<1>8. AtAddLink'
  BY <1>1, <1>2, <1>3, <1>4, <1>5, <1>6, <1>7 DEF AtAddLink
<1> QED  BY <1>8 DEF Inv, Working

\* A renamed inode gets its new name beside the old.
LEMMA NamesMovedStep ==
    ASSUME Core, TypeOK', Core', AtAddName, harm # "torn", UNCHANGED harm,
           NEW d \in Inodes, NEW n \in Names, NEW i \in Inodes,
           IsDir(d), d \in InTree, entries[d][n] = None, i # d, i # Root,
           NamesMoved(i, d, n),
           entries' = [entries EXCEPT ![d][n] = i], todo' = Tail(todo),
           UNCHANGED <<next, before, allocated, usedDirs, kind, links, dotdot>>
    PROVE  Inv'
<1>1. TypeOK /\ next = <<>> /\ entries = before /\ Counted({}) /\ OneName({}) /\ Parented({})
  BY DEF Core, AtAddName, TreeExact
<1>2. PICK fd \in Inodes, fn \in Names :
         Renames(todo, i, fd, fn, d, n) /\ entries[fd][fn] = i
  BY DEF NamesMoved
<1>3. Tallied({}, 0) /\ (IsDir(i) => i # d)
  BY DEF NamesMoved
<1>4. todo' = IF IsDir(i) /\ fd # d
              THEN <<TakeName(fd, fn), Point(i, d), DropLink(fd), AddLink(d)>>
              ELSE <<TakeName(fd, fn)>>
  BY <1>2, Writes DEF Renames
<1>5. /\ \A e \in Inodes, m \in Names :
            entries'[e][m] = IF <<e, m>> = <<d, n>> THEN i ELSE entries[e][m]
      /\ AllDirs' = AllDirs
      /\ NamesOf(i)' = NamesOf(i) \cup {<<d, n>>}
      /\ InTree' = InTree \cup {i} /\ \A j : IsDir(j)' <=> IsDir(j)
      /\ \A j \in Inodes \ {i} : NamesOf(j)' = NamesOf(j)
      /\ IF IsDir(i) THEN Count(i)' = Count(i) /\ Count(d)' = Count(d) + 1
                     ELSE Count(i)' = Count(i) + 1 /\ Count(d)' = Count(d)
      /\ \A j \in Inodes \ {i, d} : Count(j)' = Count(j)
  <2>1. kind' = kind
    OBVIOUS
  <2>2. \A e \in Inodes, m \in Names :
           entries'[e][m] = IF <<e, m>> = <<d, n>> THEN i ELSE entries[e][m]
    BY <1>1, <2>1, NameAdded
  <2>3. NamesOf(i)' = NamesOf(i) \cup {<<d, n>>}
    BY <2>2 DEF NamesOf
  <2>6. /\ AllDirs' = AllDirs /\ InTree' = InTree \cup {i} /\ \A j : IsDir(j)' <=> IsDir(j)
        /\ \A j \in Inodes \ {i} : NamesOf(j)' = NamesOf(j)
    BY <1>1, <2>1, NameAdded
  <2>4. IF IsDir(i) THEN Count(i)' = Count(i) /\ Count(d)' = Count(d) + 1
                    ELSE Count(i)' = Count(i) + 1 /\ Count(d)' = Count(d)
    BY <1>1, <2>1, NameAdded
  <2>5. \A j \in Inodes \ {i, d} : Count(j)' = Count(j)
    BY <1>1, <2>1, NameAdded
  <2> QED  BY <2>2, <2>3, <2>4, <2>5, <2>6
<1>6. <<fd, fn>> \in NamesOf(i) /\ i \in InTree /\ InTree \subseteq Inodes /\ <<fd, fn>> # <<d, n>>
  BY <1>1, <1>2, NamesAre, TypeFacts, Numbers DEF InTree
<1>7. InTree' = InTree
  BY <1>5, <1>6
<1>8. Tallied({}, 0)'
  BY <1>3, <1>5, <1>7 DEF Tallied
<1>9. IsDir(i) => /\ NamesOf(i)' = {<<fd, fn>>, <<d, n>>} /\ dotdot'[i] = fd
  BY <1>1, <1>5, <1>6 DEF OneName, Parented
<1>10. OneName({i})' /\ Parented({i})'
  BY <1>1, <1>5 DEF OneName, Parented
<1>11. Counted({i, d})'
  BY <1>1, <1>5, <1>6, <1>7 DEF Counted
<1>12. IF IsDir(i)' THEN links'[i] = Count(i)' /\ links'[d] + 1 = Count(d)'
                    ELSE links'[i] + 1 = Count(i)' /\ links'[d] = Count(d)'
  BY <1>1, <1>5, <1>6, <1>7 DEF Counted
<1>13. before' = [entries' EXCEPT ![d][n] = None]
  <2>1. [entries' EXCEPT ![d] = [entries'[d] EXCEPT ![n] = None]] = entries
    <3> DEFINE row == [entries'[d] EXCEPT ![n] = None]
    <3>1. /\ entries'[d] \in [Names -> Inodes \cup {None}]
          /\ entries[d] \in [Names -> Inodes \cup {None}]
      BY <1>1 DEF TypeOK
    <3>2. \A m \in Names : row[m] = entries[d][m]
      BY <1>5, <3>1
    <3>3. row = entries[d]
      BY <3>1, <3>2
    <3>4. \A e \in Inodes \ {d} : entries'[e] = entries[e]
      BY <1>1 DEF TypeOK
    <3>5. \A e \in Inodes : [entries' EXCEPT ![d] = row][e] = entries[e]
      BY <1>1, <3>3, <3>4 DEF TypeOK
    <3>6. /\ DOMAIN [entries' EXCEPT ![d] = row] = Inodes
          /\ DOMAIN entries = Inodes
      BY <1>1 DEF TypeOK
    <3>7. entries \in [Inodes -> [Names -> Inodes \cup {None}]]
          /\ [entries' EXCEPT ![d] = row] \in [Inodes -> [Names -> Inodes \cup {None}]]
      BY <1>1, <3>3 DEF TypeOK
    <3> QED  BY <3>5, <3>7
  <2>2. before' = entries
    BY <1>1
  <2> QED  BY <2>1, <2>2
<1>14. Moves'
  <2>1. next' = <<>> /\ (IsDir(i) <=> IsDir(i)')
    BY <1>1, <1>5
  <2>2. before'[fd][fn] = i /\ entries'[d][n] = i
    BY <1>1, <1>2, <1>5
  <2>3. todo' = IF IsDir(i)' /\ fd # d
                THEN <<TakeName(fd, fn), Point(i, d), DropLink(fd), AddLink(d)>>
                ELSE <<TakeName(fd, fn)>>
    BY <1>4, <2>1
  <2>4. IsDir(i)' => i # d /\ NamesOf(i)' = {<<fd, fn>>, <<d, n>>} /\ dotdot'[i] = fd
    BY <1>3, <1>9, <2>1
  <2>5. HasBoth(i, fd, fn, d, n)'
    BY <1>10, <1>11, <1>12, <1>13, <2>2, <2>3, <2>4 DEF HasBoth
  <2> QED  BY <1>8, <2>1, <2>5 DEF Moves
<1> QED  BY <1>14 DEF Inv, Working, AtTakeName

\* link_into adds the name a call wants.
LEMMA AddNameStep ==
    ASSUME Inv, NEW d \in Inodes, NEW n \in Names, NEW i \in Inodes, DoAddName(d, n, i)
    PROVE  Inv'
<1>1. /\ Do(AddName(d, n, i)) /\ entries' = [entries EXCEPT ![d][n] = i]
      /\ UNCHANGED <<allocated, usedDirs, kind, links, dotdot>>
      /\ indexed' \subseteq indexed \cup {d}
  BY DEF DoAddName, inodeVars
<1>2. /\ AtAddName /\ Head(todo) = AddName(d, n, i) /\ todo' = Tail(todo) /\ harm # "torn"
      /\ UNCHANGED <<next, before, gone, harm, failures>>
  BY <1>1, StageOf, WriteTags
<1>3. PICK j, e \in Inodes, m \in Names :
         /\ e \in InTree /\ IsDir(e) /\ entries[e][m] = None
         /\ \/ \E k \in {"dir", "file"} : NamesNew(j, k, e, m)
            \/ NamesAgain(j, e, m)
            \/ NamesMoved(j, e, m)
  BY <1>2 DEF AtAddName
<1>4. AddName(d, n, i) = AddName(e, m, j)
  <2>1. CASE \E k \in {"dir", "file"} : NamesNew(j, k, e, m)
    BY <1>2, <2>1, Writes DEF NamesNew
  <2>2. CASE NamesAgain(j, e, m)
    BY <1>2, <2>2, Writes DEF NamesAgain
  <2>3. CASE NamesMoved(j, e, m)
    <3>1. PICK fd, fn : Renames(todo, j, fd, fn, e, m)
      BY <2>3 DEF NamesMoved
    <3> QED  BY <1>2, <3>1, Writes DEF Renames
  <2> QED  BY <1>3, <2>1, <2>2, <2>3
<1>5. j = i /\ e = d /\ m = n
  BY <1>4, WriteArguments
<1>6. Core /\ TypeOK
  BY DEF Inv, Core
<1>7. TypeOK'
  BY <1>1, <1>2, <1>6 DEF TypeOK
<1>8. i # d /\ i # Root /\ kind[i] # "none"
  <2>1. CASE \E k \in {"dir", "file"} : NamesNew(i, k, d, n)
    BY <1>3, <1>5, <2>1 DEF NamesNew, InTree
  <2>2. CASE NamesAgain(i, d, n)
    BY <1>3, <1>5, <1>6, <2>2 DEF NamesAgain, Core, IsDir
  <2>3. CASE NamesMoved(i, d, n)
    <3>1. PICK fd \in Inodes, fn \in Names : entries[fd][fn] = i
      BY <2>3 DEF NamesMoved
    <3>2. i # Root
      BY <1>6, <3>1, NamesAre DEF Core
    <3>3. kind[i] # "none"
      BY <1>6, <3>1, Numbers DEF Core, NamesPointAtInodes
    <3> QED  BY <1>3, <1>5, <2>3, <3>2, <3>3 DEF NamesMoved
  <2> QED  BY <1>3, <1>5, <2>1, <2>2, <2>3
<1>9. Core'
  BY <1>1, <1>2, <1>3, <1>5, <1>6, <1>7, <1>8, AddNameCore
<1>10. CASE \E k \in {"dir", "file"} : NamesNew(i, k, d, n)
  BY <1>1, <1>2, <1>3, <1>5, <1>6, <1>7, <1>8, <1>9, <1>10, NamesNewStep
<1>11. CASE NamesAgain(i, d, n)
  BY <1>1, <1>2, <1>3, <1>5, <1>6, <1>7, <1>8, <1>9, <1>11, NamesAgainStep
<1>12. CASE NamesMoved(i, d, n)
  BY <1>1, <1>2, <1>3, <1>5, <1>6, <1>7, <1>8, <1>9, <1>12, NamesMovedStep
<1> QED  BY <1>3, <1>5, <1>10, <1>11, <1>12

(***************************************************************************)
(* unlink_from takes a name.                                               *)
(***************************************************************************)
\* A name may be taken from an inode that keeps another, or holds none itself and
\* is what the call was asked to unname.
LEMMA TakeNameCore ==
    ASSUME Core, TypeOK', NEW d \in Inodes, NEW n \in Names, NEW i \in Inodes,
           IsDir(d), entries[d][n] = i, i # d, i # Root,
           NamesOf(i)' # {} \/ (gone = i /\ IsEmpty(i)),
           entries' = [entries EXCEPT ![d][n] = None],
           kind' = kind, allocated' = allocated, before' = before, gone' = gone
    PROVE  Core'
<1>1. TypeOK
  BY DEF Core
<1>2. \A e \in Inodes, m \in Names :
         entries'[e][m] = IF <<e, m>> = <<d, n>> THEN None ELSE entries[e][m]
  BY <1>1 DEF TypeOK
<1>3. \A j \in Inodes \ {i} : NamesOf(j)' = NamesOf(j)
  BY <1>1, NameTaken
<1>4. \A e \in Inodes \ {d} : IsEmpty(e)' <=> IsEmpty(e)
  BY <1>1, NameTaken
<1>5. NamesPointAtInodes'
  BY <1>2 DEF Core, NamesPointAtInodes, IsDir
<1>6. NoNameLost'
  <2>1. \A e \in Inodes, m \in Names : before[e][m] \in Inodes \cup {None}
    BY <1>1, TypeFacts
  <2> QED  BY <1>3, <2>1 DEF Core, NoNameLost
<1>7. ASSUME NEW e \in Inodes, ~ IsEmpty(e)'  PROVE  e \in InTree'
  <2>1. ~ IsEmpty(e)
    <3>1. ~ IsEmpty(d)
      BY Numbers DEF IsEmpty, NoNames
    <3> QED  BY <1>4, <1>7, <3>1
  <2>2. e = Root \/ NamesOf(e) # {}
    BY <2>1 DEF Core, InTree
  <2>3. e = Root \/ NamesOf(e)' # {}
    BY <1>3, <1>4, <1>7, <2>1, <2>2
  <2> QED  BY <2>3 DEF InTree
<1>8. \A e \in Inodes, m \in Names : entries'[e][m] # e
  BY <1>2, Numbers DEF Core
<1>9. IsDir(Root)' /\ NamesOf(Root)' = {} /\ \A j \in Inodes : kind'[j] # "none" => j \in allocated'
  BY <1>3, Numbers DEF Core, IsDir
<1> QED  BY <1>5, <1>6, <1>7, <1>8, <1>9 DEF Core

\* What a taken name changes, in the words of the stages.
LEMMA TakenTree ==
    ASSUME Core, NEW d \in Inodes, NEW n \in Names, NEW i \in Inodes,
           IsDir(d), entries[d][n] = i, i # d, i # Root,
           entries' = [entries EXCEPT ![d][n] = None], kind' = kind
    PROVE  /\ entries'[d][n] = None
           /\ \A e \in Inodes, m \in Names :
                 entries[e][m] # i => entries'[e][m] = entries[e][m]
           /\ i \in InTree /\ d \in InTree /\ d \in InTree' /\ InTree \subseteq Inodes
           /\ NamesOf(i)' = NamesOf(i) \ {<<d, n>>}
           /\ \A j \in Inodes \ {i} : NamesOf(j)' = NamesOf(j)
           /\ NamesOf(i)' = {} => InTree' = InTree \ {i}
           /\ NamesOf(i)' # {} => InTree' = InTree
           /\ AllDirs' = AllDirs /\ \A j : IsDir(j)' <=> IsDir(j)
           /\ IsEmpty(i)' <=> IsEmpty(i)
<1>1. TypeOK
  BY DEF Core
<1>2. \A e \in Inodes, m \in Names :
         entries'[e][m] = IF <<e, m>> = <<d, n>> THEN None ELSE entries[e][m]
  BY <1>1 DEF TypeOK
<1>3. /\ entries'[d][n] = None
      /\ \A e \in Inodes, m \in Names : entries[e][m] # i => entries'[e][m] = entries[e][m]
  BY <1>2
<1>4. i \in InTree /\ d \in InTree /\ InTree \subseteq Inodes
  <2>1. ~ IsEmpty(d)
    BY Numbers DEF IsEmpty, NoNames
  <2>2. <<d, n>> \in NamesOf(i)
    BY NamesAre
  <2> QED  BY <1>1, <2>1, <2>2, TypeFacts DEF Core, InTree
<1>5. NamesOf(i)' = NamesOf(i) \ {<<d, n>>}
  BY <1>2, Numbers DEF NamesOf
<1>6. /\ \A j \in Inodes \ {i} : NamesOf(j)' = NamesOf(j)
      /\ AllDirs' = AllDirs /\ \A j : IsDir(j)' <=> IsDir(j)
      /\ IsEmpty(i)' <=> IsEmpty(i)
  BY <1>1, NameTaken
<1>7. InTree' = IF NamesOf(i)' = {} THEN InTree \ {i} ELSE InTree
  BY <1>1, NameTaken
<1>10. d \in InTree'
  BY <1>4, <1>7
<1> QED  BY <1>3, <1>4, <1>5, <1>6, <1>7, <1>10

\* A taken name counts for its inode, or for its directory where it is a directory's.
LEMMA TakenCounts ==
    ASSUME Core, NEW d \in Inodes, NEW n \in Names, NEW i \in Inodes,
           IsDir(d), entries[d][n] = i, i # d, i # Root,
           entries' = [entries EXCEPT ![d][n] = None], kind' = kind
    PROVE  /\ IsDir(i) => Count(i)' = Count(i) /\ Count(d)' = Count(d) - 1
           /\ ~ IsDir(i) => Count(i)' = Count(i) - 1 /\ Count(d)' = Count(d)
           /\ \A j \in Inodes \ {i, d} : Count(j)' = Count(j)
<1>1. TypeOK
  BY DEF Core
<1>2. IF IsDir(i) THEN Count(i)' = Count(i) /\ Count(d)' = Count(d) - 1
                  ELSE Count(i)' = Count(i) - 1 /\ Count(d)' = Count(d)
  BY <1>1, NameTaken
<1>3. \A j \in Inodes \ {i, d} : Count(j)' = Count(j)
  BY <1>1, NameTaken
<1> QED  BY <1>2, <1>3

\* The rename that waited for its destination to be cleared may go on.
LEMMA MoveFollows ==
    ASSUME Core, NEW d \in Inodes, NEW n \in Names, NEW i \in Inodes,
           IsDir(d), entries[d][n] = i, i # d, i # Root,
           entries' = [entries EXCEPT ![d][n] = None], kind' = kind, next' = next,
           WillMove(d, n)
    PROVE  MayMove'
<1>1. /\ entries'[d][n] = None /\ d \in InTree'
      /\ \A e \in Inodes, m \in Names : entries[e][m] # i => entries'[e][m] = entries[e][m]
  <2>1. entries'[d][n] = None
    BY DEF Core, TypeOK
  <2>2. d \in InTree'
    BY TakenTree
  <2>3. \A e \in Inodes, m \in Names : entries[e][m] # i => entries'[e][m] = entries[e][m]
    BY TakenTree
  <2> QED  BY <2>1, <2>2, <2>3
<1>4. \A j : IsDir(j)' <=> IsDir(j)
  BY DEF IsDir
<1> SUFFICES ASSUME next # <<>>  PROVE  MayMove'
  BY DEF MayMove
<1>2. PICK j, fd \in Inodes, fn \in Names : Moving(next, j, fd, fn, d, n) /\ j # i
  BY DEF WillMove
<1>3. Moving(next, j, fd, fn, d, n)'
  <2>1. Renames(next, j, fd, fn, d, n)'
    BY <1>4, <1>2 DEF Moving, Renames
  <2>2. entries'[fd][fn] = j
    BY <1>1, <1>2 DEF Moving
  <2> QED  BY <1>1, <1>4, <1>2, <2>1, <2>2 DEF Moving
<1> QED  BY <1>1, <1>3 DEF MayMove

\* Taken for good: what had one name is to be cleared, a file with more loses a link.
LEMMA RemovesStep ==
    ASSUME Core, Core', harm # "torn", harm' = harm, entries = before,
           TreeExact, Tallied({}, 0),
           NEW d \in Inodes, NEW n \in Names, NEW i \in Inodes,
           IsDir(d), entries[d][n] = i, i # d, i # Root, WillMove(d, n),
           TakesLast(i, d, n) \/ TakesOne(i, d, n) \/ TakesDir(i, d, n),
           entries' = [entries EXCEPT ![d][n] = None], todo' = Tail(todo),
           next' = next, before' = before, allocated' = allocated, usedDirs' = usedDirs,
           kind' = kind, links' = links, dotdot' = dotdot
    PROVE  Inv'
<1>1. Counted({}) /\ OneName({}) /\ Parented({})
  BY DEF TreeExact
<1>2. MayMove'
  BY MoveFollows
<1>3. entries' # before' /\ entries[d][n] # None
  <2>1. entries'[d][n] = None
    BY DEF Core, TypeOK
  <2> QED  BY <2>1, Numbers
<1>4. /\ i \in InTree /\ d \in InTree /\ d \in InTree' /\ InTree \subseteq Inodes
      /\ NamesOf(i)' = NamesOf(i) \ {<<d, n>>}
      /\ \A j \in Inodes \ {i} : NamesOf(j)' = NamesOf(j)
      /\ AllDirs' = AllDirs /\ \A j : IsDir(j)' <=> IsDir(j)
  BY TakenTree
<1>5. /\ NamesOf(i)' = {} => InTree' = InTree \ {i}
      /\ NamesOf(i)' # {} => InTree' = InTree
      /\ IsEmpty(i)' <=> IsEmpty(i)
  BY TakenTree
<1>6. /\ IsDir(i) => Count(i)' = Count(i) /\ Count(d)' = Count(d) - 1
      /\ ~ IsDir(i) => Count(i)' = Count(i) - 1 /\ Count(d)' = Count(d)
      /\ \A j \in Inodes \ {i, d} : Count(j)' = Count(j)
  BY TakenCounts
<1>7. OneName({})'
  BY <1>1, <1>4 DEF OneName
<1>8. Parented({})'
  BY <1>1, <1>4 DEF Parented
<1>13. \A j \in InTree : Count(j) \in Nat /\ links[j] = Count(j)
  BY <1>1, Countable DEF Counted
<1>9. i \in allocated
  BY <1>3 DEF Core, NamesPointAtInodes
<1>10. CASE TakesLast(i, d, n)
  <2>1. todo' = <<Clear(i), Free(i, "file")>> /\ kind[i] = "file" /\ ~ IsDir(i)
    BY <1>10, Writes DEF TakesLast, IsDir
  <2>2. NamesOf(i)' = {}
    BY <1>4, <1>10 DEF TakesLast
  <2>3. IsEmpty(i)'
    BY <1>5, <2>1, NotDirEmpty
  <2>4. i \notin InTree' /\ InTree' = InTree \ {i}
    BY <1>5, <2>2
  <2>5. Counted({})'
    BY <1>1, <1>4, <1>6, <2>1, <2>4 DEF Counted
  <2>6. Orphaned(i, "file", d)'
    BY <1>9, <2>3, <2>4, <2>5 DEF Orphaned
  <2>7. Tallied({i}, 0)'
    BY <1>4, <2>4 DEF Tallied
  <2>8. AtClear'
    BY <1>2, <1>3, <1>7, <1>8, <2>1, <2>6, <2>7 DEF AtClear
  <2> QED  BY <2>8 DEF Inv, Working
<1>11. CASE TakesOne(i, d, n)
  <2>1. todo' = <<DropLink(i)>> /\ ~ IsDir(i) /\ links[i] > 1
    BY <1>11, Writes DEF TakesOne, IsDir
  <2>2. links[i] = Count(i) /\ links'[i] = Count(i)' + 1
    BY <1>4, <1>6, <1>13, <2>1
  <2>3. NamesOf(i)' # {}
    <3>1. Count(i)' = Cardinality(NamesOf(i)')
      BY <1>4, <2>1 DEF Count
    <3>2. Count(i) \in Nat /\ Count(i) > 1
      BY <2>1, <2>2, Countable
    <3>3. Cardinality(NamesOf(i)') # 0
      BY <1>6, <2>1, <3>1, <3>2
    <3> QED  BY <3>3, FS_EmptySet
  <2>4. InTree' = InTree
    BY <1>5, <2>3
  <2>5. Counted({i})'
    BY <1>1, <1>4, <1>6, <2>1, <2>4 DEF Counted
  <2>6. Tallied({}, 0)'
    BY <1>4, <2>4 DEF Tallied
  <2>7. DropsLast(i)'
    BY <1>2, <2>1, <2>5 DEF DropsLast
  <2>8. AtDropLink'
    BY <1>3, <1>4, <1>7, <1>8, <2>2, <2>4, <2>6, <2>7 DEF AtDropLink
  <2> QED  BY <2>8 DEF Inv, Working
<1>12. CASE TakesDir(i, d, n)
  <2>1. /\ todo' = <<Clear(i), Free(i, "dir"), DropLink(d)>> /\ kind[i] = "dir" /\ IsDir(i)
        /\ IsEmpty(i)
    BY <1>12, Writes DEF TakesDir, IsDir
  <2>2. NamesOf(i)' = {}
    <3>1. <<d, n>> \in NamesOf(i) /\ \A p \in NamesOf(i) : p = <<d, n>>
      BY <1>1, <2>1, NamesAre DEF OneName
    <3> QED  BY <1>4, <3>1
  <2>3. i \notin InTree' /\ InTree' = InTree \ {i}
    BY <1>5, <2>2
  <2>4. Counted({d})' /\ links'[d] = Count(d)' + 1
    BY <1>4, <1>6, <1>13, <2>1, <2>3 DEF Counted
  <2>5. Orphaned(i, "dir", d)'
    BY <1>4, <1>5, <1>9, <2>1, <2>3, <2>4 DEF Orphaned
  <2>6. Tallied({i}, 0)'
    BY <1>4, <2>3 DEF Tallied
  <2>7. AtClear'
    BY <1>2, <1>3, <1>7, <1>8, <2>1, <2>5, <2>6 DEF AtClear
  <2> QED  BY <2>7 DEF Inv, Working
<1> QED  BY <1>10, <1>11, <1>12

\* The old name of a renamed inode is taken.
LEMMA MovesStep ==
    ASSUME Core, Core', harm # "torn", harm' = harm, Tallied({}, 0), next = <<>>,
           NEW i \in Inodes, NEW fd \in Inodes, NEW td \in Inodes,
           NEW fn \in Names, NEW tn \in Names, HasBoth(i, fd, fn, td, tn),
           IsDir(fd), entries[fd][fn] = i, i # fd, i # Root, <<fd, fn>> # <<td, tn>>,
           entries' = [entries EXCEPT ![fd][fn] = None], todo' = Tail(todo),
           next' = next, before' = before, allocated' = allocated, usedDirs' = usedDirs,
           kind' = kind, links' = links, dotdot' = dotdot
    PROVE  Inv'
<1>1. /\ before = [entries EXCEPT ![td][tn] = None] /\ entries[td][tn] = i
      /\ OneName({i}) /\ Parented({i}) /\ Counted({i, td})
      /\ IsDir(i) => i # td /\ NamesOf(i) = {<<fd, fn>>, <<td, tn>>} /\ dotdot[i] = fd
      /\ IsDir(i) => links[i] = Count(i) /\ links[td] + 1 = Count(td)
      /\ ~ IsDir(i) => links[i] + 1 = Count(i) /\ links[td] = Count(td)
  BY DEF HasBoth
<1>2. todo' = IF IsDir(i) /\ fd # td THEN <<Point(i, td), DropLink(fd), AddLink(td)>>
                                     ELSE <<>>
  BY Writes DEF HasBoth
<1>3. NamesOf(i)' = NamesOf(i) \ {<<fd, fn>>}
  BY TakenTree
<1>4. <<td, tn>> \in NamesOf(i)'
  BY <1>1, <1>3, NamesAre
<1>5. InTree' = InTree
  <2>1. NamesOf(i)' # {}
    BY <1>4
  <2> QED  BY <2>1, TakenTree
<1>6. i \in InTree /\ fd \in InTree /\ InTree \subseteq Inodes
  <2>1. i \in InTree
    BY TakenTree
  <2>2. fd \in InTree
    BY TakenTree
  <2>3. InTree \subseteq Inodes
    BY TakenTree
  <2> QED  BY <2>1, <2>2, <2>3
<1>7. \A j \in Inodes \ {i} : NamesOf(j)' = NamesOf(j)
  BY TakenTree
<1>8. AllDirs' = AllDirs /\ \A j : IsDir(j)' <=> IsDir(j)
  BY TakenTree
<1>9. /\ IsDir(i) => Count(i)' = Count(i) /\ Count(fd)' = Count(fd) - 1
      /\ ~ IsDir(i) => Count(i)' = Count(i) - 1 /\ Count(fd)' = Count(fd)
  BY TakenCounts
<1>10. \A j \in Inodes \ {i, fd} : Count(j)' = Count(j)
  BY TakenCounts
<1>11. td \in InTree
  <2>1. ~ IsEmpty(td)
    BY <1>1, Numbers DEF IsEmpty, NoNames
  <2> QED  BY <2>1 DEF Core
<1>12. Tallied({}, 0)'
  BY <1>5, <1>8 DEF Tallied
<1>13. \A j \in InTree : /\ j \notin {i, td} => links[j] = Count(j)
                         /\ Count(j) \in Nat /\ links[j] \in Nat
  <2>1. TypeOK
    BY DEF Core
  <2> QED  BY <1>1, <1>6, <2>1, Countable, TypeFacts DEF Counted
<1>14. CASE ~ IsDir(i)
  <2>1. OneName({})' /\ Parented({})'
    BY <1>1, <1>7, <1>8, <1>14 DEF OneName, Parented
  <2>2. \A j \in InTree : links[j] = Count(j)'
    BY <1>1, <1>6, <1>9, <1>10, <1>11, <1>13, <1>14
  <2>3. Counted({})'
    BY <1>5, <2>2 DEF Counted
  <2>4. todo' = <<>> /\ next' = <<>>
    BY <1>2, <1>14
  <2> QED  BY <1>12, <2>1, <2>3, <2>4 DEF Inv, Rest, TreeExact, MayMove
<1>15. CASE IsDir(i)
  <2>1. NamesOf(i)' = {<<td, tn>>}
    BY <1>1, <1>3, <1>15
  <2>2. OneName({})'
    BY <1>1, <1>7, <1>8, <2>1 DEF OneName
  <2>3. CASE fd = td
    <3>1. Parented({})'
      BY <1>1, <1>7, <1>8, <1>15, <2>1, <2>3 DEF Parented
    <3>2. \A j \in InTree : links[j] = Count(j)'
      BY <1>1, <1>6, <1>9, <1>10, <1>11, <1>13, <1>15, <2>3
    <3>3. Counted({})'
      BY <1>5, <3>2 DEF Counted
    <3>4. todo' = <<>> /\ next' = <<>>
      BY <1>2, <2>3
    <3> QED  BY <1>12, <2>2, <3>1, <3>3, <3>4 DEF Inv, Rest, TreeExact, MayMove
  <2>4. CASE fd # td
    <3>1. Parented({i})'
      BY <1>1, <1>7, <1>8 DEF Parented
    <3>2. \A j \in InTree \ {fd, td} : links[j] = Count(j)'
      BY <1>1, <1>6, <1>9, <1>10, <1>13, <1>15
    <3>3. Counted({fd, td})'
      BY <1>5, <3>2 DEF Counted
    <3>4. links'[fd] = Count(fd)' + 1
      BY <1>6, <1>9, <1>13, <1>15, <2>4
    <3>5. links'[td] + 1 = Count(td)'
      BY <1>1, <1>10, <1>15, <2>4
    <3>6. entries' # before'
      <4>1. before[td][tn] = None
        BY <1>1 DEF Core, TypeOK
      <4>2. entries'[td][tn] = i
        BY <1>4 DEF NamesOf
      <4> QED  BY <4>1, <4>2, Numbers
    <3>7. todo' = <<Point(i, td), DropLink(fd), AddLink(td)>>
      BY <1>2, <1>15, <2>4
    <3>8. AtPoint'
      <4>1. \A p \in NamesOf(i)' : p[1] = td
        BY <2>1
      <4>2. fd \in InTree' /\ td \in InTree'
        BY <1>5, <1>6, <1>11
      <4> QED  BY <1>12, <2>2, <2>4, <3>1, <3>3, <3>4, <3>5, <3>6, <3>7, <4>1, <4>2
               DEF AtPoint
    <3> QED  BY <3>8 DEF Inv, Working
  <2> QED  BY <2>3, <2>4
<1> QED  BY <1>14, <1>15

\* unlink_from takes the name a call wants gone.
LEMMA TakeNameStep ==
    ASSUME Inv, NEW d \in Inodes, NEW n \in Names, DoTakeName(d, n)  PROVE  Inv'
<1>1. /\ Do(TakeName(d, n)) /\ entries' = [entries EXCEPT ![d][n] = None]
      /\ allocated' = allocated /\ usedDirs' = usedDirs /\ kind' = kind /\ links' = links
      /\ dotdot' = dotdot /\ indexed' = indexed
  BY DEF DoTakeName, inodeVars
<1>2. /\ AtTakeName /\ Head(todo) = TakeName(d, n) /\ todo' = Tail(todo) /\ harm # "torn"
      /\ next' = next /\ before' = before /\ gone' = gone /\ harm' = harm
      /\ failures' = failures
  BY <1>1, StageOf, WriteTags
<1>3. Core /\ TypeOK
  BY DEF Inv, Core
<1>4. TypeOK'
  BY <1>1, <1>2, <1>3, Numbers DEF TypeOK
<1>5. \A e \in Inodes, m \in Names : entries[e][m] # None =>
         /\ entries[e][m] \in Inodes \ {Root, e} /\ IsDir(e)
  <2>1. \A e \in Inodes, m \in Names : entries[e][m] \in Inodes \cup {None}
    BY <1>3, TypeFacts
  <2> QED  BY <1>3, <2>1, NamesAre DEF Core, NamesPointAtInodes
<1>6. CASE Removes
  <2>1. PICK i, e \in Inodes, m \in Names :
           /\ entries[e][m] = i /\ gone = i /\ WillMove(e, m)
           /\ TakesLast(i, e, m) \/ TakesOne(i, e, m) \/ TakesDir(i, e, m)
    BY <1>6 DEF Removes
  <2>2. TakeName(d, n) = TakeName(e, m)
    BY <1>2, <2>1, Writes DEF TakesLast, TakesOne, TakesDir
  <2>3. e = d /\ m = n
    BY <2>2, WriteArguments
  <2>4. /\ entries[d][n] = i /\ gone = i /\ WillMove(d, n)
        /\ TakesLast(i, d, n) \/ TakesOne(i, d, n) \/ TakesDir(i, d, n)
    BY <2>1, <2>3
  <2>5. i # d /\ i # Root /\ IsDir(d)
    BY <1>5, <2>4, Numbers
  <2>6. entries = before /\ TreeExact /\ Tallied({}, 0)
    BY <1>6 DEF Removes
  <2>7. NamesOf(i)' # {} \/ (gone = i /\ IsEmpty(i))
    <3>1. CASE TakesLast(i, d, n)
      BY <1>3, <2>4, <3>1, NotDirEmpty DEF TakesLast, IsDir
    <3>2. CASE TakesOne(i, d, n)
      <4>1. ~ IsDir(i) /\ links[i] > 1 /\ i \in InTree
        BY <3>2, <2>4, NamesAre DEF TakesOne, IsDir, InTree
      <4>2. Cardinality(NamesOf(i)) > 1
        BY <2>6, <4>1 DEF TreeExact, Counted, Count
      <4>3. NamesOf(i) # {<<d, n>>}
        <5>1. Cardinality({<<d, n>>}) = 1
          BY FS_Singleton
        <5> QED  BY <4>2, <5>1
      <4>4. NamesOf(i) # {}
        BY <2>4, NamesAre
      <4>5. PICK p \in NamesOf(i) : p # <<d, n>>
        BY <4>3, <4>4
      <4>6. NamesOf(i)' = NamesOf(i) \ {<<d, n>>}
        BY <1>1, <1>3, <2>4, <2>5, TakenTree
      <4> QED  BY <4>5, <4>6
    <3>3. CASE TakesDir(i, d, n)
      BY <2>4, <3>3 DEF TakesDir
    <3> QED  BY <2>4, <3>1, <3>2, <3>3
  <2>8. Core'
    BY <1>1, <1>2, <1>3, <1>4, <2>4, <2>5, <2>7, TakeNameCore
  <2> QED  BY <1>1, <1>2, <1>3, <2>4, <2>5, <2>6, <2>8, RemovesStep
<1>7. CASE Moves
  <2>1. PICK i, fd, td \in Inodes, fn, tn \in Names : HasBoth(i, fd, fn, td, tn)
    BY <1>7 DEF Moves
  <2>2. TakeName(d, n) = TakeName(fd, fn)
    BY <1>2, <2>1, Writes DEF HasBoth
  <2>3. fd = d /\ fn = n
    BY <2>2, WriteArguments
  <2>4. <<fd, fn>> # <<td, tn>> /\ entries[fd][fn] = i /\ entries[td][tn] = i
    <3>1. /\ before = [entries EXCEPT ![td][tn] = None]
          /\ before[fd][fn] = i /\ entries[td][tn] = i
      BY <2>1 DEF HasBoth
    <3>2. \A e \in Inodes, m \in Names :
             before[e][m] = IF <<e, m>> = <<td, tn>> THEN None ELSE entries[e][m]
      BY <1>3, <3>1 DEF TypeOK
    <3> QED  BY <3>1, <3>2, Numbers
  <2>5. i # d /\ i # Root /\ IsDir(d)
    BY <1>5, <2>3, <2>4, Numbers
  <2>6. Tallied({}, 0) /\ next = <<>>
    BY <1>7 DEF Moves
  <2>7. NamesOf(i)' # {}
    <3>1. NamesOf(i)' = NamesOf(i) \ {<<d, n>>}
      BY <1>1, <1>3, <2>3, <2>4, <2>5, TakenTree
    <3> QED  BY <2>3, <2>4, <3>1, NamesAre
  <2>8. Core'
    BY <1>1, <1>2, <1>3, <1>4, <2>3, <2>4, <2>5, <2>7, TakeNameCore
  <2> QED  BY <1>1, <1>2, <1>3, <2>1, <2>3, <2>4, <2>5, <2>6, <2>8, MovesStep
<1> QED  BY <1>2, <1>6, <1>7 DEF AtTakeName

(***************************************************************************)
(* Calls begin.                                                            *)
(***************************************************************************)
\* What can be reached has a name, or is the root.
LEMMA ReachableNamed ==
    ASSUME Core  PROVE  Reachable \subseteq InTree /\ Dirs \subseteq Inodes \cap InTree
<1>1. TypeOK /\ InTree \in SUBSET Inodes
  BY TypeFacts DEF Core
<1>2. HoldsTree(InTree)
  <2>1. ASSUME NEW d \in InTree, NEW n \in Names, entries[d][n] # None
        PROVE  entries[d][n] \in InTree
    <3>1. d \in Inodes /\ entries[d][n] \in Inodes
      BY <1>1, <2>1, TypeFacts
    <3>2. <<d, n>> \in NamesOf(entries[d][n])
      BY <3>1, NamesAre
    <3> QED  BY <3>1, <3>2 DEF InTree
  <2> QED  BY <2>1 DEF HoldsTree, InTree
<1>3. Reachable \subseteq InTree
  BY <1>1, <1>2 DEF Reachable
<1> QED  BY <1>1, <1>3 DEF Dirs

\* Between calls all is exact, unless a call left the tree half changed.
LEMMA AtRest ==
    ASSUME Inv, todo = <<>>  PROVE  Core /\ Rest
<1>1. ~ Working
  BY Stages DEF Working
<1> QED  BY <1>1 DEF Inv

\* A call that begins changes nothing yet.
LEMMA Begun ==
    ASSUME Core, TreeExact, Tallied({}, 0), NEW g \in Inodes \cup {None}, gone' = g,
           before' = entries, harm' = harm, failures' = failures,
           UNCHANGED <<inodeVars, dirVars>>
    PROVE  /\ Core' /\ TreeExact' /\ Tallied({}, 0)' /\ entries' = before'
           /\ entries' = entries /\ allocated' = allocated /\ kind' = kind
           /\ links' = links /\ dotdot' = dotdot
           /\ \A i : (IsDir(i)' <=> IsDir(i)) /\ (IsEmpty(i)' <=> IsEmpty(i))
           /\ \A i : NamesOf(i)' = NamesOf(i)
           /\ InTree' = InTree
<1>1. /\ entries' = entries /\ kind' = kind /\ links' = links /\ dotdot' = dotdot
      /\ allocated' = allocated /\ usedDirs' = usedDirs /\ indexed' = indexed
  BY DEF inodeVars, dirVars
<1>2. UNCHANGED <<entries, kind>> /\ UNCHANGED <<usedDirs, allocated, harm>>
  BY <1>1
<1>3. TreeExact' /\ Tallied({}, 0)'
  BY <1>1, <1>2, SameExact DEF TreeExact
<1>4. /\ \A i : NamesOf(i)' = NamesOf(i) /\ InTree' = InTree
      /\ \A i : (IsDir(i)' <=> IsDir(i)) /\ (IsEmpty(i)' <=> IsEmpty(i))
  BY <1>2, SameTree
<1>5. TypeOK'
  BY <1>1 DEF Core, TypeOK
<1>6. NamesPointAtInodes'
  BY <1>1 DEF Core, NamesPointAtInodes, IsDir
<1>7. NoNameLost'
  <2>1. \A d \in Inodes, n \in Names : <<d, n>> \in NamesOf(entries[d][n])
    BY NamesAre
  <2> QED  BY <1>4, <2>1 DEF NoNameLost
<1>8. Core'
  BY <1>1, <1>4, <1>5, <1>6, <1>7 DEF Core
<1> QED  BY <1>1, <1>3, <1>4, <1>8

\* A new name waits for its inode.
LEMMA NewBegins ==
    ASSUME Inv, Idle, NEW d \in Dirs, NEW n \in Names, NEW k \in {"dir", "file"},
           Vacant(d, n), FreeInodes # {},
           Begin(IF k = "dir" THEN MkdirWrites(d, n, Least(FreeInodes))
                              ELSE CreateWrites(d, n, Least(FreeInodes)), <<>>, None)
    PROVE  Inv'
<1>1. /\ Core /\ Rest /\ TreeExact /\ Tallied({}, 0) /\ harm # "torn"
      /\ d \in Inodes /\ d \in InTree /\ IsDir(d) /\ entries[d][n] = None
  BY AtRest, ReachableNamed DEF Idle, Rest, Dirs, Vacant
<1> DEFINE i == Least(FreeInodes)
<1>2. i \in Inodes /\ i \notin allocated
  <2>1. FreeInodes \in SUBSET Nat
    BY Numbers DEF FreeInodes
  <2>2. i \in FreeInodes
    BY <2>1, LeastIsOne
  <2> QED  BY <2>2 DEF FreeInodes
<1> HIDE DEF i
<1>3. /\ todo' = IF k = "dir"
                 THEN <<Allocate(i, k), Make(i, k, d), AddName(d, n, i), AddLink(d)>>
                 ELSE <<Allocate(i, k), Make(i, k, d), AddName(d, n, i)>>
      /\ next' = <<>> /\ gone' = None /\ before' = entries /\ harm' = harm
      /\ failures' = failures /\ UNCHANGED <<inodeVars, dirVars>>
  BY DEF Begin, MkdirWrites, CreateWrites, i
<1>4. /\ Core' /\ TreeExact' /\ Tallied({}, 0)' /\ entries' = before'
      /\ entries' = entries /\ allocated' = allocated
      /\ (IsDir(d)' <=> IsDir(d)) /\ InTree' = InTree
  BY <1>1, <1>3, Begun
<1>5. i \notin allocated' /\ d \in InTree' /\ IsDir(d)' /\ entries'[d][n] = None
  BY <1>1, <1>2, <1>4
<1>6. AtAllocate'
  BY <1>1, <1>2, <1>3, <1>4, <1>5 DEF AtAllocate
<1> QED  BY <1>1, <1>3, <1>4, <1>6 DEF Inv, Working

\* link is to give a file one more name.
LEMMA LinkBegins ==
    ASSUME Inv, NEW i \in Reachable, NEW d \in Dirs, NEW n \in Names, Link(i, d, n)
    PROVE  Inv'
<1>1. /\ Core /\ Rest /\ TreeExact /\ Tallied({}, 0) /\ harm # "torn"
      /\ d \in Inodes /\ d \in InTree /\ IsDir(d) /\ entries[d][n] = None
      /\ i \in InTree /\ i \in Inodes /\ ~ IsDir(i)
  BY AtRest, ReachableNamed DEF Link, Idle, Rest, Dirs, Vacant, Reachable
<1>2. kind[i] = "file"
  <2>1. TypeOK /\ i # Root
    BY <1>1 DEF Core
  <2>2. PICK p \in NamesOf(i) : TRUE
    BY <1>1, <2>1 DEF InTree
  <2>3. p[1] \in Inodes /\ p[2] \in Names /\ entries[p[1]][p[2]] = i /\ i # None
    BY <1>1, <2>2, NamesAre, Numbers
  <2>4. kind[i] # "none"
    BY <1>1, <2>3 DEF Core, NamesPointAtInodes
  <2> QED  BY <1>1, <2>1, <2>4, TypeFacts DEF IsDir
<1>3. /\ todo' = <<AddName(d, n, i), AddLink(i)>>
      /\ next' = <<>> /\ gone' = None /\ before' = entries /\ harm' = harm
      /\ failures' = failures /\ UNCHANGED <<inodeVars, dirVars>>
  BY DEF Link, Begin, LinkWrites
<1>4. /\ Core' /\ TreeExact' /\ Tallied({}, 0)' /\ entries' = before'
      /\ entries' = entries /\ kind' = kind
      /\ (IsDir(d)' <=> IsDir(d)) /\ InTree' = InTree
  BY <1>1, <1>3, Begun
<1>5. NamesAgain(i, d, n)'
  BY <1>1, <1>2, <1>3, <1>4 DEF NamesAgain
<1>6. AtAddName'
  BY <1>1, <1>3, <1>4, <1>5 DEF AtAddName
<1> QED  BY <1>1, <1>3, <1>4, <1>6 DEF Inv, Working

\* A call is to take a name.
LEMMA RemoveReady ==
    ASSUME Core', TreeExact', Tallied({}, 0)', entries' = before', harm' # "torn",
           NEW d \in Inodes, NEW n \in Names, NEW i \in Inodes, entries'[d][n] = i,
           gone' = i, WillMove(d, n)',
           TakesLast(i, d, n)' \/ TakesOne(i, d, n)' \/ TakesDir(i, d, n)'
    PROVE  Inv'
<1>1. Removes'
  BY DEF Removes
<1> QED  BY <1>1 DEF Inv, Working, AtTakeName

\* A name is to be taken, for good or so that a rename may go on.
LEMMA RemoveBegins ==
    ASSUME Inv, Idle, NEW d \in Inodes, NEW n \in Names, NEW after,
           entries[d][n] # None,
           Begin(IF IsDir(entries[d][n]) THEN RmdirWrites(d, n) ELSE UnlinkWrites(d, n),
                 after, entries[d][n]),
           IsDir(entries[d][n]) => IsEmpty(entries[d][n]),
           after # <<>> =>
               \E j, fd \in Inodes, fn \in Names :
                   Moving(after, j, fd, fn, d, n) /\ j # entries[d][n]
    PROVE  Inv'
<1>0. PICK i : i = entries[d][n]
  OBVIOUS
<1>1. /\ Core /\ Rest /\ TreeExact /\ Tallied({}, 0) /\ harm # "torn" /\ TypeOK
  BY AtRest DEF Idle, Rest, Core
<1>2. i \in Inodes /\ i \in InTree /\ <<d, n>> \in NamesOf(i) /\ kind[i] \in {"dir", "file"}
  <2>1. i \in Inodes /\ kind[i] # "none"
    BY <1>0, <1>1, TypeFacts DEF Core, NamesPointAtInodes
  <2>2. <<d, n>> \in NamesOf(i)
    BY <1>0, NamesAre
  <2> QED  BY <1>1, <2>1, <2>2, TypeFacts DEF InTree
<1>3. /\ todo' = IF IsDir(i) THEN RmdirWrites(d, n) ELSE UnlinkWrites(d, n)
      /\ next' = after /\ gone' = i /\ before' = entries /\ harm' = harm
      /\ failures' = failures /\ UNCHANGED <<inodeVars, dirVars>>
  BY <1>0 DEF Begin
<1>4. /\ Core' /\ TreeExact' /\ Tallied({}, 0)' /\ entries' = before'
      /\ entries' = entries /\ kind' = kind /\ links' = links
      /\ \A j : (IsDir(j)' <=> IsDir(j)) /\ (IsEmpty(j)' <=> IsEmpty(j))
      /\ \A j : NamesOf(j)' = NamesOf(j)
      /\ InTree' = InTree
  BY <1>1, <1>2, <1>3, Begun
<1>5. WillMove(d, n)'
  <2>1. ASSUME next' # <<>>
        PROVE  \E j, fd \in Inodes, fn \in Names :
                  Moving(next, j, fd, fn, d, n)' /\ j # entries'[d][n]
    <3>1. PICK j, fd \in Inodes, fn \in Names :
             Moving(after, j, fd, fn, d, n) /\ j # entries[d][n]
      BY <1>3, <2>1
    <3>2. Renames(next, j, fd, fn, d, n)'
      BY <1>3, <1>4, <3>1 DEF Moving, Renames
    <3>3. Moving(next, j, fd, fn, d, n)'
      BY <1>4, <3>1, <3>2 DEF Moving
    <3> QED  BY <1>4, <3>1, <3>3
  <2> QED  BY <2>1 DEF WillMove
<1>6. CASE IsDir(i)
  <2>1. todo' = <<TakeName(d, n), Clear(i), Free(i, "dir"), DropLink(d)>>
    BY <1>0, <1>3, <1>6 DEF RmdirWrites
  <2>2. kind'[i] = "dir" /\ IsEmpty(i)'
    BY <1>0, <1>4, <1>6 DEF IsDir
  <2> QED  BY <2>1, <2>2, RemoveReady, <1>0, <1>1, <1>2, <1>3, <1>4, <1>5 DEF TakesDir
<1>7. CASE ~ IsDir(i)
  <2>1. kind[i] = "file"
    BY <1>2, <1>7 DEF IsDir
  <2>2. CASE links[i] <= 1
    <3>1. todo' = <<TakeName(d, n), Clear(i), Free(i, "file")>>
      BY <1>0, <1>3, <1>7, <2>2 DEF UnlinkWrites
    <3>2. NamesOf(i) = {<<d, n>>}
      <4>1. Cardinality(NamesOf(i)) <= 1
        BY <1>1, <1>2, <1>7, <2>2 DEF TreeExact, Counted, Count
      <4>2. Cardinality(NamesOf(i)) \in Nat /\ IsFiniteSet(NamesOf(i))
        BY Countable
      <4>3. Cardinality(NamesOf(i)) # 0
        BY <1>2, <4>2, FS_EmptySet
      <4>4. Cardinality(NamesOf(i)) = 1
        BY <4>1, <4>2, <4>3
      <4>5. \E x : NamesOf(i) = {x}
        BY <4>2, <4>4, FS_Singleton
      <4> QED  BY <1>2, <4>5
    <3>3. TakesLast(i, d, n)'
      BY <1>4, <2>1, <3>1, <3>2 DEF TakesLast
    <3> QED  BY <1>0, <1>1, <1>2, <1>3, <1>4, <1>5, <3>3, RemoveReady
  <2>3. CASE ~ (links[i] <= 1)
    <3>1. todo' = <<TakeName(d, n), DropLink(i)>>
      BY <1>0, <1>3, <1>7, <2>3 DEF UnlinkWrites
    <3>2. links[i] > 1
      BY <1>1, <1>2, <2>3, TypeFacts
    <3>3. TakesOne(i, d, n)'
      BY <1>4, <2>1, <3>1, <3>2 DEF TakesOne
    <3> QED  BY <1>0, <1>1, <1>2, <1>3, <1>4, <1>5, <3>3, RemoveReady
  <2> QED  BY <2>2, <2>3
<1> QED  BY <1>6, <1>7

\* unlink begins.
LEMMA UnlinkBegins ==
    ASSUME Inv, NEW d \in Dirs, NEW n \in Names, Unlink(d, n)  PROVE  Inv'
<1>1. Core
  BY AtRest DEF Unlink, Idle
<1>2. /\ d \in Inodes /\ Idle /\ entries[d][n] # None /\ ~ IsDir(entries[d][n])
      /\ Begin(UnlinkWrites(d, n), <<>>, entries[d][n])
  BY <1>1, ReachableNamed DEF Unlink
<1> QED  BY <1>2, RemoveBegins

\* rmdir begins: the directory is empty.
LEMMA RmdirBegins ==
    ASSUME Inv, NEW d \in Dirs, NEW n \in Names, Rmdir(d, n)  PROVE  Inv'
<1>1. Core
  BY AtRest DEF Rmdir, Idle
<1>2. /\ d \in Inodes /\ Idle /\ entries[d][n] # None /\ IsDir(entries[d][n])
      /\ IsEmpty(entries[d][n])
      /\ Begin(RmdirWrites(d, n), <<>>, entries[d][n])
  BY <1>1, ReachableNamed DEF Rmdir, CanRmdir
<1> QED  BY <1>2, RemoveBegins

(***************************************************************************)
(* rename.                                                                 *)
(***************************************************************************)
\* The climb of is_ancestor is a function: one step from one directory to the next.
LEMMA ClimbIs ==
    ASSUME NEW of
    PROVE  \E g : g = [k \in 0 .. AncestorSteps |->
                          IF k = 0 THEN of
                          ELSE LET at == g[k - 1] IN IF at = Root THEN Root ELSE dotdot[at]]
<1> DEFINE Up(at) == IF at = Root THEN Root ELSE dotdot[at]
           Climbs(p, g) == g = [k \in 0 .. p |-> IF k = 0 THEN of ELSE Up(g[k - 1])]
           T == {p \in Nat : \E g : Climbs(p, g)}
<1>1. 0 \in T
  <2>1. Climbs(0, [k \in 0 .. 0 |-> of])
    OBVIOUS
  <2> QED  BY <2>1
<1>2. ASSUME NEW p \in Nat, p \in T  PROVE  p + 1 \in T
  <2>1. PICK g : Climbs(p, g)
    BY <1>2
  <2> DEFINE h == [k \in 0 .. p + 1 |-> IF k = p + 1 THEN Up(g[p]) ELSE g[k]]
  <2>2. \A k \in 0 .. p : h[k] = g[k]
    OBVIOUS
  <2>3. h[p + 1] = Up(h[p])
    BY <2>2
  <2>4. \A k \in 0 .. p : g[k] = IF k = 0 THEN of ELSE Up(g[k - 1])
    BY <2>1
  <2>5. h = [k \in 0 .. p + 1 |-> h[k]]
    OBVIOUS
  <2> HIDE DEF h, Up
  <2>6. \A k \in 0 .. p + 1 : h[k] = IF k = 0 THEN of ELSE Up(h[k - 1])
    <3> TAKE k \in 0 .. p + 1
    <3>1. CASE k = p + 1
      BY <3>1, <2>3
    <3>2. CASE k \in 0 .. p
      <4>1. k # 0 => k - 1 \in 0 .. p
        BY <3>2
      <4> QED  BY <2>2, <2>4, <3>2, <4>1
    <3> QED  BY <3>1, <3>2
  <2>7. Climbs(p + 1, h)
    BY <2>5, <2>6
  <2> QED  BY <2>7
<1> HIDE DEF T
<1>3. AncestorSteps \in T
  BY <1>1, <1>2, NumbersReached, NamesAssumption
<1> QED  BY <1>3 DEF T

\* A directory counts as its own ancestor, so it is not moved into itself.
LEMMA OwnAncestor ==
    ASSUME NEW i  PROVE  IsAncestor(i, i)
<1>1. \E g : g = [k \in 0 .. AncestorSteps |->
                     IF k = 0 THEN i
                     ELSE LET at == g[k - 1] IN IF at = Root THEN Root ELSE dotdot[at]]
  BY ClimbIs
<1>2. 0 \in 0 .. AncestorSteps - 1 /\ 0 \in 0 .. AncestorSteps
  BY NamesAssumption
<1> QED  BY <1>1, <1>2 DEF IsAncestor

\* The writes of a rename, one after the other.
LEMMA RenameIs ==
    ASSUME NEW fd \in Inodes, NEW td \in Inodes, NEW fn \in Names, NEW tn \in Names
    PROVE  Renames(RenameWrites(fd, fn, td, tn), entries[fd][fn], fd, fn, td, tn)
BY WritesJoined DEF Renames, RenameWrites, ParentWrites

\* A rename is to give an inode its second name.
LEMMA MoveReady ==
    ASSUME Core', TreeExact', Tallied({}, 0)', entries' = before', harm' # "torn",
           next' = <<>>, NEW i \in Inodes, NEW fd \in Inodes, NEW td \in Inodes,
           NEW fn \in Names, NEW tn \in Names,
           Moving(todo, i, fd, fn, td, tn)', entries'[td][tn] = None
    PROVE  Inv'
<1>1. NamesMoved(i, td, tn)'
  BY DEF Moving, NamesMoved
<1>2. td \in InTree' /\ IsDir(td)'
  BY DEF Moving
<1>3. AtAddName'
  BY <1>1, <1>2 DEF AtAddName
<1> QED  BY <1>3 DEF Inv, Working

\* rename begins, with its own writes or with what clears its destination.
LEMMA RenameBegins ==
    ASSUME Inv, NEW fd \in Dirs, NEW td \in Dirs, NEW fn \in Names, NEW tn \in Names,
           Rename(fd, fn, td, tn)
    PROVE  Inv'
<1> DEFINE i == entries[fd][fn]
           e == entries[td][tn]
<1>1. /\ Idle /\ i # None /\ e # i
      /\ IsDir(i) => ~ IsAncestor(i, td)
      /\ e # None /\ IsDir(e) => IsEmpty(e)
      /\ e = None => Begin(RenameWrites(fd, fn, td, tn), <<>>, None)
      /\ e # None => Begin(IF IsDir(e) THEN RmdirWrites(td, tn) ELSE UnlinkWrites(td, tn),
                           RenameWrites(fd, fn, td, tn), e)
  BY DEF Rename, CanRmdir
<1>2. /\ Core /\ Rest /\ TreeExact /\ Tallied({}, 0) /\ harm # "torn" /\ TypeOK
  BY <1>1, AtRest DEF Idle, Rest, Core
<1>3. fd \in Inodes /\ td \in Inodes /\ td \in InTree /\ IsDir(td)
  BY <1>2, ReachableNamed DEF Dirs
<1>4. i \in Inodes
  BY <1>1, <1>2, <1>3, TypeFacts
<1>5. Moving(RenameWrites(fd, fn, td, tn), i, fd, fn, td, tn)
  <2>1. Renames(RenameWrites(fd, fn, td, tn), i, fd, fn, td, tn)
    BY <1>3, RenameIs
  <2>2. IsDir(i) => i # td
    BY <1>1, OwnAncestor
  <2> QED  BY <1>3, <2>1, <2>2 DEF Moving
<1>6. CASE e = None
  <2>1. /\ todo' = RenameWrites(fd, fn, td, tn)
        /\ next' = <<>> /\ gone' = None /\ before' = entries /\ harm' = harm
        /\ failures' = failures /\ UNCHANGED <<inodeVars, dirVars>>
    BY <1>1, <1>6 DEF Begin
  <2>2. /\ Core' /\ TreeExact' /\ Tallied({}, 0)' /\ entries' = before'
        /\ entries' = entries
        /\ \A j : (IsDir(j)' <=> IsDir(j))
        /\ InTree' = InTree
    BY <1>2, <2>1, Begun
  <2>3. Renames(todo, i, fd, fn, td, tn)'
    BY <1>5, <2>1, <2>2 DEF Moving, Renames
  <2>4. Moving(todo, i, fd, fn, td, tn)'
    BY <1>5, <2>2, <2>3 DEF Moving
  <2> QED  BY <1>2, <1>3, <1>4, <1>6, <2>1, <2>2, <2>4, MoveReady
<1>7. CASE e # None
  BY <1>1, <1>3, <1>4, <1>5, <1>7, RemoveBegins
<1> QED  BY <1>6, <1>7

\* rename goes on once its destination is cleared.
LEMMA RenameGoesOnStep ==
    ASSUME Inv, RenameGoesOn  PROVE  Inv'
<1>1. /\ todo = <<>> /\ next # <<>> /\ todo' = next /\ next' = <<>>
      /\ before' = entries /\ gone' = None /\ harm' = harm /\ failures' = failures
      /\ UNCHANGED <<inodeVars, dirVars>>
  BY DEF RenameGoesOn
<1>2. Core /\ harm # "torn" /\ TreeExact /\ Tallied({}, 0) /\ MayMove
  BY <1>1, AtRest DEF Rest
<1>3. PICK i, fd, td \in Inodes, fn, tn \in Names :
         Moving(next, i, fd, fn, td, tn) /\ entries[td][tn] = None
  BY <1>1, <1>2 DEF MayMove
<1>4. /\ Core' /\ TreeExact' /\ Tallied({}, 0)' /\ entries' = before'
      /\ entries' = entries
      /\ \A j : (IsDir(j)' <=> IsDir(j))
      /\ InTree' = InTree
  BY <1>1, <1>2, Begun
<1>5. Renames(todo, i, fd, fn, td, tn)'
  BY <1>1, <1>3, <1>4 DEF Moving, Renames
<1>6. Moving(todo, i, fd, fn, td, tn)'
  BY <1>3, <1>4, <1>5 DEF Moving
<1> QED  BY <1>1, <1>2, <1>3, <1>4, <1>6, MoveReady

\* Where nothing moves, nothing is lost.
LEMMA Unmoved ==
    ASSUME Inv, allocated' = allocated, usedDirs' = usedDirs, kind' = kind, links' = links,
           entries' = entries, dotdot' = dotdot, indexed' = indexed,
           todo' = todo, next' = next, before' = before, gone' = gone,
           harm' = harm, failures' = failures
    PROVE  Inv'
<1>1. /\ \A S : OneName(S) => OneName(S)'
      /\ \A S : Parented(S) => Parented(S)'
      /\ \A S : Counted(S) => Counted(S)'
      /\ \A E, t : Tallied(E, t) => Tallied(E, t)'
      /\ MayMove => MayMove'
      /\ TreeExact => TreeExact'
  BY SameExact DEF TreeExact
<1>2. /\ \A i : NamesOf(i)' = NamesOf(i) /\ Count(i)' = Count(i)
      /\ \A i : (IsDir(i)' <=> IsDir(i)) /\ (IsEmpty(i)' <=> IsEmpty(i))
      /\ InTree' = InTree
  BY SameTree
<1>3. \A i, fd, fn, td, tn :
         /\ Renames(todo, i, fd, fn, td, tn) => Renames(todo, i, fd, fn, td, tn)'
         /\ Renames(next, i, fd, fn, td, tn) => Renames(next, i, fd, fn, td, tn)'
  BY <1>2 DEF Renames
<1>4. \A i, fd, fn, td, tn : Moving(next, i, fd, fn, td, tn) => Moving(next, i, fd, fn, td, tn)'
  BY <1>2, <1>3 DEF Moving
<1>5. \A d, n : WillMove(d, n) => WillMove(d, n)'
  BY <1>4 DEF WillMove
<1>6. Core => Core'
  <2>1. TypeOK => TypeOK'
    BY DEF TypeOK
  <2> QED  BY <2>1, SameCore DEF Core
<1>7. Rest => Rest'
  BY <1>1 DEF Rest
<1>8. AtAllocate => AtAllocate'
  BY <1>1, <1>2 DEF AtAllocate
<1>9. AtMake => AtMake'
  BY <1>1, <1>2 DEF AtMake
<1>10. AtAddName => AtAddName'
  <2>1. \A i, k, d, n : NamesNew(i, k, d, n) => NamesNew(i, k, d, n)'
    BY <1>1, <1>2 DEF NamesNew
  <2>2. \A i, d, n : NamesAgain(i, d, n) => NamesAgain(i, d, n)'
    BY <1>1, <1>2 DEF NamesAgain
  <2>3. \A i, d, n : NamesMoved(i, d, n) => NamesMoved(i, d, n)'
    BY <1>1, <1>2, <1>3 DEF NamesMoved
  <2> QED  BY <1>1, <1>2, <2>1, <2>2, <2>3 DEF AtAddName
<1>11. AtTakeName => AtTakeName'
  <2>1. \A i, d, n : TakesLast(i, d, n) => TakesLast(i, d, n)'
    BY <1>2 DEF TakesLast
  <2>2. \A i, d, n : TakesOne(i, d, n) => TakesOne(i, d, n)'
    BY DEF TakesOne
  <2>3. \A i, d, n : TakesDir(i, d, n) => TakesDir(i, d, n)'
    BY <1>2 DEF TakesDir
  <2>4. Removes => Removes'
    BY <1>1, <1>5, <2>1, <2>2, <2>3 DEF Removes
  <2>5. \A i, fd, fn, td, tn : HasBoth(i, fd, fn, td, tn) => HasBoth(i, fd, fn, td, tn)'
    BY <1>1, <1>2 DEF HasBoth
  <2>6. Moves => Moves'
    BY <1>1, <2>5 DEF Moves
  <2> QED  BY <2>4, <2>6 DEF AtTakeName
<1>12. AtPoint => AtPoint'
  BY <1>1, <1>2 DEF AtPoint
<1>13. AtDropLink => AtDropLink'
  <2>1. \A j : DropsLast(j) => DropsLast(j)'
    BY <1>1 DEF DropsLast
  <2>2. \A j : DropsParent(j) => DropsParent(j)'
    BY <1>1, <1>2 DEF DropsParent
  <2> QED  BY <1>1, <1>2, <2>1, <2>2 DEF AtDropLink
<1>14. AtAddLink => AtAddLink'
  BY <1>1, <1>2 DEF AtAddLink
<1>15. \A i, k, d : Orphaned(i, k, d) => Orphaned(i, k, d)'
  BY <1>1, <1>2 DEF Orphaned
<1>16. AtClear => AtClear'
  BY <1>1, <1>2, <1>15 DEF AtClear
<1>17. AtFree => AtFree'
  BY <1>1, <1>2, <1>15 DEF AtFree
<1>18. Working => Working'
  BY <1>8, <1>9, <1>10, <1>11, <1>12, <1>13, <1>14, <1>16, <1>17 DEF Working
<1> QED  BY <1>6, <1>7, <1>18 DEF Inv

(***************************************************************************)
(* Calls that fail.                                                        *)
(***************************************************************************)
\* A call that fails before it changed a name leaves all counts as they were, and
\* an inode more than it ought to, at worst.
LEMMA UnchangedNames ==
    ASSUME Inv, todo # <<>>, entries = before
    PROVE  TreeExact /\ usedDirs >= Cardinality(AllDirs)
<1>1. Working /\ Core /\ usedDirs \in Nat /\ Cardinality(AllDirs) \in Nat
  BY TypeFacts, Countable DEF Inv, Rest, Core
<1>2. \A E : \A t \in {0, 1} : Tallied(E, t) => usedDirs >= Cardinality(AllDirs)
  BY <1>1 DEF Tallied
<1>3. \A k : One(k) \in {0, 1}
  BY DEF One
<1>4. CASE AtAllocate
  BY <1>2, <1>4 DEF AtAllocate
<1>5. CASE AtMake
  BY <1>2, <1>3, <1>5 DEF AtMake
<1>6. CASE AtAddName
  BY <1>2, <1>6 DEF AtAddName, NamesNew, NamesAgain, NamesMoved
<1>7. CASE Removes
  BY <1>2, <1>7 DEF Removes
<1>8. ~ Moves
  <2> SUFFICES ASSUME Moves  PROVE  FALSE
    OBVIOUS
  <2>1. PICK i, fd, td \in Inodes, fn, tn \in Names : HasBoth(i, fd, fn, td, tn)
    BY DEF Moves
  <2>2. before = [entries EXCEPT ![td][tn] = None] /\ entries[td][tn] = i
    BY <2>1 DEF HasBoth
  <2>3. before[td][tn] = None
    BY <1>1, <2>2 DEF Core, TypeOK
  <2> QED  BY <2>2, <2>3, Numbers
<1>9. ~ AtPoint /\ ~ AtDropLink /\ ~ AtAddLink /\ ~ AtClear /\ ~ AtFree
  BY DEF AtPoint, AtDropLink, AtAddLink, AtClear, AtFree
<1> QED  BY <1>1, <1>4, <1>5, <1>6, <1>7, <1>8, <1>9 DEF Working, AtTakeName

\* A call fails: for want of room, for its name, for its "..", or by the device.
LEMMA FailsStep ==
    ASSUME Inv, todo # <<>>, Fails  PROVE  Inv'
<1>1. /\ failures < MaxFailures /\ failures' = failures + 1
      /\ todo' = <<>> /\ next' = <<>>
      /\ harm' = IF entries # before THEN "torn" ELSE "leak"
      /\ allocated' = allocated /\ usedDirs' = usedDirs /\ kind' = kind /\ links' = links
      /\ entries' = entries /\ dotdot' = dotdot /\ indexed' = indexed
      /\ before' = before /\ gone' = gone
  BY DEF Fails, inodeVars, dirVars
<1>2. Core /\ TypeOK /\ UNCHANGED <<entries, kind>>
  BY <1>1 DEF Inv, Core
<1>3. TypeOK'
  <2>1. failures' \in 0 .. MaxFailures
    BY <1>1, <1>2, Numbers DEF TypeOK
  <2> QED  BY <1>1, <1>2, <2>1 DEF TypeOK
<1>4. Core'
  BY <1>1, <1>2, <1>3, SameCore DEF Core
<1>5. Rest'
  <2>1. CASE entries # before
    BY <1>1, <2>1 DEF Rest
  <2>2. CASE entries = before
    <3>1. TreeExact /\ usedDirs >= Cardinality(AllDirs)
      BY <2>2, UnchangedNames
    <3>2. Counted({})' /\ OneName({})' /\ Parented({})'
      BY <1>1, <1>2, <3>1, SameExact DEF TreeExact
    <3>3. Tallied({}, 0)'
      <4>1. AllDirs' = AllDirs /\ harm' # "none"
        BY <1>1, <1>2, <2>2, SameTree
      <4>2. Cardinality(AllDirs) \in Nat
        BY Countable
      <4> QED  BY <1>1, <3>1, <4>1, <4>2 DEF Tallied
    <3> QED  BY <1>1, <3>2, <3>3 DEF Rest, TreeExact, MayMove
  <2> QED  BY <2>1, <2>2
<1> QED  BY <1>4, <1>5 DEF Inv

(***************************************************************************)
(* The invariant.                                                          *)
(***************************************************************************)
\* A new filesystem: the root alone.
LEMMA InitInv == Init => Inv
<1> SUFFICES ASSUME Init  PROVE  Inv
  OBVIOUS
<1>1. /\ allocated = {Root} /\ usedDirs = 1 /\ indexed = {}
      /\ kind = [i \in Inodes |-> IF i = Root THEN "dir" ELSE "none"]
      /\ links = [i \in Inodes |-> IF i = Root THEN 2 ELSE 0]
      /\ entries = [i \in Inodes |-> NoNames]
      /\ dotdot = [i \in Inodes |-> IF i = Root THEN Root ELSE None]
      /\ todo = <<>> /\ next = <<>> /\ before = entries /\ gone = None
      /\ harm = "none" /\ failures = 0
  BY DEF Init
<1>2. \A d \in Inodes, n \in Names : entries[d][n] = None
  BY <1>1 DEF NoNames
<1>3. TypeOK
  <2>1. NoNames \in [Names -> Inodes \cup {None}]
    BY DEF NoNames
  <2>2. links \in [Inodes -> 0 .. LinkModulus - 1]
    BY <1>1, Numbers
  <2> QED  BY <1>1, <2>1, <2>2, Numbers DEF TypeOK
<1>4. \A i \in Inodes : NamesOf(i) = {}
  BY <1>2, Numbers DEF NamesOf
<1>5. InTree = {Root}
  BY <1>4, Numbers DEF InTree
<1>6. \A i \in Inodes : IsEmpty(i) /\ (IsDir(i) <=> i = Root)
  BY <1>1 DEF IsEmpty, IsDir
<1>7. Core
  BY <1>1, <1>2, <1>3, <1>4, <1>6, Numbers DEF Core, NamesPointAtInodes, NoNameLost
<1>8. OneName({}) /\ Parented({})
  BY <1>4 DEF OneName, Parented
<1>9. Counted({})
  <2>1. Subdirs(Root) = {}
    BY <1>2, Numbers DEF Subdirs
  <2>2. Count(Root) = 2
    BY <1>6, <2>1, Numbers, FS_EmptySet DEF Count
  <2> QED  BY <1>1, <1>5, <2>2, Numbers DEF Counted
<1>10. Tallied({}, 0)
  <2>1. AllDirs = {Root}
    BY <1>6, Numbers DEF AllDirs
  <2>2. Cardinality(AllDirs) = 1
    BY <2>1, FS_Singleton
  <2> QED  BY <1>1, <1>5, <2>2 DEF Tallied
<1> QED  BY <1>1, <1>7, <1>8, <1>9, <1>10 DEF Inv, Rest, TreeExact, MayMove

\* Every step keeps the invariant, while link counts fit.
LEMMA NextInv == Inv /\ LinksFit /\ [Next]_vars => Inv'
<1> SUFFICES ASSUME Inv, LinksFit, [Next]_vars  PROVE  Inv'
  OBVIOUS
<1>1. CASE CallBegins
  <2>1. ASSUME NEW d \in Dirs, NEW n \in Names, Create(d, n)  PROVE  Inv'
    <3>1. /\ Idle /\ Vacant(d, n) /\ FreeInodes # {}
          /\ Begin(IF "file" = "dir" THEN MkdirWrites(d, n, Least(FreeInodes))
                   ELSE CreateWrites(d, n, Least(FreeInodes)), <<>>, None)
      BY <2>1 DEF Create
    <3> QED  BY <3>1, NewBegins
  <2>2. ASSUME NEW d \in Dirs, NEW n \in Names, Mkdir(d, n)  PROVE  Inv'
    <3>1. /\ Idle /\ Vacant(d, n) /\ FreeInodes # {}
          /\ Begin(IF "dir" = "dir" THEN MkdirWrites(d, n, Least(FreeInodes))
                   ELSE CreateWrites(d, n, Least(FreeInodes)), <<>>, None)
      BY <2>2 DEF Mkdir
    <3> QED  BY <3>1, NewBegins
  <2> QED  BY <1>1, <2>1, <2>2, LinkBegins, UnlinkBegins, RmdirBegins, RenameBegins
           DEF CallBegins
<1>2. CASE WriteMade
  <2>1. ASSUME NEW i \in Inodes, NEW k \in {"dir", "file"}, DoAllocate(i, k)  PROVE  Inv'
    BY <2>1, AllocateStep
  <2>2. ASSUME NEW i \in Inodes, NEW k \in {"dir", "file"}, DoFree(i, k)  PROVE  Inv'
    BY <2>2, FreeStep
  <2>3. ASSUME NEW i \in Inodes, NEW p \in Inodes, NEW k \in {"dir", "file"}, DoMake(i, k, p)
        PROVE  Inv'
    BY <2>3, MakeStep
  <2>4. ASSUME NEW d \in Inodes, NEW i \in Inodes, NEW n \in Names, DoAddName(d, n, i)
        PROVE  Inv'
    BY <2>4, AddNameStep
  <2>5. ASSUME NEW d \in Inodes, NEW n \in Names, DoTakeName(d, n)  PROVE  Inv'
    BY <2>5, TakeNameStep
  <2>6. ASSUME NEW d \in Inodes, NEW p \in Inodes, DoPoint(d, p)  PROVE  Inv'
    BY <2>6, PointStep
  <2>7. ASSUME NEW i \in Inodes, DoAddLink(i)  PROVE  Inv'
    BY <2>7, AddLinkStep
  <2>8. ASSUME NEW i \in Inodes, DoDropLink(i)  PROVE  Inv'
    BY <2>8, DropLinkStep
  <2>9. ASSUME NEW i \in Inodes, DoClear(i)  PROVE  Inv'
    BY <2>9, ClearStep
  <2> QED  BY <1>2, <2>1, <2>2, <2>3, <2>4, <2>5, <2>6, <2>7, <2>8, <2>9 DEF WriteMade
<1>3. CASE RenameGoesOn
  BY <1>3, RenameGoesOnStep
<1>4. CASE NoSpace \/ NameRefused \/ PointFails \/ Fault
  <2>1. todo # <<>> /\ Fails
    BY <1>4 DEF NoSpace, NameRefused, PointFails, Fault, AtWrite
  <2> QED  BY <2>1, FailsStep
<1>5. CASE UNCHANGED vars
  <2>1. /\ allocated' = allocated /\ usedDirs' = usedDirs /\ kind' = kind /\ links' = links
        /\ entries' = entries /\ dotdot' = dotdot /\ indexed' = indexed
        /\ todo' = todo /\ next' = next /\ before' = before /\ gone' = gone
        /\ harm' = harm /\ failures' = failures
    BY <1>5 DEF vars, inodeVars, dirVars, callVars
  <2> QED  BY <2>1, Unmoved
<1> QED  BY <1>1, <1>2, <1>3, <1>4, <1>5 DEF Next

\* What holds at every moment, and what every call leaves exact.
THEOREM TreeInvariant == Spec /\ []LinksFit => []Inv
BY InitInv, NextInv, PTL DEF Spec

\* No name is one of an inode the filesystem has not, and the tally of directories
\* never goes negative.
THEOREM TypeCorrect == Spec /\ []LinksFit => []TypeOK
<1>1. Inv => TypeOK
  BY DEF Inv, Core
<1> QED  BY <1>1, TreeInvariant, PTL

\* Between any two writes, and where a call failed, every name is one of an inode
\* that is in use and written, in a directory that is.
THEOREM NamesPoint == Spec /\ []LinksFit => []NamesPointAtInodes
<1>1. Inv => NamesPointAtInodes
  BY DEF Inv, Core
<1> QED  BY <1>1, TreeInvariant, PTL

\* What had a name when a call began keeps one, but for what it was asked to unname:
\* rename adds the new name before it takes the old.
THEOREM NamesKept == Spec /\ []LinksFit => []NoNameLost
<1>1. Inv => NoNameLost
  BY DEF Inv, Core
<1> QED  BY <1>1, TreeInvariant, PTL

\* Between calls, a file has as many links as names, a directory 2 and one for each
\* subdirectory.
THEOREM CountsExact == Spec /\ []LinksFit => []LinkCountsExact
<1>1. Inv => LinkCountsExact
  <2> SUFFICES ASSUME Inv, Whole, NEW i \in Reachable
               PROVE  links[i] = IF IsDir(i) THEN 2 + Cardinality(Subdirs(i))
                                             ELSE Cardinality(NamesOf(i))
    BY DEF LinkCountsExact
  <2>1. Core /\ Counted({})
    BY AtRest DEF Whole, Rest, TreeExact
  <2>2. i \in InTree
    BY <2>1, ReachableNamed
  <2> QED  BY <2>1, <2>2 DEF Counted, Count
<1> QED  BY <1>1, TreeInvariant, PTL

(***************************************************************************)
(* The tree: every name can be reached from the root, so what is in use is *)
(* what can be reached.                                                    *)
(*                                                                         *)
(* rename is what could cut a subtree off, by moving a directory below     *)
(* itself; is_ancestor is what keeps it from that, but climbs only so far. *)
(* All of this is said of executions in which no directory lies deeper     *)
(* than that below one of the root's own: Shallow.                         *)
(***************************************************************************)
\* The climb from a directory gets to the root or to a directory in it.
Near(d) == \E e \in Inodes : IsAncestor(e, d) /\ (e = Root \/ dotdot[e] = Root)

\* Between calls, that is so of any directory.
Shallow == Idle => \A d \in Dirs : Near(d)

\* Every name can be reached.
Rooted == InTree \subseteq Reachable

\* The inode i is not above the directory d: some set that holds d and not i holds,
\* with an inode, the directories that name it.
Apart(i, d) ==
    \E A \in SUBSET Inodes :
        /\ d \in A /\ i \notin A
        /\ \A e \in Inodes, n \in Names : entries[e][n] \in A => e \in A

\* A directory to be moved is not above where it goes: while the destination is
\* cleared, when the move begins, and while it has both its names.
MovesApart ==
    \A i, fd, td \in Inodes, fn, tn \in Names :
        /\ IsDir(i)
        /\ \/ Renames(next, i, fd, fn, td, tn)
           \/ Renames(todo, i, fd, fn, td, tn)
           \/ HasBoth(i, fd, fn, td, tn)
        => Apart(i, td)

TreeInv == Rooted /\ MovesApart

(***************************************************************************)
(* Which writes follow which.                                              *)
(***************************************************************************)
\* The first two writes of a rename, and the first of one that has added a name.
LEMMA RenameShape ==
    /\ \A w, i, fd, fn, td, tn : Renames(w, i, fd, fn, td, tn) =>
          /\ w # <<>> /\ Head(w) = AddName(td, tn, i)
          /\ Tail(w) # <<>> /\ Head(Tail(w)) = TakeName(fd, fn)
    /\ \A i, fd, fn, td, tn : HasBoth(i, fd, fn, td, tn) =>
          todo # <<>> /\ Head(todo) = TakeName(fd, fn)
<1>1. ASSUME NEW w, NEW i, NEW fd, NEW fn, NEW td, NEW tn, Renames(w, i, fd, fn, td, tn)
      PROVE  /\ w # <<>> /\ Head(w) = AddName(td, tn, i)
             /\ Tail(w) # <<>> /\ Head(Tail(w)) = TakeName(fd, fn)
  <2>1. CASE IsDir(i) /\ fd # td
    BY <1>1, <2>1, Writes DEF Renames
  <2>2. CASE ~ (IsDir(i) /\ fd # td)
    BY <1>1, <2>2, Writes DEF Renames
  <2> QED  BY <2>1, <2>2
<1>2. ASSUME NEW i, NEW fd, NEW fn, NEW td, NEW tn, HasBoth(i, fd, fn, td, tn)
      PROVE  todo # <<>> /\ Head(todo) = TakeName(fd, fn)
  BY <1>2, Writes DEF HasBoth
<1> QED  BY <1>1, <1>2

\* What a write leaves to do: only a name added to a renamed inode is followed by one
\* that is taken, and no write by those of a rename.
LEMMA WhatFollows ==
    ASSUME Inv, NEW write, Do(write)
    PROVE  /\ write[1] # "addName" => todo' = <<>> \/ Head(todo')[1] # "takeName"
           /\ \/ todo' = <<>> \/ Head(todo')[1] # "addName"
              \/ Tail(todo') = <<>> \/ Head(Tail(todo'))[1] # "takeName"
<1>1. Working /\ todo' = Tail(todo) /\ Head(todo) = write
  BY StageOf
<1>2. CASE AtAllocate
  <2>1. PICK i, d, n, k :
           todo = IF k = "dir"
                  THEN <<Allocate(i, k), Make(i, k, d), AddName(d, n, i), AddLink(d)>>
                  ELSE <<Allocate(i, k), Make(i, k, d), AddName(d, n, i)>>
    BY <1>2 DEF AtAllocate
  <2>2. todo' # <<>> /\ Head(todo')[1] = "make"
    BY <1>1, <2>1, Writes, WriteTags
  <2> QED  BY <2>2
<1>3. CASE AtMake
  <2>1. PICK i, d, n, k :
           todo = IF k = "dir"
                  THEN <<Make(i, k, d), AddName(d, n, i), AddLink(d)>>
                  ELSE <<Make(i, k, d), AddName(d, n, i)>>
    BY <1>3 DEF AtMake
  <2>2. Head(todo')[1] = "addName"
    BY <1>1, <2>1, Writes, WriteTags
  <2>3. Tail(todo') = <<>> \/ Head(Tail(todo'))[1] = "addLink"
    BY <1>1, <2>1, Writes, WriteTags
  <2> QED  BY <2>2, <2>3
<1>4. CASE AtAddName
  <2>1. write[1] = "addName"
    BY <1>1, <1>4, Stages
  <2>2. PICK i, d \in Inodes, n \in Names :
           \/ \E k \in {"dir", "file"} : NamesNew(i, k, d, n)
           \/ NamesAgain(i, d, n) \/ NamesMoved(i, d, n)
    BY <1>4 DEF AtAddName
  <2>3. todo' = <<>> \/ Head(todo')[1] \in {"addLink", "takeName"}
    <3>1. CASE \E k \in {"dir", "file"} : NamesNew(i, k, d, n)
      BY <1>1, <3>1, Writes, WriteTags DEF NamesNew
    <3>2. CASE NamesAgain(i, d, n)
      BY <1>1, <3>2, Writes, WriteTags DEF NamesAgain
    <3>3. CASE NamesMoved(i, d, n)
      <4>1. PICK fd, fn : Renames(todo, i, fd, fn, d, n)
        BY <3>3 DEF NamesMoved
      <4> QED  BY <1>1, <4>1, RenameShape, WriteTags
    <3> QED  BY <2>2, <3>1, <3>2, <3>3
  <2> QED  BY <2>1, <2>3
<1>5. CASE AtTakeName
  <2>1. CASE Removes
    <3>1. PICK i, d, n : TakesLast(i, d, n) \/ TakesOne(i, d, n) \/ TakesDir(i, d, n)
      BY <2>1 DEF Removes
    <3>2. todo' # <<>> /\ Head(todo')[1] \in {"clear", "dropLink"}
      <4>1. CASE TakesLast(i, d, n)
        BY <1>1, <4>1, Writes, WriteTags DEF TakesLast
      <4>2. CASE TakesOne(i, d, n)
        BY <1>1, <4>2, Writes, WriteTags DEF TakesOne
      <4>3. CASE TakesDir(i, d, n)
        BY <1>1, <4>3, Writes, WriteTags DEF TakesDir
      <4> QED  BY <3>1, <4>1, <4>2, <4>3
    <3> QED  BY <3>2
  <2>2. CASE Moves
    <3>1. PICK i, fd, td, fn :
             \/ todo = <<TakeName(fd, fn), Point(i, td), DropLink(fd), AddLink(td)>>
             \/ todo = <<TakeName(fd, fn)>>
      BY <2>2 DEF Moves, HasBoth
    <3>2. todo' = <<>> \/ Head(todo')[1] = "point"
      BY <1>1, <3>1, Writes, WriteTags
    <3> QED  BY <3>2
  <2> QED  BY <1>5, <2>1, <2>2 DEF AtTakeName
<1>6. CASE AtPoint
  <2>1. PICK i, fd, td : todo = <<Point(i, td), DropLink(fd), AddLink(td)>>
    BY <1>6 DEF AtPoint
  <2>2. Head(todo')[1] = "dropLink"
    BY <1>1, <2>1, Writes, WriteTags
  <2> QED  BY <2>2
<1>7. CASE AtDropLink
  <2>1. PICK j : \/ todo = <<DropLink(j)>>
                 \/ \E td : todo = <<DropLink(j), AddLink(td)>>
    BY <1>7 DEF AtDropLink, DropsLast, DropsParent
  <2>2. todo' = <<>> \/ Head(todo')[1] = "addLink"
    BY <1>1, <2>1, Writes, WriteTags
  <2> QED  BY <2>2
<1>8. CASE AtAddLink
  <2>1. PICK j : todo = <<AddLink(j)>>
    BY <1>8 DEF AtAddLink
  <2>2. todo' = <<>>
    BY <1>1, <2>1, Writes
  <2> QED  BY <2>2
<1>9. CASE AtClear
  <2>1. PICK i, d, k : todo = IF k = "dir" THEN <<Clear(i), Free(i, k), DropLink(d)>>
                                           ELSE <<Clear(i), Free(i, k)>>
    BY <1>9 DEF AtClear
  <2>2. Head(todo')[1] = "free"
    BY <1>1, <2>1, Writes, WriteTags
  <2> QED  BY <2>2
<1>10. CASE AtFree
  <2>1. PICK i, d, k : todo = IF k = "dir" THEN <<Free(i, k), DropLink(d)>>
                                           ELSE <<Free(i, k)>>
    BY <1>10 DEF AtFree
  <2>2. todo' = <<>> \/ Head(todo')[1] = "dropLink"
    BY <1>1, <2>1, Writes, WriteTags
  <2> QED  BY <2>2
<1> QED  BY <1>1, <1>2, <1>3, <1>4, <1>5, <1>6, <1>7, <1>8, <1>9, <1>10 DEF Working

(***************************************************************************)
(* What can be reached.                                                    *)
(***************************************************************************)
\* To be rooted is to lie in every set that holds the tree.
LEMMA RootedIs ==
    ASSUME TypeOK
    PROVE  Rooted <=> \A S \in SUBSET Inodes : HoldsTree(S) => InTree \subseteq S
BY TypeFacts DEF Rooted, Reachable

\* A name added in the tree roots what it names.
LEMMA RootedAdded ==
    ASSUME TypeOK, TypeOK', Rooted, NEW d \in InTree, NEW n \in Names, NEW i \in Inodes,
           entries[d][n] = None,
           \A e \in Inodes, m \in Names :
               entries'[e][m] = IF <<e, m>> = <<d, n>> THEN i ELSE entries[e][m],
           InTree' = InTree \cup {i}
    PROVE  Rooted'
<1>1. ASSUME NEW S \in SUBSET Inodes, HoldsTree(S)'  PROVE  InTree' \subseteq S
  <2>1. Root \in S /\ \A e \in S, m \in Names : entries'[e][m] \in S \cup {None}
    BY <1>1 DEF HoldsTree
  <2>2. HoldsTree(S)
    BY <2>1 DEF HoldsTree
  <2>3. InTree \subseteq S
    BY <2>2, RootedIs
  <2>4. d \in Inodes /\ i # None
    BY TypeFacts, Numbers
  <2>5. entries'[d][n] = i
    BY <2>4
  <2> QED  BY <2>1, <2>3, <2>4, <2>5
<1>2. (\A S \in SUBSET Inodes : HoldsTree(S) => InTree \subseteq S)'
  BY <1>1
<1>3. InTree' \subseteq Inodes
  BY TypeFacts
<1> QED  BY <1>2, <1>3 DEF Rooted, Reachable

\* A name taken from what holds none cuts nothing off but that.
LEMMA RootedTaken ==
    ASSUME Core, TypeOK', Rooted, NEW d \in Inodes, NEW n \in Names, NEW i \in Inodes,
           entries[d][n] = i, i # d, IsEmpty(i),
           \A e \in Inodes, m \in Names :
               entries'[e][m] = IF <<e, m>> = <<d, n>> THEN None ELSE entries[e][m]
    PROVE  Rooted'
<1>1. TypeOK /\ InTree \subseteq Inodes /\ InTree' \subseteq Inodes
  BY Numbers DEF Core, InTree
<1>2. \A m \in Names : entries[i][m] = None
  BY DEF IsEmpty, NoNames
<1>3. ASSUME NEW S \in SUBSET Inodes, HoldsTree(S)'  PROVE  InTree' \subseteq S
  <2>1. Root \in S /\ \A e \in S, m \in Names : entries'[e][m] \in S \cup {None}
    BY <1>3 DEF HoldsTree
  <2>2. HoldsTree(S \cup {i})
    BY <1>2, <2>1 DEF HoldsTree
  <2>3. InTree \subseteq S \cup {i}
    BY <1>1, <2>2, RootedIs
  <2>4. ASSUME NEW x \in InTree', x # Root  PROVE  x \in S
    <3>1. PICK e \in Inodes, m \in Names : entries'[e][m] = x
      BY <2>4 DEF InTree, NamesOf
    <3>2. x # None
      BY <1>1, Numbers
    <3>3. entries[e][m] = x
      BY <3>1, <3>2
    <3>4. e # i
      BY <1>2, <3>2, <3>3
    <3>5. ~ IsEmpty(e)
      BY <3>2, <3>3 DEF IsEmpty, NoNames
    <3>6. e \in S
      BY <2>3, <3>4, <3>5 DEF Core
    <3> QED  BY <2>1, <3>1, <3>2, <3>6
  <2> QED  BY <2>1, <2>4
<1>4. (\A S \in SUBSET Inodes : HoldsTree(S) => InTree \subseteq S)'
  BY <1>3
<1> QED  BY <1>1, <1>4 DEF Rooted, Reachable

\* The old name of a moved directory cuts nothing off, as it is not above its new one.
LEMMA RootedMoved ==
    ASSUME Core, TypeOK', Rooted, NEW i \in Inodes, NEW fd \in Inodes, NEW td \in Inodes,
           NEW fn \in Names, NEW tn \in Names, <<fd, fn>> # <<td, tn>>,
           entries[fd][fn] = i, entries[td][tn] = i, Apart(i, td),
           \A e \in Inodes, m \in Names :
               entries'[e][m] = IF <<e, m>> = <<fd, fn>> THEN None ELSE entries[e][m]
    PROVE  Rooted'
<1>1. TypeOK /\ InTree \subseteq Inodes /\ InTree' \subseteq Inodes
  BY Numbers DEF Core, InTree
<1>2. PICK A \in SUBSET Inodes :
         /\ td \in A /\ i \notin A
         /\ \A e \in Inodes, n \in Names : entries[e][n] \in A => e \in A
  BY DEF Apart
<1>3. td \in InTree
  <2>1. ~ IsEmpty(td)
    BY Numbers DEF IsEmpty, NoNames
  <2> QED  BY <2>1 DEF Core
<1>4. ASSUME NEW S \in SUBSET Inodes, HoldsTree(S)'  PROVE  InTree' \subseteq S
  <2>1. Root \in S /\ \A e \in S, m \in Names : entries'[e][m] \in S \cup {None}
    BY <1>4 DEF HoldsTree
  <2> DEFINE U == (Inodes \ A) \cup S
  <2>2. \A e \in U, m \in Names : entries[e][m] \in U \cup {None}
    <3> SUFFICES ASSUME NEW e \in U, NEW m \in Names, entries[e][m] # None
                 PROVE  entries[e][m] \in U
      OBVIOUS
    <3>1. e \in Inodes /\ entries[e][m] \in Inodes
      BY <1>1, TypeFacts
    <3>2. CASE e \in S
      <4>1. CASE <<e, m>> = <<fd, fn>>
        BY <1>2, <3>1, <4>1
      <4>2. CASE <<e, m>> # <<fd, fn>>
        BY <2>1, <3>1, <3>2, <4>2
      <4> QED  BY <4>1, <4>2
    <3>3. CASE e \notin A
      BY <1>2, <3>1, <3>3
    <3> QED  BY <3>2, <3>3
  <2>3. U \in SUBSET Inodes /\ HoldsTree(U)
    BY <2>1, <2>2 DEF HoldsTree
  <2>4. td \in S
    BY <1>1, <1>2, <1>3, <2>3, RootedIs
  <2>5. i \in S
    BY <2>1, <2>4, Numbers
  <2>6. HoldsTree(S)
    <3> SUFFICES ASSUME NEW e \in S, NEW m \in Names  PROVE  entries[e][m] \in S \cup {None}
      BY <2>1 DEF HoldsTree
    <3>1. CASE <<e, m>> = <<fd, fn>>
      BY <2>5, <3>1
    <3>2. CASE <<e, m>> # <<fd, fn>>
      BY <2>1, <3>2
    <3> QED  BY <3>1, <3>2
  <2>7. InTree \subseteq S
    BY <1>1, <2>6, RootedIs
  <2>8. InTree' \subseteq InTree
    <3>1. \A e \in Inodes, m \in Names : entries'[e][m] \in {None, entries[e][m]}
      OBVIOUS
    <3>2. ASSUME NEW x \in Inodes, NEW p \in NamesOf(x)'  PROVE  p \in NamesOf(x)
      <4>1. p \in Inodes \X Names /\ entries'[p[1]][p[2]] = x /\ x # None
        BY <3>2, Numbers DEF NamesOf
      <4>2. p[1] \in Inodes /\ p[2] \in Names
        BY <4>1
      <4> QED  BY <3>1, <4>1, <4>2 DEF NamesOf
    <3> QED  BY <3>2 DEF InTree
  <2> QED  BY <2>7, <2>8
<1>5. (\A S \in SUBSET Inodes : HoldsTree(S) => InTree \subseteq S)'
  BY <1>4
<1> QED  BY <1>1, <1>5 DEF Rooted, Reachable

\* Neither depends on anything but the entries.
LEMMA SameRooted ==
    ASSUME entries' = entries
    PROVE  Rooted <=> Rooted'
BY DEF Rooted, Reachable, HoldsTree, InTree, NamesOf

\* What is not above a directory does not come to be by a name that is taken.
LEMMA ApartKept ==
    ASSUME NEW i, NEW d, Apart(i, d),
           \A e \in Inodes, n \in Names : entries'[e][n] \in {None, entries[e][n]}
    PROVE  Apart(i, d)'
<1>1. PICK A \in SUBSET Inodes :
         /\ d \in A /\ i \notin A
         /\ \A e \in Inodes, n \in Names : entries[e][n] \in A => e \in A
  BY DEF Apart
<1>2. None \notin A
  BY Numbers
<1>3. ASSUME NEW e \in Inodes, NEW n \in Names, entries'[e][n] \in A  PROVE  e \in A
  <2>1. entries'[e][n] = entries[e][n]
    BY <1>2, <1>3
  <2> QED  BY <1>1, <1>3, <2>1
<1> QED  BY <1>1, <1>3 DEF Apart

\* Nor by a new name of its own.
LEMMA ApartAdded ==
    ASSUME NEW i, NEW d, Apart(i, d),
           \A e \in Inodes, n \in Names : entries'[e][n] \in {i, entries[e][n]}
    PROVE  Apart(i, d)'
<1>1. PICK A \in SUBSET Inodes :
         /\ d \in A /\ i \notin A
         /\ \A e \in Inodes, n \in Names : entries[e][n] \in A => e \in A
  BY DEF Apart
<1>2. \A e \in Inodes, n \in Names : entries'[e][n] \in A => e \in A
  BY <1>1
<1> QED  BY <1>1, <1>2 DEF Apart

(***************************************************************************)
(* is_ancestor.                                                            *)
(***************************************************************************)
\* The climb, step by step.
LEMMA ClimbSteps ==
    ASSUME NEW of
    PROVE  \E c : /\ c[0] = of
                  /\ \A k \in 0 .. AncestorSteps - 1 :
                        c[k + 1] = IF c[k] = Root THEN Root ELSE dotdot[c[k]]
                  /\ \A i : IsAncestor(i, of) <=> \E k \in 0 .. AncestorSteps - 1 : c[k] = i
<1> DEFINE Climbs(g) == g = [k \in 0 .. AncestorSteps |->
                               IF k = 0 THEN of
                               ELSE LET at == g[k - 1]
                                    IN IF at = Root THEN Root ELSE dotdot[at]]
           c == CHOOSE g : Climbs(g)
<1>1. Climbs(c)
  <2>1. \E g : Climbs(g)
    BY ClimbIs
  <2> HIDE DEF Climbs
  <2> QED  BY <2>1, Zenon
<1>2. \A i : IsAncestor(i, of) <=> \E k \in 0 .. AncestorSteps - 1 : c[k] = i
  <2> TAKE i
  <2>1. IsAncestor(i, of) = \E k \in 0 .. AncestorSteps - 1 : c[k] = i
    BY Zenon DEF IsAncestor
  <2> HIDE DEF c
  <2> QED  BY <2>1, Zenon
<1> HIDE DEF c
<1>3. \A k \in 0 .. AncestorSteps :
         c[k] = IF k = 0 THEN of
                ELSE IF c[k - 1] = Root THEN Root ELSE dotdot[c[k - 1]]
  BY <1>1
<1>4. c[0] = of
  BY <1>3, NamesAssumption
<1>5. ASSUME NEW k \in 0 .. AncestorSteps - 1
      PROVE  c[k + 1] = IF c[k] = Root THEN Root ELSE dotdot[c[k]]
  <2>1. k + 1 \in 0 .. AncestorSteps /\ k + 1 # 0 /\ (k + 1) - 1 = k
    BY NamesAssumption
  <2>2. c[k + 1] = IF c[(k + 1) - 1] = Root THEN Root ELSE dotdot[c[(k + 1) - 1]]
    BY <1>3, <2>1
  <2> QED  BY <2>1, <2>2
<1> QED  BY <1>2, <1>4, <1>5

\* The ".." of a directory in the tree is the directory that names it.
LEMMA ParentOf ==
    ASSUME Core, Parented({}), NEW e \in Inodes, NEW n \in Names, IsDir(entries[e][n]),
           entries[e][n] # None
    PROVE  dotdot[entries[e][n]] = e /\ IsDir(e) /\ e \in InTree
<1>1. entries[e][n] \in Inodes /\ <<e, n>> \in NamesOf(entries[e][n])
  BY NamesAre, TypeFacts DEF Core
<1>2. dotdot[entries[e][n]] = e
  BY <1>1 DEF Parented
<1>3. ~ IsEmpty(e) /\ IsDir(e)
  BY DEF Core, NamesPointAtInodes, IsEmpty, NoNames
<1> QED  BY <1>2, <1>3 DEF Core

\* The climb does not leave the tree.
LEMMA ClimbsInTree ==
    ASSUME Core, Parented({}), NEW td \in Dirs, NEW c, c[0] = td,
           \A k \in 0 .. AncestorSteps - 1 :
               c[k + 1] = IF c[k] = Root THEN Root ELSE dotdot[c[k]]
    PROVE  \A k \in 0 .. AncestorSteps : c[k] \in InTree /\ IsDir(c[k])
<1>1. TypeOK /\ td \in InTree /\ IsDir(td) /\ IsDir(Root) /\ AncestorSteps \in Nat \ {0}
  BY ReachableNamed, NamesAssumption DEF Core, Dirs
<1> DEFINE T == {m \in Nat : m <= AncestorSteps => c[m] \in InTree /\ IsDir(c[m])}
<1>2. 0 \in T
  BY <1>1
<1>3. ASSUME NEW m \in Nat, m \in T  PROVE  m + 1 \in T
  <2> SUFFICES ASSUME m + 1 <= AncestorSteps
               PROVE  c[m + 1] \in InTree /\ IsDir(c[m + 1])
    OBVIOUS
  <2>1. m \in 0 .. AncestorSteps - 1 /\ c[m] \in InTree /\ IsDir(c[m])
    BY <1>1, <1>3
  <2>2. c[m + 1] = IF c[m] = Root THEN Root ELSE dotdot[c[m]]
    BY <2>1
  <2>3. CASE c[m] = Root
    BY <2>1, <2>2, <2>3
  <2>4. CASE c[m] # Root
    <3>1. PICK p \in NamesOf(c[m]) : TRUE
      BY <2>1, <2>4 DEF InTree
    <3>2. p[1] \in Inodes /\ p[2] \in Names /\ entries[p[1]][p[2]] = c[m] /\ c[m] # None
      BY <1>1, <2>1, <3>1, NamesAre, TypeFacts, Numbers
    <3>3. dotdot[c[m]] = p[1] /\ IsDir(p[1]) /\ p[1] \in InTree
      BY <2>1, <3>2, ParentOf
    <3> QED  BY <2>2, <2>4, <3>3
  <2> QED  BY <2>3, <2>4
<1> HIDE DEF T
<1>4. Nat \subseteq T
  BY <1>2, <1>3, NumbersReached
<1> QED  BY <1>1, <1>4 DEF T

\* Where the climb gets to the root or just below it, and does not meet i, which is
\* not the root, i is not above.
LEMMA NotAbove ==
    ASSUME Core, TreeExact, NEW i, NEW td \in Dirs,
           Near(td), i # Root, ~ IsAncestor(i, td)
    PROVE  Apart(i, td)
<1>1. PICK c :
         /\ c[0] = td
         /\ \A k \in 0 .. AncestorSteps - 1 :
               c[k + 1] = IF c[k] = Root THEN Root ELSE dotdot[c[k]]
         /\ \A j : IsAncestor(j, td) <=> \E k \in 0 .. AncestorSteps - 1 : c[k] = j
  BY ClimbSteps
<1>2. TypeOK /\ Parented({}) /\ td \in InTree /\ IsDir(td) /\ AncestorSteps \in Nat \ {0}
  BY ReachableNamed, NamesAssumption DEF Core, TreeExact, Dirs
<1>3. PICK r \in 0 .. AncestorSteps : c[r] = Root
  <2>1. PICK k \in 0 .. AncestorSteps - 1 : c[k] = Root \/ dotdot[c[k]] = Root
    BY <1>1 DEF Near
  <2>2. c[k + 1] = Root /\ k + 1 \in 0 .. AncestorSteps
    BY <1>1, <1>2, <2>1
  <2> QED  BY <2>2
<1>5. \A k \in 0 .. AncestorSteps : c[k] \in InTree /\ IsDir(c[k])
  BY <1>1, <1>2, ClimbsInTree
<1>6. \A k \in 0 .. AncestorSteps : k >= r => c[k] = Root
  <2> DEFINE T == {m \in Nat : m <= AncestorSteps /\ m >= r => c[m] = Root}
  <2>1. 0 \in T
    BY <1>3
  <2>2. ASSUME NEW m \in Nat, m \in T  PROVE  m + 1 \in T
    <3> SUFFICES ASSUME m + 1 <= AncestorSteps, m + 1 >= r  PROVE  c[m + 1] = Root
      OBVIOUS
    <3>1. CASE m + 1 = r
      BY <1>3, <3>1
    <3>2. CASE m >= r
      <4>1. c[m] = Root /\ m \in 0 .. AncestorSteps - 1
        BY <1>2, <2>2, <3>2
      <4> QED  BY <1>1, <4>1
    <3> QED  BY <3>1, <3>2
  <2> HIDE DEF T
  <2>3. Nat \subseteq T
    BY <2>1, <2>2, NumbersReached
  <2> QED  BY <1>2, <2>3 DEF T
<1> DEFINE A == {c[k] : k \in 0 .. AncestorSteps}
<1>7. A \in SUBSET Inodes
  BY <1>2, <1>5, TypeFacts
<1>8. td \in A
  BY <1>1, <1>2
<1>9. i \notin A
  <2> SUFFICES ASSUME NEW k \in 0 .. AncestorSteps, c[k] = i  PROVE  FALSE
    OBVIOUS
  <2>1. CASE k = AncestorSteps
    BY <1>2, <1>6, <2>1
  <2>2. CASE k # AncestorSteps
    BY <1>1, <1>2, <2>2
  <2> QED  BY <2>1, <2>2
<1>10. ASSUME NEW e \in Inodes, NEW n \in Names, entries[e][n] \in A  PROVE  e \in A
  <2>1. PICK k \in 0 .. AncestorSteps : entries[e][n] = c[k]
    BY <1>10
  <2>2. c[k] # Root /\ c[k] # None
    <3>1. c[k] \in Inodes
      BY <1>7
    <3>2. <<e, n>> \in NamesOf(c[k])
      BY <2>1, NamesAre
    <3> QED  BY <3>1, <3>2, Numbers DEF Core
  <2>3. k < r /\ k \in 0 .. AncestorSteps - 1 /\ k + 1 \in 0 .. AncestorSteps
    BY <1>2, <1>6, <2>2
  <2>4. dotdot[c[k]] = e
    BY <1>2, <1>5, <2>1, <2>2, ParentOf
  <2>5. c[k + 1] = e
    BY <1>1, <2>2, <2>3, <2>4
  <2> QED  BY <2>3, <2>5
<1> QED  BY <1>7, <1>8, <1>9, <1>10 DEF Apart

(***************************************************************************)
(* Calls.                                                                  *)
(***************************************************************************)
\* What no call's beginning changes.
LEMMA BegunTree ==
    ASSUME TypeOK, TreeInv, UNCHANGED <<inodeVars, dirVars>>, before' = entries,
           \A i, fd, td \in Inodes, fn, tn \in Names :
               /\ IsDir(i)
               /\ Renames(next', i, fd, fn, td, tn) \/ Renames(todo', i, fd, fn, td, tn)
               => Apart(i, td)
    PROVE  TreeInv'
<1>1. entries' = entries /\ kind' = kind
  BY DEF inodeVars, dirVars
<1>2. Rooted'
  BY <1>1, SameRooted DEF TreeInv
<1>3. MovesApart'
  <2> SUFFICES ASSUME NEW i \in Inodes, NEW fd \in Inodes, NEW td \in Inodes,
                      NEW fn \in Names, NEW tn \in Names, IsDir(i)',
                      \/ Renames(next, i, fd, fn, td, tn)'
                      \/ Renames(todo, i, fd, fn, td, tn)'
                      \/ HasBoth(i, fd, fn, td, tn)'
               PROVE  Apart(i, td)'
    BY DEF MovesApart
  <2>1. IsDir(i)
    BY <1>1 DEF IsDir
  <2>2. ~ HasBoth(i, fd, fn, td, tn)'
    <3> SUFFICES ASSUME HasBoth(i, fd, fn, td, tn)'  PROVE  FALSE
      OBVIOUS
    <3>1. before' = [entries' EXCEPT ![td][tn] = None] /\ entries'[td][tn] = i
      BY DEF HasBoth
    <3>2. entries[td][tn] = None
      BY <1>1, <3>1 DEF TypeOK
    <3> QED  BY <1>1, <3>1, <3>2, Numbers
  <2>3. /\ Renames(next, i, fd, fn, td, tn)' => Renames(next', i, fd, fn, td, tn)
        /\ Renames(todo, i, fd, fn, td, tn)' => Renames(todo', i, fd, fn, td, tn)
    BY <1>1 DEF Renames, IsDir
  <2>4. Apart(i, td)
    BY <2>1, <2>2, <2>3
  <2> QED  BY <1>1, <2>4, ApartKept
<1> QED  BY <1>2, <1>3 DEF TreeInv

\* The writes of no other call are those of a rename.
LEMMA OtherCalls ==
    ASSUME NEW i, NEW fd, NEW fn, NEW td, NEW tn
    PROVE  /\ ~ Renames(<<>>, i, fd, fn, td, tn)
           /\ \A d, n, j : ~ Renames(CreateWrites(d, n, j), i, fd, fn, td, tn)
           /\ \A d, n, j : ~ Renames(MkdirWrites(d, n, j), i, fd, fn, td, tn)
           /\ \A d, n, j : ~ Renames(LinkWrites(d, n, j), i, fd, fn, td, tn)
           /\ \A d, n : ~ Renames(UnlinkWrites(d, n), i, fd, fn, td, tn)
           /\ \A d, n : ~ Renames(RmdirWrites(d, n), i, fd, fn, td, tn)
<1>1. ~ Renames(<<>>, i, fd, fn, td, tn)
  BY RenameShape
<1>2. ASSUME NEW w, w # <<>>, Head(w)[1] # "addName"
      PROVE  ~ Renames(w, i, fd, fn, td, tn)
  BY <1>2, RenameShape, WriteTags
<1>3. ASSUME NEW d, NEW n, NEW j
      PROVE  /\ CreateWrites(d, n, j) # <<>> /\ Head(CreateWrites(d, n, j))[1] = "allocate"
             /\ MkdirWrites(d, n, j) # <<>> /\ Head(MkdirWrites(d, n, j))[1] = "allocate"
  BY Writes, WriteTags DEF CreateWrites, MkdirWrites
<1>4. ASSUME NEW d, NEW n
      PROVE  UnlinkWrites(d, n) # <<>> /\ Head(UnlinkWrites(d, n))[1] = "takeName"
  BY Writes, WriteTags DEF UnlinkWrites
<1>5. ASSUME NEW d, NEW n
      PROVE  RmdirWrites(d, n) # <<>> /\ Head(RmdirWrites(d, n))[1] = "takeName"
  BY Writes, WriteTags DEF RmdirWrites
<1>6. ASSUME NEW d, NEW n, NEW j  PROVE  ~ Renames(LinkWrites(d, n, j), i, fd, fn, td, tn)
  <2>1. Head(Tail(LinkWrites(d, n, j))) = AddLink(j)
    BY Writes DEF LinkWrites
  <2>2. AddLink(j) # TakeName(fd, fn)
    <3>1. AddLink(j)[1] = "addLink" /\ TakeName(fd, fn)[1] = "takeName"
      BY WriteTags
    <3> QED  BY <3>1
  <2> QED  BY <2>1, <2>2, RenameShape
<1>7. ASSUME NEW d, NEW n, NEW j
      PROVE  /\ ~ Renames(CreateWrites(d, n, j), i, fd, fn, td, tn)
             /\ ~ Renames(MkdirWrites(d, n, j), i, fd, fn, td, tn)
  BY <1>2, <1>3
<1>8. ASSUME NEW d, NEW n
      PROVE  /\ ~ Renames(UnlinkWrites(d, n), i, fd, fn, td, tn)
             /\ ~ Renames(RmdirWrites(d, n), i, fd, fn, td, tn)
  BY <1>2, <1>4, <1>5
<1> QED  BY <1>1, <1>6, <1>7, <1>8

\* A call begins: only rename moves a directory, and not below itself.
LEMMA CallsTree ==
    ASSUME Inv, TreeInv, Shallow, CallBegins  PROVE  TreeInv'
<1>0. TypeOK
  BY DEF Inv, Core
<1> DEFINE Quiet(w) == \A i, fd, fn, td, tn : ~ Renames(w, i, fd, fn, td, tn)
<1>1. ASSUME NEW w, NEW after, NEW g, Begin(w, after, g), Quiet(w), Quiet(after)
      PROVE  TreeInv'
  <2>1. /\ todo' = w /\ next' = after /\ before' = entries
        /\ UNCHANGED <<inodeVars, dirVars>>
    BY <1>1 DEF Begin
  <2> QED  BY <1>0, <1>1, <2>1, BegunTree
<1>2. /\ Quiet(<<>>) /\ \A d, n, j : Quiet(CreateWrites(d, n, j))
      /\ \A d, n, j : Quiet(MkdirWrites(d, n, j)) /\ Quiet(LinkWrites(d, n, j))
      /\ \A d, n : Quiet(UnlinkWrites(d, n)) /\ Quiet(RmdirWrites(d, n))
  BY OtherCalls
<1> HIDE DEF Quiet
<1>3. ASSUME NEW d \in Dirs, NEW n \in Names,
             Create(d, n) \/ Mkdir(d, n) \/ Unlink(d, n) \/ Rmdir(d, n)
      PROVE  TreeInv'
  BY <1>1, <1>2, <1>3 DEF Create, Mkdir, Unlink, Rmdir
<1>4. ASSUME NEW i \in Reachable, NEW d \in Dirs, NEW n \in Names, Link(i, d, n)
      PROVE  TreeInv'
  BY <1>1, <1>2, <1>4 DEF Link
<1>5. ASSUME NEW fd \in Dirs, NEW td \in Dirs, NEW fn \in Names, NEW tn \in Names,
             Rename(fd, fn, td, tn)
      PROVE  TreeInv'
  <2> DEFINE i == entries[fd][fn]
             e == entries[td][tn]
             w == RenameWrites(fd, fn, td, tn)
  <2>1. /\ Idle /\ (IsDir(i) => ~ IsAncestor(i, td))
        /\ \/ Begin(w, <<>>, None)
           \/ Begin(RmdirWrites(td, tn), w, e)
           \/ Begin(UnlinkWrites(td, tn), w, e)
    BY <1>5 DEF Rename
  <2>2. Core /\ TreeExact /\ Near(td)
    BY <2>1, AtRest DEF Idle, Rest, Shallow
  <2>8. i # Root
    <3>1. fd \in Inodes /\ i # None /\ i \in Inodes
      BY <1>5, <2>2, ReachableNamed, TypeFacts DEF Core, Rename
    <3>2. <<fd, fn>> \in NamesOf(i)
      BY <3>1, NamesAre
    <3> QED  BY <2>2, <3>1, <3>2 DEF Core
  <2>3. IsDir(i) => Apart(i, td)
    BY <2>1, <2>2, <2>8, NotAbove
  <2>4. ASSUME NEW j \in Inodes, NEW gd \in Inodes, NEW ud \in Inodes,
               NEW gn \in Names, NEW un \in Names,
               Renames(w, j, gd, gn, ud, un)
        PROVE  j = i /\ ud = td
    <3>1. fd \in Inodes /\ td \in Inodes
      BY <2>2, ReachableNamed
    <3>2. Renames(w, i, fd, fn, td, tn)
      BY <3>1, RenameIs
    <3>3. AddName(td, tn, i) = AddName(ud, un, j)
      BY <2>4, <3>2, RenameShape
    <3> QED  BY <3>3, WriteArguments
  <2>5. \A j, gd, ud \in Inodes, gn, un \in Names :
           IsDir(j) /\ Renames(w, j, gd, gn, ud, un) => Apart(j, ud)
    BY <2>3, <2>4
  <2> HIDE DEF i, e, w
  <2>6. CASE Begin(w, <<>>, None)
    <3>1. /\ todo' = w /\ next' = <<>> /\ before' = entries
          /\ UNCHANGED <<inodeVars, dirVars>>
      BY <2>6 DEF Begin
    <3> QED  BY <1>0, <1>2, <2>5, <3>1, BegunTree DEF Quiet
  <2>7. ASSUME NEW v, NEW g, Quiet(v), Begin(v, w, g)  PROVE  TreeInv'
    <3>1. /\ todo' = v /\ next' = w /\ before' = entries
          /\ UNCHANGED <<inodeVars, dirVars>>
      BY <2>7 DEF Begin
    <3> QED  BY <1>0, <2>5, <2>7, <3>1, BegunTree DEF Quiet
  <2> QED  BY <1>2, <2>1, <2>6, <2>7
<1> QED  BY <1>3, <1>4, <1>5 DEF CallBegins

\* rename goes on.
LEMMA GoesOnTree ==
    ASSUME Inv, TreeInv, RenameGoesOn  PROVE  TreeInv'
<1>1. /\ todo' = next /\ next' = <<>> /\ before' = entries /\ UNCHANGED <<inodeVars, dirVars>>
  BY DEF RenameGoesOn
<1>2. \A i, fd, td \in Inodes, fn, tn \in Names :
         IsDir(i) /\ Renames(next, i, fd, fn, td, tn) => Apart(i, td)
  BY DEF TreeInv, MovesApart
<1>3. TypeOK
  BY DEF Inv, Core
<1> QED  BY <1>1, <1>2, <1>3, OtherCalls, BegunTree

(***************************************************************************)
(* Writes.                                                                 *)
(***************************************************************************)
\* A write that adds no name moves nothing.
LEMMA QuietWrite ==
    ASSUME Inv, TreeInv, NEW write, Do(write), write[1] # "addName", Rooted',
           \A e \in Inodes, n \in Names : entries'[e][n] \in {None, entries[e][n]},
           next = <<>> \/ \A i \in Inodes : IsDir(i)' => IsDir(i)
    PROVE  TreeInv'
<1>1. next' = next
  BY StageOf
<1>2. /\ todo' = <<>> \/ Head(todo')[1] # "takeName"
      /\ \/ todo' = <<>> \/ Head(todo')[1] # "addName"
         \/ Tail(todo') = <<>> \/ Head(Tail(todo'))[1] # "takeName"
  BY WhatFollows
<1>3. MovesApart'
  <2> SUFFICES ASSUME NEW i \in Inodes, NEW fd \in Inodes, NEW td \in Inodes,
                      NEW fn \in Names, NEW tn \in Names, IsDir(i)',
                      \/ Renames(next, i, fd, fn, td, tn)'
                      \/ Renames(todo, i, fd, fn, td, tn)'
                      \/ HasBoth(i, fd, fn, td, tn)'
               PROVE  Apart(i, td)'
    BY DEF MovesApart
  <2>1. ~ HasBoth(i, fd, fn, td, tn)'
    <3>1. HasBoth(i, fd, fn, td, tn)' => todo' # <<>> /\ Head(todo')[1] = "takeName"
      BY Writes, WriteTags DEF HasBoth
    <3> QED  BY <1>2, <3>1
  <2>2. ~ Renames(todo, i, fd, fn, td, tn)'
    <3>1. Renames(todo, i, fd, fn, td, tn)' =>
             /\ todo' # <<>> /\ Head(todo')[1] = "addName"
             /\ Tail(todo') # <<>> /\ Head(Tail(todo'))[1] = "takeName"
      BY Writes, WriteTags DEF Renames
    <3> QED  BY <1>2, <3>1
  <2>3. Renames(next, i, fd, fn, td, tn)'
    BY <2>1, <2>2
  <2>4. next # <<>>
    BY <1>1, <2>3, Writes DEF Renames
  <2>5. IsDir(i) /\ Renames(next, i, fd, fn, td, tn)
    <3>1. IsDir(i)
      BY <2>4
    <3> QED  BY <1>1, <2>3, <3>1 DEF Renames
  <2>6. Apart(i, td)
    BY <2>5 DEF TreeInv, MovesApart
  <2> QED  BY <2>6, ApartKept
<1> QED  BY <1>3 DEF TreeInv

\* A name added hangs in the tree, and a moved directory is still not above it.
LEMMA AddNameTree ==
    ASSUME Inv, Inv', TreeInv, NEW d \in Inodes, NEW n \in Names, NEW i \in Inodes,
           DoAddName(d, n, i)
    PROVE  TreeInv'
<1>1. /\ Do(AddName(d, n, i)) /\ entries' = [entries EXCEPT ![d][n] = i] /\ kind' = kind
  BY DEF DoAddName, inodeVars
<1>2. /\ AtAddName /\ Head(todo) = AddName(d, n, i) /\ todo' = Tail(todo)
      /\ next' = next /\ before' = before
  BY <1>1, StageOf, WriteTags
<1>3. Core /\ TypeOK /\ TypeOK' /\ Core' /\ next = <<>> /\ entries = before
  BY <1>2 DEF Inv, Core, AtAddName
<1>4. PICK j, e \in Inodes, m \in Names :
         /\ e \in InTree /\ IsDir(e) /\ entries[e][m] = None
         /\ \/ \E k \in {"dir", "file"} : NamesNew(j, k, e, m)
            \/ NamesAgain(j, e, m)
            \/ NamesMoved(j, e, m)
  BY <1>2 DEF AtAddName
<1>5. /\ AddName(d, n, i) = AddName(e, m, j)
      /\ \/ NamesMoved(j, e, m)
         \/ todo' = <<>> \/ Head(todo')[1] = "addLink"
  <2>1. CASE \E k \in {"dir", "file"} : NamesNew(j, k, e, m)
    BY <1>2, <2>1, Writes, WriteTags DEF NamesNew
  <2>2. CASE NamesAgain(j, e, m)
    BY <1>2, <2>2, Writes, WriteTags DEF NamesAgain
  <2>3. CASE NamesMoved(j, e, m)
    <3>1. PICK fd, fn : Renames(todo, j, fd, fn, e, m)
      BY <2>3 DEF NamesMoved
    <3> QED  BY <1>2, <2>3, <3>1, RenameShape
  <2> QED  BY <1>4, <2>1, <2>2, <2>3
<1>6. j = i /\ e = d /\ m = n
  BY <1>5, WriteArguments
<1>7. d \in InTree /\ IsDir(d) /\ entries[d][n] = None
  BY <1>4, <1>6
<1>8. \A f \in Inodes, l \in Names :
         entries'[f][l] = IF <<f, l>> = <<d, n>> THEN i ELSE entries[f][l]
  BY <1>1, <1>3 DEF TypeOK
<1>9. Rooted'
  <2>1. i # d
    BY <1>3, <1>8 DEF Core
  <2>2. InTree' = InTree \cup {i}
    BY <1>1, <1>3, <1>7, <2>1, NameAdded
  <2> QED  BY <1>3, <1>7, <1>8, <2>2, RootedAdded DEF TreeInv
<1>10. MovesApart'
  <2> SUFFICES ASSUME NEW x \in Inodes, NEW fd \in Inodes, NEW td \in Inodes,
                      NEW fn \in Names, NEW tn \in Names, IsDir(x)',
                      \/ Renames(next, x, fd, fn, td, tn)'
                      \/ Renames(todo, x, fd, fn, td, tn)'
                      \/ HasBoth(x, fd, fn, td, tn)'
               PROVE  Apart(x, td)'
    BY DEF MovesApart
  <2>1. ~ Renames(next, x, fd, fn, td, tn)'
    BY <1>2, <1>3, Writes DEF Renames
  <2>2. ~ Renames(todo, x, fd, fn, td, tn)'
    <3>1. Renames(todo, x, fd, fn, td, tn)' =>
             /\ todo' # <<>> /\ Head(todo')[1] = "addName"
             /\ Tail(todo') # <<>> /\ Head(Tail(todo'))[1] = "takeName"
      BY Writes, WriteTags DEF Renames
    <3> QED  BY <1>1, <3>1, WhatFollows
  <2>3. HasBoth(x, fd, fn, td, tn)'
    BY <2>1, <2>2
  <2>4. td = d /\ x = i
    <3>1. before' = [entries' EXCEPT ![td][tn] = None] /\ entries'[td][tn] = x
      BY <2>3 DEF HasBoth
    <3>2. before'[td][tn] = None
      BY <1>3, <3>1 DEF TypeOK
    <3>3. entries[td][tn] = None /\ x # None
      BY <1>2, <1>3, <3>2, Numbers
    <3> QED  BY <1>8, <3>1, <3>3
  <2>5. NamesMoved(i, d, n)
    <3>1. todo' # <<>> /\ Head(todo')[1] = "takeName"
      BY <2>3, Writes, WriteTags DEF HasBoth
    <3> QED  BY <1>5, <1>6, <3>1
  <2>6. PICK gd \in Inodes, gn \in Names : Renames(todo, i, gd, gn, d, n)
    BY <2>5 DEF NamesMoved
  <2>7. IsDir(i)
    BY <1>1, <2>4 DEF IsDir
  <2>8. Apart(i, d)
    BY <2>6, <2>7 DEF TreeInv, MovesApart
  <2>9. Apart(i, d)'
    BY <1>8, <2>8, ApartAdded
  <2> QED  BY <2>4, <2>9
<1> QED  BY <1>9, <1>10 DEF TreeInv

\* A name taken cuts nothing off.
LEMMA TakeNameTree ==
    ASSUME Inv, Inv', TreeInv, NEW d \in Inodes, NEW n \in Names, DoTakeName(d, n)
    PROVE  TreeInv'
<1>1. /\ Do(TakeName(d, n)) /\ entries' = [entries EXCEPT ![d][n] = None] /\ kind' = kind
  BY DEF DoTakeName, inodeVars
<1>2. AtTakeName /\ Head(todo) = TakeName(d, n)
  BY <1>1, StageOf, WriteTags
<1>3. Core /\ TypeOK /\ TypeOK' /\ Rooted
  BY DEF Inv, Core, TreeInv
<1>4. \A e \in Inodes, m \in Names :
         entries'[e][m] = IF <<e, m>> = <<d, n>> THEN None ELSE entries[e][m]
  BY <1>1, <1>3 DEF TypeOK
<1>5. Rooted'
  <2>1. CASE Removes
    <3>1. PICK i, e \in Inodes, m \in Names :
             /\ entries[e][m] = i
             /\ TakesLast(i, e, m) \/ TakesOne(i, e, m) \/ TakesDir(i, e, m)
      BY <2>1 DEF Removes
    <3>2. TakeName(d, n) = TakeName(e, m)
      BY <1>2, <3>1, Writes DEF TakesLast, TakesOne, TakesDir
    <3>3. entries[d][n] = i
      BY <3>1, <3>2, WriteArguments
    <3>4. IsEmpty(i)
      <4>1. kind[i] = "file" \/ IsEmpty(i)
        BY <3>1 DEF TakesLast, TakesOne, TakesDir
      <4> QED  BY <1>3, <4>1, NotDirEmpty DEF IsDir
    <3>5. i # d
      BY <1>3, <3>3 DEF Core
    <3> QED  BY <1>3, <1>4, <3>3, <3>4, <3>5, RootedTaken
  <2>2. CASE Moves
    <3>1. PICK i, fd, td \in Inodes, fn, tn \in Names : HasBoth(i, fd, fn, td, tn)
      BY <2>2 DEF Moves
    <3>2. TakeName(d, n) = TakeName(fd, fn)
      BY <1>2, <3>1, RenameShape
    <3>3. fd = d /\ fn = n
      BY <3>2, WriteArguments
    <3>4. <<d, n>> # <<td, tn>> /\ entries[d][n] = i /\ entries[td][tn] = i
      <4>1. /\ before = [entries EXCEPT ![td][tn] = None]
            /\ before[fd][fn] = i /\ entries[td][tn] = i
        BY <3>1 DEF HasBoth
      <4>2. \A e \in Inodes, m \in Names :
               before[e][m] = IF <<e, m>> = <<td, tn>> THEN None ELSE entries[e][m]
        BY <1>3, <4>1 DEF TypeOK
      <4> QED  BY <3>3, <4>1, <4>2, Numbers
    <3>5. CASE IsDir(i)
      <4>1. Apart(i, td)
        BY <3>1, <3>5 DEF TreeInv, MovesApart
      <4> QED  BY <1>3, <1>4, <3>4, <4>1, RootedMoved
    <3>6. CASE ~ IsDir(i)
      <4>1. IsEmpty(i) /\ i # d
        BY <1>3, <3>4, <3>6, NotDirEmpty DEF Core
      <4> QED  BY <1>3, <1>4, <3>4, <4>1, RootedTaken
    <3> QED  BY <3>5, <3>6
  <2> QED  BY <1>2, <2>1, <2>2 DEF AtTakeName
<1>6. TakeName(d, n)[1] # "addName"
  BY WriteTags
<1>7. \A e \in Inodes, m \in Names : entries'[e][m] \in {None, entries[e][m]}
  BY <1>4
<1>8. \A i \in Inodes : IsDir(i)' => IsDir(i)
  BY <1>1 DEF IsDir
<1> QED  BY <1>1, <1>5, <1>6, <1>7, <1>8, QuietWrite

\* Every write keeps the tree in one piece.
LEMMA WritesTree ==
    ASSUME Inv, Inv', TreeInv, WriteMade  PROVE  TreeInv'
<1>1. TypeOK /\ Rooted
  BY DEF Inv, Core, TreeInv
<1>2. ASSUME NEW write, Do(write), write[1] # "addName", entries' = entries,
             next = <<>> \/ \A i \in Inodes : IsDir(i)' => IsDir(i)
      PROVE  TreeInv'
  <2>1. Rooted'
    BY <1>1, <1>2, SameRooted
  <2>2. \A e \in Inodes, n \in Names : entries'[e][n] \in {None, entries[e][n]}
    BY <1>2
  <2> QED  BY <1>2, <2>1, <2>2, QuietWrite
<1>3. ASSUME NEW write, Do(write), write[1] # "addName", entries' = entries, kind' = kind
      PROVE  TreeInv'
  BY <1>2, <1>3 DEF IsDir
<1>4. ASSUME NEW i \in Inodes, NEW k \in {"dir", "file"}, DoAllocate(i, k) \/ DoFree(i, k)
      PROVE  TreeInv'
  BY <1>3, <1>4, WriteTags DEF DoAllocate, DoFree, dirVars
<1>5. ASSUME NEW i \in Inodes, NEW p \in Inodes, NEW k \in {"dir", "file"}, DoMake(i, k, p)
      PROVE  TreeInv'
  <2>1. Do(Make(i, k, p)) /\ entries' = entries /\ Make(i, k, p)[1] = "make"
    BY <1>5, WriteTags DEF DoMake
  <2>2. next = <<>>
    BY <2>1, StageOf DEF AtMake
  <2> QED  BY <1>2, <2>1, <2>2
<1>6. ASSUME NEW d \in Inodes, NEW i \in Inodes, NEW n \in Names, DoAddName(d, n, i)
      PROVE  TreeInv'
  BY <1>6, AddNameTree
<1>7. ASSUME NEW d \in Inodes, NEW n \in Names, DoTakeName(d, n)  PROVE  TreeInv'
  BY <1>7, TakeNameTree
<1>8. ASSUME NEW d \in Inodes, NEW p \in Inodes, DoPoint(d, p)  PROVE  TreeInv'
  BY <1>3, <1>8, WriteTags DEF DoPoint, inodeVars
<1>9. ASSUME NEW i \in Inodes, DoAddLink(i) \/ DoDropLink(i)  PROVE  TreeInv'
  BY <1>3, <1>9, WriteTags DEF DoAddLink, DoDropLink, dirVars
<1>10. ASSUME NEW i \in Inodes, DoClear(i)  PROVE  TreeInv'
  <2>1. /\ Do(Clear(i)) /\ entries' = entries /\ Clear(i)[1] = "clear"
        /\ kind' = [kind EXCEPT ![i] = "none"]
    BY <1>10, WriteTags DEF DoClear
  <2>2. \A j \in Inodes : IsDir(j)' => IsDir(j)
    BY <1>1, <2>1 DEF IsDir, TypeOK
  <2> QED  BY <1>2, <2>1, <2>2
<1> QED  BY <1>4, <1>5, <1>6, <1>7, <1>8, <1>9, <1>10 DEF WriteMade

(***************************************************************************)
(* The invariant, and what follows from it.                                *)
(***************************************************************************)
\* A call that fails leaves what can be reached as it is.
LEMMA FailsTree ==
    ASSUME TreeInv, Fails  PROVE  TreeInv'
<1>1. todo' = <<>> /\ next' = <<>> /\ entries' = entries
  BY DEF Fails, dirVars
<1>2. MovesApart'
  <2>1. ASSUME NEW i, NEW fd, NEW td, NEW fn, NEW tn
        PROVE  /\ ~ Renames(next, i, fd, fn, td, tn)'
               /\ ~ Renames(todo, i, fd, fn, td, tn)'
               /\ ~ HasBoth(i, fd, fn, td, tn)'
    BY <1>1, Writes DEF Renames, HasBoth
  <2> QED  BY <2>1 DEF MovesApart
<1> QED  BY <1>1, <1>2, SameRooted DEF TreeInv

\* Where nothing moves, nothing is cut off.
LEMMA UnmovedTree ==
    ASSUME TreeInv, UNCHANGED vars  PROVE  TreeInv'
<1>1. /\ kind' = kind /\ links' = links /\ entries' = entries /\ dotdot' = dotdot
      /\ todo' = todo /\ next' = next /\ before' = before
  BY DEF vars, inodeVars, dirVars, callVars
<1>2. MovesApart'
  <2>1. /\ \A i : NamesOf(i)' = NamesOf(i) /\ Count(i)' = Count(i)
        /\ \A i : IsDir(i)' <=> IsDir(i)
        /\ InTree' = InTree
    BY <1>1, SameTree
  <2>2. \A S : OneName(S)' => OneName(S)
    BY <2>1 DEF OneName
  <2>3. \A S : Parented(S)' => Parented(S)
    BY <1>1, <2>1 DEF Parented
  <2>4. \A S : Counted(S)' => Counted(S)
    BY <1>1, <2>1 DEF Counted
  <2>5. ASSUME NEW i, NEW fd, NEW td, NEW fn, NEW tn, HasBoth(i, fd, fn, td, tn)'
        PROVE  HasBoth(i, fd, fn, td, tn)
    BY <1>1, <2>1, <2>2, <2>3, <2>4, <2>5 DEF HasBoth
  <2>6. ASSUME NEW i, NEW fd, NEW td, NEW fn, NEW tn
        PROVE  /\ Renames(next, i, fd, fn, td, tn)' => Renames(next, i, fd, fn, td, tn)
               /\ Renames(todo, i, fd, fn, td, tn)' => Renames(todo, i, fd, fn, td, tn)
    BY <1>1, <2>1 DEF Renames
  <2>7. \A i, d : Apart(i, d) => Apart(i, d)'
    BY <1>1 DEF Apart
  <2> QED  BY <2>1, <2>5, <2>6, <2>7 DEF TreeInv, MovesApart
<1> QED  BY <1>1, <1>2, SameRooted DEF TreeInv

\* A new filesystem is its root.
LEMMA InitTree == Init => TreeInv
<1> SUFFICES ASSUME Init  PROVE  TreeInv
  OBVIOUS
<1>1. Core
  BY InitInv DEF Inv
<1>2. todo = <<>> /\ next = <<>> /\ entries = [i \in Inodes |-> NoNames]
  BY DEF Init
<1>3. InTree = {Root}
  BY <1>2, Numbers DEF InTree, NamesOf, NoNames
<1>4. Rooted
  BY <1>1, <1>3, Numbers DEF Rooted, Reachable, HoldsTree
<1>5. MovesApart
  <2>1. ASSUME NEW i, NEW fd, NEW td, NEW fn, NEW tn
        PROVE  /\ ~ Renames(next, i, fd, fn, td, tn)
               /\ ~ Renames(todo, i, fd, fn, td, tn)
               /\ ~ HasBoth(i, fd, fn, td, tn)
    BY <1>2, Writes DEF Renames, HasBoth
  <2> QED  BY <2>1 DEF MovesApart
<1> QED  BY <1>4, <1>5 DEF TreeInv

\* Every step keeps the tree in one piece, while no directory is too deep.
LEMMA NextTree == Inv /\ Inv' /\ Shallow /\ TreeInv /\ [Next]_vars => TreeInv'
<1> SUFFICES ASSUME Inv, Inv', Shallow, TreeInv, [Next]_vars  PROVE  TreeInv'
  OBVIOUS
<1>1. CASE CallBegins
  BY <1>1, CallsTree
<1>2. CASE WriteMade
  BY <1>2, WritesTree
<1>3. CASE RenameGoesOn
  BY <1>3, GoesOnTree
<1>4. CASE NoSpace \/ NameRefused \/ PointFails \/ Fault
  <2>1. Fails
    BY <1>4 DEF NoSpace, NameRefused, PointFails, Fault
  <2> QED  BY <2>1, FailsTree
<1>5. CASE UNCHANGED vars
  BY <1>5, UnmovedTree
<1> QED  BY <1>1, <1>2, <1>3, <1>4, <1>5 DEF Next

\* Every name can be reached from the root, at every moment and where a call failed.
THEOREM AllRooted == Spec /\ []LinksFit /\ []Shallow => []TreeInv
BY InitTree, NextTree, TreeInvariant, PTL DEF Spec

\* Between calls, a directory has one name, which can be reached, and its ".." is the
\* directory that names it: rename carries ".." along and makes no cycle.
THEOREM TreeKeepsShape == Spec /\ []LinksFit /\ []Shallow => []TreeShape
<1>1. Inv /\ TreeInv => TreeShape
  <2> SUFFICES ASSUME Inv, TreeInv, Whole,
                      NEW i \in Inodes, IsDir(i), i # Root, NamesOf(i) # {}
               PROVE  /\ \E n \in Names : NamesOf(i) = {<<dotdot[i], n>>}
                      /\ i \in Reachable
    BY DEF TreeShape
  <2>1. OneName({}) /\ Parented({})
    BY AtRest DEF Whole, Rest, TreeExact
  <2>2. PICK p \in NamesOf(i) : TRUE
    OBVIOUS
  <2>3. p = <<dotdot[i], p[2]>> /\ p[2] \in Names
    BY <2>1, NamesAre DEF Parented
  <2>4. NamesOf(i) = {p}
    BY <2>1 DEF OneName
  <2>5. i \in Reachable
    BY DEF InTree, TreeInv, Rooted
  <2> QED  BY <2>3, <2>4, <2>5
<1> QED  BY <1>1, TreeInvariant, AllRooted, PTL

\* While no call has failed, between calls, what is in use can be reached, and the
\* tally of directories counts them.
THEOREM NothingLost == Spec /\ []LinksFit /\ []Shallow => []NothingLeaks
<1>1. Inv /\ TreeInv => NothingLeaks
  <2> SUFFICES ASSUME Inv, TreeInv, Whole, harm = "none"
               PROVE  allocated = Reachable /\ usedDirs = Cardinality(Dirs)
    BY DEF NothingLeaks
  <2>1. Core /\ Tallied({}, 0)
    BY AtRest DEF Whole, Rest
  <2>2. allocated = InTree /\ usedDirs = Cardinality(AllDirs)
    <3>1. Cardinality(AllDirs) \in Nat
      BY Countable
    <3> QED  BY <2>1, <3>1 DEF Tallied
  <2>3. InTree = Reachable
    BY <2>1, ReachableNamed DEF TreeInv, Rooted
  <2>4. AllDirs = Dirs
    <3>1. \A i \in Inodes : IsDir(i) => i \in allocated
      BY <2>1 DEF Core, IsDir
    <3>2. Reachable \subseteq Inodes
      BY DEF Reachable
    <3> QED  BY <2>2, <2>3, <3>1, <3>2 DEF AllDirs, Dirs
  <2> QED  BY <2>2, <2>3, <2>4
<1> QED  BY <1>1, TreeInvariant, AllRooted, PTL

(***************************************************************************)
(* How deep a directory may lie.                                           *)
(***************************************************************************)
\* With no more inodes than steps and one, the climb gets from any directory at least
\* to just below the root: otherwise it, with the step after it, meets an inode twice,
\* and what lies between cannot be reached.
LEMMA FewInodes ==
    ASSUME Inv, Rooted, InodeCount <= AncestorSteps + 1  PROVE  Shallow
<1> SUFFICES ASSUME Idle, NEW td \in Dirs,
                    \A e \in Inodes : IsAncestor(e, td) => e # Root /\ dotdot[e] # Root
             PROVE  FALSE
  BY DEF Shallow, Near
<1>1. Core /\ TypeOK /\ Parented({}) /\ InodeCount \in Nat \ {0} /\ AncestorSteps \in Nat \ {0}
  BY AtRest, NamesAssumption DEF Idle, Rest, TreeExact, Core
<1>2. PICK c :
         /\ c[0] = td
         /\ \A k \in 0 .. AncestorSteps - 1 :
               c[k + 1] = IF c[k] = Root THEN Root ELSE dotdot[c[k]]
         /\ \A j : IsAncestor(j, td) <=> \E k \in 0 .. AncestorSteps - 1 : c[k] = j
  BY ClimbSteps
<1> DEFINE K == 0 .. AncestorSteps
<1>3. \A k \in K : c[k] # Root
  <2>1. \A k \in 0 .. AncestorSteps - 1 : c[k] # Root /\ dotdot[c[k]] # Root
    <3> TAKE k \in 0 .. AncestorSteps - 1
    <3>1. IsAncestor(c[k], td) /\ c[k] \in Inodes
      BY <1>1, <1>2, ClimbsInTree, TypeFacts
    <3> QED  BY <3>1
  <2> TAKE k \in K
  <2>2. CASE k = 0
    BY <1>1, <2>1, <2>2
  <2>3. CASE k # 0
    <3>1. k - 1 \in 0 .. AncestorSteps - 1 /\ (k - 1) + 1 = k
      BY <1>1, <2>3
    <3>2. c[k] = dotdot[c[k - 1]]
      BY <1>2, <2>1, <3>1
    <3> QED  BY <2>1, <3>1, <3>2
  <2> QED  BY <2>2, <2>3
<1>4. \A k \in K : c[k] \in InTree /\ IsDir(c[k])
  BY <1>1, <1>2, ClimbsInTree
<1>5. \E a, b \in K : a < b /\ c[a] = c[b]
  <2> DEFINE f == [k \in K |-> c[k]]
             T == Inodes \ {Root}
  <2>1. f \in [K -> T]
    BY <1>1, <1>3, <1>4, TypeFacts
  <2>2. IsFiniteSet(K) /\ Cardinality(K) = AncestorSteps + 1
    BY <1>1, FS_Interval
  <2>3. IsFiniteSet(T) /\ Cardinality(T) = InodeCount - 1
    <3>1. Cardinality(Inodes) = InodeCount
      BY <1>1, FS_Interval DEF Inodes
    <3> QED  BY <3>1, Numbers, FS_RemoveElement
  <2>4. Cardinality(T) < Cardinality(K)
    BY <1>1, <2>2, <2>3
  <2>5. \E a, b \in K : a # b /\ f[a] = f[b]
    <3> HIDE DEF f, K, T
    <3> QED  BY <2>1, <2>2, <2>3, <2>4, FS_PigeonHole
  <2>6. PICK a, b \in K : a # b /\ f[a] = f[b]
    BY <2>5
  <2>7. c[a] = c[b]
    BY <2>6
  <2>8. a < b \/ b < a
    BY <1>1, <2>6
  <2> QED  BY <2>6, <2>7, <2>8
<1>6. PICK a, b \in K : a < b /\ c[a] = c[b]
  BY <1>5
<1> DEFINE C == {c[k] : k \in a .. b - 1}
<1>7. \A k \in a .. b - 1 : k \in K /\ k + 1 \in a .. b /\ dotdot[c[k]] \in C
  <2> TAKE k \in a .. b - 1
  <2>1. k \in K /\ k \in 0 .. AncestorSteps - 1 /\ k + 1 \in a .. b
    BY <1>1, <1>6
  <2>2. dotdot[c[k]] = c[k + 1]
    BY <1>2, <1>3, <2>1
  <2>3. CASE k + 1 = b
    BY <1>6, <2>1, <2>2, <2>3
  <2>4. CASE k + 1 # b
    BY <1>6, <2>1, <2>2, <2>4
  <2> QED  BY <2>1, <2>3, <2>4
<1>8. C \in SUBSET Inodes /\ Root \notin C
  BY <1>1, <1>3, <1>4, <1>7, TypeFacts
<1>9. HoldsTree(Inodes \ C)
  <2>1. ASSUME NEW e \in Inodes \ C, NEW n \in Names, entries[e][n] # None
        PROVE  entries[e][n] \notin C
    <3> SUFFICES ASSUME entries[e][n] \in C  PROVE  FALSE
      OBVIOUS
    <3>1. PICK k \in a .. b - 1 : entries[e][n] = c[k]
      OBVIOUS
    <3>2. c[k] \in Inodes /\ IsDir(c[k]) /\ <<e, n>> \in NamesOf(c[k])
      BY <1>1, <1>4, <1>7, <3>1, NamesAre, TypeFacts
    <3>3. dotdot[c[k]] = e
      BY <1>1, <3>2 DEF Parented
    <3> QED  BY <1>7, <2>1, <3>3
  <2>2. \A e \in Inodes, n \in Names : entries[e][n] \in Inodes \cup {None}
    BY <1>1, TypeFacts
  <2> QED  BY <1>8, <2>1, <2>2, Numbers DEF HoldsTree
<1>10. c[a] \in InTree /\ c[a] \in C
  BY <1>4, <1>6
<1>11. InTree \subseteq Inodes \ C
  <2>1. Inodes \ C \in SUBSET Inodes
    OBVIOUS
  <2> HIDE DEF C
  <2> QED  BY <1>1, <1>9, <2>1, RootedIs
<1> QED  BY <1>10, <1>11

\* A filesystem of no more inodes than is_ancestor takes steps, and one, is never too
\* deep.  With one inode more a directory can be moved into itself.
THEOREM SmallIsShallow ==
    ASSUME InodeCount <= AncestorSteps + 1
    PROVE  Spec /\ []LinksFit => [](Shallow /\ TreeInv)
<1>1. Inv /\ TreeInv => Shallow
  BY FewInodes DEF TreeInv
<1>2. Inv /\ Inv' /\ TreeInv /\ [Next]_vars => TreeInv'
  BY <1>1, NextTree
<1> QED  BY <1>1, <1>2, InitTree, TreeInvariant, PTL DEF Spec

\* No inode has more names than there are, no directory more subdirectories.
LEMMA FewNames ==
    ASSUME 2 + InodeCount * Cardinality(Names) < LinkModulus  PROVE  LinksFit
<1> SUFFICES ASSUME NEW i \in Inodes  PROVE  Count(i) < LinkModulus
  BY DEF LinksFit
<1>1. /\ IsFiniteSet(Inodes) /\ Cardinality(Inodes) = InodeCount
      /\ IsFiniteSet(Names) /\ Cardinality(Names) \in Nat
      /\ InodeCount \in Nat \ {0} /\ LinkModulus \in Nat
  <2>1. IsFiniteSet(Inodes) /\ Cardinality(Inodes) = InodeCount
    BY FS_Interval, NamesAssumption DEF Inodes
  <2>2. IsFiniteSet(Names) /\ Cardinality(Names) \in Nat
    BY FS_CardinalityType, NamesAssumption
  <2> QED  BY <2>1, <2>2, NamesAssumption
<1>2. InodeCount * Cardinality(Names) \in Nat /\ Cardinality(Names) <= InodeCount * Cardinality(Names)
  <2> DEFINE N == Cardinality(Names)
  <2>1. \A p \in Nat \ {0}, q \in Nat : p * q \in Nat /\ q <= p * q
    <3> TAKE p \in Nat \ {0}, q \in Nat
    <3>1. p * q = q + (p - 1) * q /\ (p - 1) * q \in Nat
      OBVIOUS
    <3> QED  BY <3>1
  <2> QED  BY <1>1, <2>1
<1>3. CASE IsDir(i)
  <2>1. Subdirs(i) \in SUBSET Names
    BY DEF Subdirs
  <2>2. Cardinality(Subdirs(i)) <= Cardinality(Names) /\ Cardinality(Subdirs(i)) \in Nat
    BY <1>1, <2>1, FS_Subset, FS_CardinalityType
  <2> QED  BY <1>1, <1>2, <1>3, <2>2 DEF Count
<1>4. CASE ~ IsDir(i)
  <2>1. NamesOf(i) \in SUBSET (Inodes \X Names)
    BY DEF NamesOf
  <2>2. IsFiniteSet(Inodes \X Names)
        /\ Cardinality(Inodes \X Names) = InodeCount * Cardinality(Names)
    BY <1>1, FS_Product
  <2>3. Cardinality(NamesOf(i)) <= InodeCount * Cardinality(Names) /\ Cardinality(NamesOf(i)) \in Nat
    BY <2>1, <2>2, FS_Subset, FS_CardinalityType
  <2> QED  BY <1>1, <1>2, <1>4, <2>3 DEF Count
<1> QED  BY <1>3, <1>4

\* Where inodes and names are too few to fill a link count or to nest too deep, what
\* the other theorems say holds without a condition on the execution.
THEOREM SmallIsWhole ==
    ASSUME 2 + InodeCount * Cardinality(Names) < LinkModulus, InodeCount <= AncestorSteps + 1
    PROVE  Spec => [](/\ NamesPointAtInodes /\ NoNameLost /\ LinkCountsExact
                      /\ TreeShape /\ NothingLeaks)
<1>1. LinksFit
  BY FewNames
<1> QED  BY <1>1, SmallIsShallow, TreeInvariant, NamesPoint, NamesKept, CountsExact,
            TreeKeepsShape, NothingLost, PTL

=============================================================================
