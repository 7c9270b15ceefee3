---------------------------- MODULE UnpackProofs ----------------------------
(***************************************************************************)
(* Unpacking does to the contents of paths what Layer says, whatever the   *)
(* archive, the volume it meets and the place where it fails.              *)
(*                                                                         *)
(* A volume is sound when names and inodes fit each other; every call of   *)
(* Tree keeps it so, and what it does to the contents of paths is worked   *)
(* out once, in Shown.  The stream invariant of ArchiveProofs gives what   *)
(* has arrived of a file: the contents up to where the reader is.  Each    *)
(* action is then a step of Layer, and that the tree stays a tree follows  *)
(* from Layer's steps alone.                                               *)
(***************************************************************************)
EXTENDS ArchiveProofs, Induction

(***************************************************************************)
(* Paths.                                                                  *)
(***************************************************************************)
\* The beginnings of a path.
UpTo(p, n) == SubSeq(p, 1, n)
Ancestors(p) == {UpTo(p, n) : n \in 1 .. Len(p) - 1}

\* A path has names in it.
LEMMA PathLength ==
    ASSUME NEW p \in Paths
    PROVE  Row(p) /\ Len(p) \in Nat \ {0} /\ p # << >>
BY PathRow, RowFacts

\* A prefix is a beginning.
LEMMA PrefixIs ==
    ASSUME NEW p, NEW q, Row(p), Row(q)
    PROVE  IsPrefix(p, q) <=> Len(p) <= Len(q) /\ p = UpTo(q, Len(p))
<1>1. SubSeq(p, 1, Len(p)) = p
  BY SubSeqFull DEF Row
<1> QED  BY <1>1 DEF IsPrefix, UpTo

\* Beginnings of beginnings.
LEMMA Beginnings ==
    ASSUME NEW p, Row(p), NEW n \in 0 .. Len(p)
    PROVE  /\ Row(UpTo(p, n)) /\ Len(UpTo(p, n)) = n /\ UpTo(p, Len(p)) = p
           /\ \A i \in 1 .. n : UpTo(p, n)[i] = p[i]
           /\ \A m \in 0 .. n : UpTo(UpTo(p, n), m) = UpTo(p, m)
           /\ Parent(p) = UpTo(p, Len(p) - 1)
<1>1. Len(p) \in Nat /\ n \in Nat
  BY RowFacts
<1>2. ASSUME NEW k \in 0 .. Len(p)
      PROVE  /\ Row(UpTo(p, k)) /\ Len(UpTo(p, k)) = k
             /\ \A i \in 1 .. k : UpTo(p, k)[i] = p[i]
  <2>1. 1 \in Nat \ {0} /\ k \in Nat
    BY <1>1
  <2>2. /\ Row(SubSeq(p, 1, k)) /\ Len(SubSeq(p, 1, k)) = IF 1 <= k THEN k - 1 + 1 ELSE 0
        /\ \A i \in 1 .. k - 1 + 1 : SubSeq(p, 1, k)[i] = p[1 + i - 1]
    BY <2>1, PartOf
  <2>3. (IF 1 <= k THEN k - 1 + 1 ELSE 0) = k /\ k - 1 + 1 = k
    BY <2>1
  <2> QED  BY <2>2, <2>3 DEF UpTo
<1>3. UpTo(p, Len(p)) = p
  BY SubSeqFull DEF Row, UpTo
<1>4. ASSUME NEW m \in 0 .. n  PROVE UpTo(UpTo(p, n), m) = UpTo(p, m)
  <2> DEFINE q == UpTo(p, n)
             a == UpTo(q, m)
             b == UpTo(p, m)
  <2>1. Row(q) /\ Len(q) = n /\ \A i \in 1 .. n : q[i] = p[i]
    BY <1>2
  <2>2. m \in 0 .. Len(p) /\ m \in Nat
    BY <1>1
  <2>3. Row(b) /\ Len(b) = m /\ \A i \in 1 .. m : b[i] = p[i]
    BY <1>2, <2>2
  <2> HIDE DEF q, b
  <2>4. Row(a) /\ Len(a) = m /\ \A i \in 1 .. m : a[i] = q[i]
    <3>1. 1 \in Nat \ {0} /\ m \in 0 .. Len(q)
      BY <2>1
    <3>2. /\ Row(SubSeq(q, 1, m)) /\ Len(SubSeq(q, 1, m)) = IF 1 <= m THEN m - 1 + 1 ELSE 0
          /\ \A i \in 1 .. m - 1 + 1 : SubSeq(q, 1, m)[i] = q[1 + i - 1]
      BY <2>1, <3>1, PartOf
    <3>3. (IF 1 <= m THEN m - 1 + 1 ELSE 0) = m /\ m - 1 + 1 = m
      BY <2>2
    <3> QED  BY <3>2, <3>3 DEF UpTo
  <2> HIDE DEF a
  <2>5. \A i \in 1 .. m : a[i] = b[i]
    BY <1>1, <2>1, <2>3, <2>4
  <2>6. a = b
    <3>1. a \in Seq(ToSet(a)) /\ b \in Seq(ToSet(b))
      BY <2>3, <2>4 DEF Row
    <3> QED  BY <2>3, <2>4, <2>5, <3>1, SeqEqual
  <2> QED  BY <2>6 DEF a, b, q
<1> QED  BY <1>2, <1>3, <1>4 DEF Parent, Front, UpTo

\* The beginnings of a path of the volume are paths of it.
LEMMA PathsClosed ==
    ASSUME NEW p \in Paths, NEW n \in 1 .. Len(p)
    PROVE  UpTo(p, n) \in Paths
<1> DEFINE T == {k \in Nat : k < Len(p) => UpTo(p, Len(p) - k) \in Paths}
<1>1. Row(p) /\ Len(p) \in Nat \ {0}
  BY PathLength
<1>2. 0 \in T
  <2>1. UpTo(p, Len(p)) = p /\ Len(p) - 0 = Len(p)
    BY <1>1, Beginnings
  <2> QED  BY <2>1
<1>3. ASSUME NEW k \in Nat, k \in T  PROVE k + 1 \in T
  <2> SUFFICES ASSUME k + 1 < Len(p)  PROVE UpTo(p, Len(p) - (k + 1)) \in Paths
    OBVIOUS
  <2> DEFINE m == Len(p) - k
             q == UpTo(p, m)
  <2>1. m \in 0 .. Len(p) /\ m > 1 /\ q \in Paths /\ m - 1 = Len(p) - (k + 1) /\ m - 1 \in 0 .. m
    BY <1>1, <1>3
  <2>2. Len(q) = m /\ Row(q) /\ UpTo(q, m - 1) = UpTo(p, m - 1)
    <3> HIDE DEF m
    <3> QED  BY <1>1, <2>1, Beginnings
  <2> HIDE DEF q, m
  <2>3. Front(q) \in Paths
    BY <2>1, <2>2, PathsAssumption
  <2>4. Front(q) = UpTo(p, m - 1)
    BY <2>2 DEF Front, UpTo
  <2> QED  BY <2>1, <2>3, <2>4
<1> HIDE DEF T
<1>4. Len(p) - n \in T /\ Len(p) - n < Len(p) /\ Len(p) - (Len(p) - n) = n
  <2>1. Len(p) - n \in Nat
    BY <1>1
  <2>2. Nat \subseteq T
    BY <1>2, <1>3, NumbersReached
  <2> QED  BY <1>1, <2>1, <2>2
<1> QED  BY <1>4 DEF T

\* The paths above one are its ancestors, and they are above what is under it.
LEMMA AncestorsAre ==
    ASSUME NEW p \in Paths
    PROVE  /\ Ancestors(p) \subseteq Paths /\ p \notin Ancestors(p)
           /\ \A q \in Paths : q \in Ancestors(p) <=> IsStrictPrefix(q, p)
           /\ \A q \in Ancestors(p) : Len(q) < Len(p) /\ Ancestors(q) \subseteq Ancestors(p)
           /\ \A q \in Ancestors(p) : p \notin Ancestors(q)
<1>1. Row(p) /\ Len(p) \in Nat \ {0}
  BY PathLength
<1>2. ASSUME NEW q \in Ancestors(p)
      PROVE  q \in Paths /\ Len(q) < Len(p) /\ Len(q) \in Nat /\ q = UpTo(p, Len(q))
             /\ Ancestors(q) \subseteq Ancestors(p)
  <2>1. PICK n \in 1 .. Len(p) - 1 : q = UpTo(p, n)
    BY DEF Ancestors
  <2>2. n \in 1 .. Len(p) /\ n \in 0 .. Len(p) /\ n < Len(p) /\ n \in Nat
    BY <1>1
  <2>3. q \in Paths /\ Len(q) = n
    BY <1>1, <2>1, <2>2, PathsClosed, Beginnings
  <2>4. ASSUME NEW r \in Ancestors(q)  PROVE r \in Ancestors(p)
    <3>1. PICK m \in 1 .. n - 1 : r = UpTo(q, m)
      BY <2>3 DEF Ancestors
    <3>2. m \in 0 .. n /\ m \in 1 .. Len(p) - 1
      BY <1>1, <2>2
    <3>3. UpTo(q, m) = UpTo(p, m)
      BY <1>1, <2>1, <2>2, <3>2, Beginnings
    <3> QED  BY <3>1, <3>2, <3>3 DEF Ancestors
  <2> QED  BY <2>1, <2>2, <2>3, <2>4
<1>3. \A q \in Ancestors(p) : Len(q) < Len(p) /\ Len(q) \in Nat
  BY <1>2
<1>4. p \notin Ancestors(p)
  BY <1>1, <1>3
<1>5. \A q \in Ancestors(p) : p \notin Ancestors(q)
  BY <1>2, <1>4
<1>6. ASSUME NEW q \in Paths  PROVE q \in Ancestors(p) <=> IsStrictPrefix(q, p)
  <2>1. Row(q) /\ Len(q) \in Nat \ {0}
    BY PathLength
  <2>2. IsStrictPrefix(q, p) <=> Len(q) <= Len(p) /\ q = UpTo(p, Len(q)) /\ q # p
    BY <1>1, <2>1, PrefixIs DEF IsStrictPrefix
  <2>3. ASSUME q \in Ancestors(p)  PROVE IsStrictPrefix(q, p)
    BY <1>1, <1>2, <2>2, <2>3
  <2>4. ASSUME IsStrictPrefix(q, p)  PROVE q \in Ancestors(p)
    <3>1. UpTo(p, Len(p)) = p
      BY <1>1, Beginnings
    <3>2. Len(q) # Len(p)
      BY <2>2, <2>4, <3>1
    <3>3. Len(q) \in 1 .. Len(p) - 1
      BY <1>1, <2>1, <2>2, <2>4, <3>2
    <3> QED  BY <2>2, <2>4, <3>3 DEF Ancestors
  <2> QED  BY <2>3, <2>4
<1> QED  BY <1>2, <1>4, <1>5, <1>6

\* What is under a path is the path and what it is an ancestor of.
LEMMA UnderIs ==
    ASSUME NEW p \in Paths, NEW q \in Paths
    PROVE  q \in Under(p) <=> q = p \/ p \in Ancestors(q)
<1>1. Row(p) /\ IsPrefix(p, p)
  BY PathLength, FrontIsPrefix
<1>2. p \in Ancestors(q) <=> IsStrictPrefix(p, q)
  BY AncestorsAre
<1> QED  BY <1>1, <1>2 DEF Under, IsStrictPrefix

\* A path's parent is the last of its ancestors.
LEMMA ParentIs ==
    ASSUME NEW p \in Paths
    PROVE  /\ Row(Parent(p)) /\ Len(Parent(p)) = Len(p) - 1
           /\ Len(p) > 1 => Parent(p) \in Ancestors(p) /\ Parent(p) \in Paths
           /\ Ancestors(p) = {UpTo(Parent(p), n) : n \in 1 .. Len(Parent(p))}
<1>1. Row(p) /\ Len(p) \in Nat \ {0}
  BY PathLength
<1> DEFINE m == Len(p) - 1
<1>2. m \in 0 .. Len(p) /\ m \in Nat
  BY <1>1
<1>3. /\ Parent(p) = UpTo(p, m) /\ Row(UpTo(p, m)) /\ Len(UpTo(p, m)) = m
      /\ \A k \in 0 .. m : UpTo(UpTo(p, m), k) = UpTo(p, k)
  BY <1>1, <1>2, Beginnings
<1>4. ASSUME Len(p) > 1  PROVE Parent(p) \in Ancestors(p) /\ Parent(p) \in Paths
  <2>1. m \in 1 .. Len(p) - 1 /\ m \in 1 .. Len(p)
    BY <1>1, <1>4
  <2> QED  BY <1>3, <2>1, PathsClosed DEF Ancestors
<1>5. Ancestors(p) = {UpTo(Parent(p), n) : n \in 1 .. Len(Parent(p))}
  <2> HIDE DEF m
  <2>1. \A n \in 1 .. m : n \in 0 .. m
    BY <1>2
  <2> QED  BY <1>3, <2>1 DEF Ancestors, m
<1> QED  BY <1>3, <1>4, <1>5

\* Layer says the same of paths.
LEMMA LayerPaths ==
    /\ \A p \in Paths : Kept!Above(p) = Ancestors(p)
    /\ \A p : Kept!Under(p) = Under(p)
<1>1. \A p, q : Kept!IsPrefix(p, q) = IsPrefix(p, q)
  BY DEF Kept!IsPrefix, IsPrefix
<1>2. \A p, q : Kept!IsStrictPrefix(p, q) = IsStrictPrefix(p, q)
  BY <1>1 DEF Kept!IsStrictPrefix, IsStrictPrefix
<1>3. ASSUME NEW p \in Paths  PROVE Kept!Above(p) = Ancestors(p)
  <2>1. \A q \in Paths : q \in Ancestors(p) <=> IsStrictPrefix(q, p)
    BY AncestorsAre
  <2>2. Ancestors(p) \subseteq Paths
    BY AncestorsAre
  <2> QED  BY <1>2, <2>1, <2>2 DEF Kept!Above
<1> QED  BY <1>1, <1>3 DEF Kept!Under, Under

(***************************************************************************)
(* Volumes.                                                                *)
(***************************************************************************)
\* An inode in use, and a volume whose names and inodes fit each other.
Live(n) ==
    /\ n = Node(n.kind, n.data, n.attr, n.labels, n.time)
    /\ n.kind \in Kinds \ {"hardlink"} /\ (n.kind = "dir" => n.data = << >>)
Named(names, i) == \E p \in Paths : names[p] = i
Fit(names, inodes) ==
    /\ names \in [Paths -> Inodes \cup {Absent}]
    /\ inodes = [i \in Inodes |-> inodes[i]]
    /\ \A i \in Inodes : IF Named(names, i) THEN Live(inodes[i]) ELSE inodes[i] = Free
Volume(names, inodes) == [names |-> names, inodes |-> inodes]
Sound(v) == v = Volume(v.names, v.inodes) /\ Fit(v.names, v.inodes)

\* What its paths hold.
Shown(v) ==
    [p \in Paths |-> IF Exists(v, p) THEN Kept!Holding(InodeAt(v, p).kind, InodeAt(v, p).data)
                     ELSE Kept!Nothing]

\* As many inodes as paths, all of them numbers, and Absent is none of them.
LEMMA InodeFacts ==
    /\ Inodes \subseteq Nat /\ Absent \notin Inodes
    /\ IsFiniteSet(Inodes) /\ IsFiniteSet(Paths) /\ Cardinality(Inodes) = Cardinality(Paths)
<1>1. Cardinality(Paths) \in Nat
  BY PathsAssumption, FS_CardinalityType
<1>2. IsFiniteSet(Inodes) /\ Cardinality(Inodes) = Cardinality(Paths)
  <2>1. IsFiniteSet(1 .. Cardinality(Paths))
        /\ Cardinality(1 .. Cardinality(Paths)) =
              IF 1 > Cardinality(Paths) THEN 0 ELSE Cardinality(Paths) - 1 + 1
    BY <1>1, FS_Interval
  <2> QED  BY <1>1, <2>1 DEF Inodes
<1> QED  BY <1>1, <1>2, PathsAssumption DEF Inodes

\* A path of a volume names nothing or a live inode.
LEMMA ShownIs ==
    ASSUME NEW v, Sound(v), NEW p \in Paths
    PROVE  /\ Exists(v, p) <=> v.names[p] # Absent
           /\ Exists(v, p) => /\ v.names[p] \in Inodes /\ Live(v.inodes[v.names[p]])
                              /\ Shown(v)[p] = Kept!Holding(v.inodes[v.names[p]].kind,
                                                            v.inodes[v.names[p]].data)
           /\ ~Exists(v, p) => Shown(v)[p] = Kept!Nothing
           /\ Exists(v, p) <=> Shown(v)[p] # Kept!Nothing
           /\ IsDir(v, p) <=> Shown(v)[p] = Kept!Directory
<1>1. p # << >>
  BY PathLength
<1>2. Exists(v, p) <=> v.names[p] # Absent
  BY <1>1 DEF Exists
<1>3. ASSUME Exists(v, p)
      PROVE  /\ v.names[p] \in Inodes /\ Live(v.inodes[v.names[p]])
             /\ Shown(v)[p] = Kept!Holding(v.inodes[v.names[p]].kind, v.inodes[v.names[p]].data)
  <2>1. v.names[p] \in Inodes
    BY <1>2, <1>3 DEF Sound, Fit
  <2>2. Live(v.inodes[v.names[p]])
    BY <2>1 DEF Sound, Fit, Named
  <2> QED  BY <1>3, <2>1, <2>2 DEF Shown, InodeAt
<1>4. ~Exists(v, p) => Shown(v)[p] = Kept!Nothing
  BY DEF Shown
<1>5. \A n : Live(n) => /\ Kept!Holding(n.kind, n.data) # Kept!Nothing
                        /\ n.kind = "dir" <=> Kept!Holding(n.kind, n.data) = Kept!Directory
  BY DEF Live, Kinds, Kept!Holding, Kept!Nothing, Kept!Directory
<1>6. Kept!Nothing # Kept!Directory
  BY DEF Kept!Holding, Kept!Nothing, Kept!Directory
<1> QED  BY <1>1, <1>2, <1>3, <1>4, <1>5, <1>6 DEF IsDir, InodeAt

\* It is told by its names and inodes.
LEMMA VolumeIs ==
    ASSUME NEW names, NEW inodes, Fit(names, inodes)
    PROVE  LET v == Volume(names, inodes)
           IN  /\ Sound(v) /\ v.names = names /\ v.inodes = inodes
               /\ \A p \in Paths : Shown(v)[p] =
                     IF names[p] = Absent THEN Kept!Nothing
                     ELSE Kept!Holding(inodes[names[p]].kind, inodes[names[p]].data)
<1> DEFINE v == Volume(names, inodes)
<1>1. v.names = names /\ v.inodes = inodes
  BY DEF Volume
<1> HIDE DEF v
<1>2. Sound(v)
  BY <1>1 DEF Sound, v
<1>3. \A p \in Paths : Shown(v)[p] =
                     IF names[p] = Absent THEN Kept!Nothing
                     ELSE Kept!Holding(inodes[names[p]].kind, inodes[names[p]].data)
  BY <1>1, <1>2, ShownIs
<1> QED  BY <1>1, <1>2, <1>3 DEF v

\* An inode with another time.
LEMMA Retimed ==
    ASSUME NEW n, Live(n), NEW t
    PROVE  LET m == [n EXCEPT !.time = t]
           IN  Live(m) /\ m.kind = n.kind /\ m.data = n.data /\ m # Free
<1> DEFINE m == [n EXCEPT !.time = t]
<1>1. /\ n = Node(n.kind, n.data, n.attr, n.labels, n.time)
      /\ n.kind \in Kinds \ {"hardlink"} /\ (n.kind = "dir" => n.data = << >>)
  BY DEF Live
<1>2. m = Node(n.kind, n.data, n.attr, n.labels, t) /\ m.kind = n.kind /\ m.data = n.data
      /\ m.attr = n.attr /\ m.labels = n.labels /\ m.time = t
  BY <1>1 DEF Node
<1> HIDE DEF m
<1>3. Live(m)
  BY <1>1, <1>2 DEF Live
<1>4. m.kind # Free.kind
  BY <1>1, <1>2 DEF Free, Kinds
<1> QED  BY <1>2, <1>3, <1>4 DEF m

\* Names taken away.
EmptiedIn(tree, gone) == [q \in Paths |-> IF q \in gone THEN Kept!Nothing ELSE tree[q]]

\* unlink and rmdir: the names are gone, inodes left without one are free.
LEMMA WithoutIs ==
    ASSUME NEW v, Sound(v), NEW gone
    PROVE  /\ Sound(Without(v, gone))
           /\ Shown(Without(v, gone)) = EmptiedIn(Shown(v), gone)
           /\ \A p \in Paths : Without(v, gone).names[p] = IF p \in gone THEN Absent ELSE v.names[p]
<1> DEFINE present == {p \in gone : Exists(v, p)}
           changed == {v.names[Parent(p)] : p \in {q \in present : Len(q) > 1}}
           kept(i) == NamesOf(v, i) \ gone
           names == [p \in Paths |-> IF p \in gone THEN Absent ELSE v.names[p]]
           inodes == [i \in Inodes |->
                        IF kept(i) = {} THEN Free
                        ELSE IF i \in changed THEN [v.inodes[i] EXCEPT !.time = 0]
                        ELSE v.inodes[i]]
<1>1. Without(v, gone) = Volume(names, inodes)
  BY DEF Without, Volume
<1>2. Fit(v.names, v.inodes)
  BY DEF Sound
<1> HIDE DEF changed
<1>3. ASSUME NEW i \in Inodes
      PROVE  /\ Named(names, i) <=> kept(i) # {}
             /\ kept(i) = {} => inodes[i] = Free
             /\ kept(i) # {} => /\ Live(v.inodes[i]) /\ Live(inodes[i])
                                /\ inodes[i].kind = v.inodes[i].kind
                                /\ inodes[i].data = v.inodes[i].data
  <2>1. Named(names, i) <=> kept(i) # {}
    BY InodeFacts DEF Named, NamesOf
  <2>2. kept(i) # {} => Live(v.inodes[i])
    BY <1>2 DEF NamesOf, Fit, Named
  <2>3. inodes[i] = IF kept(i) = {} THEN Free
                    ELSE IF i \in changed THEN [v.inodes[i] EXCEPT !.time = 0]
                    ELSE v.inodes[i]
    OBVIOUS
  <2> HIDE DEF inodes, names, kept
  <2>4. kept(i) # {} => /\ Live(inodes[i])
                        /\ inodes[i].kind = v.inodes[i].kind
                        /\ inodes[i].data = v.inodes[i].data
    BY <2>2, <2>3, Retimed
  <2> QED  BY <2>1, <2>2, <2>3, <2>4
<1>4. names \in [Paths -> Inodes \cup {Absent}] /\ inodes = [i \in Inodes |-> inodes[i]]
  BY <1>2 DEF Fit
<1>5. \A p \in Paths : names[p] = IF p \in gone THEN Absent ELSE v.names[p]
  OBVIOUS
<1>6. \A p \in Paths : p \notin gone => p \in kept(v.names[p])
  BY DEF NamesOf
<1> HIDE DEF names, inodes, kept
<1>7. Fit(names, inodes)
  BY <1>3, <1>4 DEF Fit
<1>8. /\ Sound(Without(v, gone)) /\ Without(v, gone).names = names
      /\ \A p \in Paths : Shown(Without(v, gone))[p] =
            IF names[p] = Absent THEN Kept!Nothing
            ELSE Kept!Holding(inodes[names[p]].kind, inodes[names[p]].data)
  BY <1>1, <1>7, VolumeIs
<1>9. ASSUME NEW p \in Paths
      PROVE  Shown(Without(v, gone))[p] = IF p \in gone THEN Kept!Nothing ELSE Shown(v)[p]
  <2>1. CASE p \in gone
    BY <1>5, <1>8, <2>1
  <2>2. CASE p \notin gone /\ v.names[p] = Absent
    BY <1>5, <1>8, <2>2, ShownIs
  <2>3. CASE p \notin gone /\ v.names[p] # Absent
    <3>1. v.names[p] \in Inodes
      BY <1>2, <2>3 DEF Fit
    <3>2. kept(v.names[p]) # {}
      BY <1>6, <2>3
    <3> QED  BY <1>3, <1>5, <1>8, <2>3, <3>1, <3>2, ShownIs
  <2> QED  BY <2>1, <2>2, <2>3
<1>10. Shown(Without(v, gone)) = EmptiedIn(Shown(v), gone)
  BY <1>9 DEF EmptiedIn, Shown
<1> QED  BY <1>5, <1>8, <1>10

\* While a path names nothing an inode is free: there are as many inodes as paths.
LEMMA InodeLeft ==
    ASSUME NEW v, Sound(v), NEW p \in Paths, v.names[p] = Absent
    PROVE  \E i \in Inodes : NamesOf(v, i) = {}
<1> SUFFICES ASSUME \A i \in Inodes : NamesOf(v, i) # {}  PROVE FALSE
  OBVIOUS
<1> DEFINE f == [i \in Inodes |-> CHOOSE q \in Paths : v.names[q] = i]
           others == Paths \ {p}
<1>1. \A i \in Inodes : f[i] \in Paths /\ v.names[f[i]] = i
  BY DEF NamesOf
<1> HIDE DEF f
<1>2. \A i \in Inodes : f[i] \in others
  BY <1>1, InodeFacts
<1>3. f \in [Inodes -> others]
  BY <1>2 DEF f
<1>4. IsFiniteSet(others) /\ Cardinality(others) < Cardinality(Inodes)
  <2>1. IsFiniteSet(others) /\ Cardinality(others) = Cardinality(Paths) - 1
    BY InodeFacts, FS_RemoveElement
  <2>2. Cardinality(Paths) \in Nat
    BY InodeFacts, FS_CardinalityType
  <2> QED  BY <2>1, <2>2, InodeFacts
<1> HIDE DEF others
<1>5. \E i, j \in Inodes : i # j /\ f[i] = f[j]
  BY <1>3, <1>4, InodeFacts, FS_PigeonHole
<1> QED  BY <1>1, <1>5

\* A path that named nothing names an inode of its own.
Put(tree, p, x) == [q \in Paths |-> IF q = p THEN x ELSE tree[q]]

\* write_with, symlink and mknod: a free inode there is, and it takes the contents.
LEMMA MakeIs ==
    ASSUME NEW v, Sound(v), NEW p \in Paths, v.names[p] = Absent, NEW node, Live(node)
    PROVE  /\ Sound(Make(v, p, node))
           /\ Shown(Make(v, p, node)) = Put(Shown(v), p, Kept!Holding(node.kind, node.data))
           /\ Make(v, p, node).names[p] \in Inodes
           /\ NamesOf(Make(v, p, node), Make(v, p, node).names[p]) = {p}
<1> DEFINE i == CHOOSE j \in Inodes : NamesOf(v, j) = {}
           names == [v.names EXCEPT ![p] = i]
           inodes == [v.inodes EXCEPT ![i] = node]
<1>1. i \in Inodes /\ NamesOf(v, i) = {}
  BY InodeLeft
<1>2. Make(v, p, node) = Volume(names, inodes)
  BY DEF Make, Volume
<1> HIDE DEF i
<1>3. Fit(v.names, v.inodes)
  BY DEF Sound
<1>4. names \in [Paths -> Inodes \cup {Absent}] /\ inodes = [j \in Inodes |-> inodes[j]]
  BY <1>1, <1>3 DEF Fit
<1>5. /\ \A q \in Paths : names[q] = IF q = p THEN i ELSE v.names[q]
      /\ \A j \in Inodes : inodes[j] = IF j = i THEN node ELSE v.inodes[j]
  BY <1>1, <1>3 DEF Fit
<1>6. \A q \in Paths : v.names[q] # i
  BY <1>1 DEF NamesOf
<1> HIDE DEF names, inodes
<1>7. Fit(names, inodes)
  <2>1. ASSUME NEW j \in Inodes
        PROVE  IF Named(names, j) THEN Live(inodes[j]) ELSE inodes[j] = Free
    <3>1. CASE j = i
      BY <1>5, <3>1 DEF Named
    <3>2. CASE j # i
      <4>1. Named(names, j) <=> Named(v.names, j)
        BY <1>5, <3>2, InodeFacts DEF Named
      <4> QED  BY <1>3, <1>5, <3>2, <4>1 DEF Fit
    <3> QED  BY <3>1, <3>2
  <2> QED  BY <1>4, <2>1 DEF Fit
<1>8. LET u == Make(v, p, node)
      IN  /\ Sound(u) /\ u.names = names
          /\ \A q \in Paths : Shown(u)[q] =
                IF names[q] = Absent THEN Kept!Nothing
                ELSE Kept!Holding(inodes[names[q]].kind, inodes[names[q]].data)
  BY <1>2, <1>7, VolumeIs
<1>9. i # Absent
  BY <1>1, InodeFacts
<1>10. ASSUME NEW q \in Paths
       PROVE  Shown(Make(v, p, node))[q] =
                 IF q = p THEN Kept!Holding(node.kind, node.data) ELSE Shown(v)[q]
  <2>1. CASE q = p
    BY <1>1, <1>5, <1>8, <1>9, <2>1
  <2>2. CASE q # p /\ v.names[q] = Absent
    BY <1>5, <1>8, <2>2, ShownIs
  <2>3. CASE q # p /\ v.names[q] # Absent
    <3>1. v.names[q] \in Inodes /\ v.names[q] # i
      BY <1>3, <1>6, <2>3 DEF Fit
    <3> QED  BY <1>5, <1>8, <2>3, <3>1, ShownIs
  <2> QED  BY <2>1, <2>2, <2>3
<1>11. Shown(Make(v, p, node)) = Put(Shown(v), p, Kept!Holding(node.kind, node.data))
  BY <1>10 DEF Put, Shown
<1>12. \A q \in Paths : names[q] = i <=> q = p
  BY <1>5, <1>6
<1>13. NamesOf(Make(v, p, node), Make(v, p, node).names[p]) = {p}
  BY <1>8, <1>12 DEF NamesOf
<1> QED  BY <1>1, <1>5, <1>8, <1>11, <1>13

\* The time of an inode does not show.
LEMMA RetimedIs ==
    ASSUME NEW v, Sound(v), NEW p \in Paths, NEW t
    PROVE  LET u == [v EXCEPT !.inodes[v.names[p]].time = t]
           IN  Sound(u) /\ Shown(u) = Shown(v)
<1> DEFINE i == v.names[p]
           inodes == [v.inodes EXCEPT ![i] = [@ EXCEPT !.time = t]]
           u == [v EXCEPT !.inodes[i].time = t]
<1>1. Fit(v.names, v.inodes) /\ v = Volume(v.names, v.inodes)
  BY DEF Sound
<1>2. u = Volume(v.names, inodes)
  BY <1>1 DEF Volume
<1>3. i \in Inodes \cup {Absent} /\ Absent \notin Inodes
  BY <1>1, InodeFacts DEF Fit
<1>4. inodes = [j \in Inodes |-> inodes[j]]
  BY <1>1 DEF Fit
<1>5. \A j \in Inodes : inodes[j] = IF j = i THEN [v.inodes[j] EXCEPT !.time = t] ELSE v.inodes[j]
  BY <1>1 DEF Fit
<1>6. i \in Inodes => Named(v.names, i)
  BY DEF Named
<1> HIDE DEF inodes, i
<1>7. ASSUME NEW j \in Inodes
      PROVE  /\ IF Named(v.names, j) THEN Live(inodes[j]) ELSE inodes[j] = Free
             /\ Named(v.names, j) => inodes[j].kind = v.inodes[j].kind
                                     /\ inodes[j].data = v.inodes[j].data
  <2>1. IF Named(v.names, j) THEN Live(v.inodes[j]) ELSE v.inodes[j] = Free
    BY <1>1 DEF Fit
  <2>2. CASE j = i
    <3>1. Named(v.names, j) /\ Live(v.inodes[j])
      BY <1>6, <2>1, <2>2
    <3>2. inodes[j] = [v.inodes[j] EXCEPT !.time = t]
      BY <1>5, <2>2
    <3> QED  BY <3>1, <3>2, Retimed
  <2>3. CASE j # i
    BY <1>5, <2>1, <2>3
  <2> QED  BY <2>2, <2>3
<1>8. Fit(v.names, inodes)
  BY <1>1, <1>4, <1>7 DEF Fit
<1>9. /\ Sound(u)
      /\ \A q \in Paths : Shown(u)[q] =
             IF v.names[q] = Absent THEN Kept!Nothing
             ELSE Kept!Holding(inodes[v.names[q]].kind, inodes[v.names[q]].data)
  BY <1>2, <1>8, VolumeIs
<1>10. ASSUME NEW q \in Paths  PROVE Shown(u)[q] = Shown(v)[q]
  <2>1. CASE v.names[q] = Absent
    BY <1>9, <2>1, ShownIs
  <2>2. CASE v.names[q] # Absent
    <3>1. v.names[q] \in Inodes /\ Named(v.names, v.names[q])
      BY <1>1, <2>2 DEF Fit, Named
    <3> QED  BY <1>7, <1>9, <2>2, <3>1, ShownIs
  <2> QED  BY <2>1, <2>2
<1>11. Shown(u) = Shown(v)
  BY <1>10 DEF Shown
<1> QED  BY <1>9, <1>11 DEF i

\* mkdir_with.
LEMMA MakeDirIs ==
    ASSUME NEW v, Sound(v), NEW p \in Paths, v.names[p] = Absent, NEW attr
    PROVE  /\ Sound(MakeDir(v, p, attr))
           /\ Shown(MakeDir(v, p, attr)) = Put(Shown(v), p, Kept!Directory)
<1> DEFINE node == Node("dir", << >>, attr, {}, 0)
           made == Make(v, p, node)
<1>1. Live(node) /\ Kept!Holding(node.kind, node.data) = Kept!Directory
  BY DEF Live, Node, Kinds, Kept!Directory
<1> HIDE DEF node
<1>2. Sound(made) /\ Shown(made) = Put(Shown(v), p, Kept!Directory)
  BY <1>1, MakeIs
<1>3. MakeDir(v, p, attr) = IF Len(p) = 1 THEN made
                            ELSE [made EXCEPT !.inodes[v.names[Parent(p)]].time = 0]
  BY DEF MakeDir, node
<1>4. CASE Len(p) = 1
  BY <1>2, <1>3, <1>4
<1>5. CASE Len(p) # 1
  <2>1. Len(p) > 1
    <3>1. PICK n \in Nat \ {0} : n = Len(p)
      BY PathLength
    <3>2. n > 1
      BY <1>5, <3>1
    <3> QED  BY <3>1, <3>2
  <2>2. Parent(p) \in Paths /\ Parent(p) # p
    BY <2>1, ParentIs, AncestorsAre
  <2>3. made.names[Parent(p)] = v.names[Parent(p)]
    BY <2>2 DEF Make, Sound, Fit
  <2> HIDE DEF made
  <2> QED  BY <1>2, <1>3, <1>5, <2>2, <2>3, RetimedIs
<1> QED  BY <1>4, <1>5

\* mkdir_all: one directory along p after the other.
Made(v, p, n) ==
    IF Exists(v, UpTo(p, n)) THEN v ELSE MakeDir(v, UpTo(p, n), DefaultAttr)
MakesAll(v, p, n, it) ==
    it = [s \in SUBSET (1 .. n) |-> IF s = {} THEN v ELSE Made(it[s \ {Max(s)}], p, Max(s))]

\* The fold it is has a value.
LEMMA MakesAllExists ==
    ASSUME NEW v, NEW p, NEW n \in Nat
    PROVE  \E it : MakesAll(v, p, n, it)
<1> DEFINE T == {k \in Nat : \E it : MakesAll(v, p, k, it)}
<1>1. 0 \in T
  <2> DEFINE it == [s \in SUBSET (1 .. 0) |-> v]
  <2>1. \A s \in SUBSET (1 .. 0) : s = {}
    OBVIOUS
  <2>2. MakesAll(v, p, 0, it)
    BY <2>1 DEF MakesAll
  <2> QED  BY <2>2
<1>2. ASSUME NEW k \in Nat, k \in T  PROVE  k + 1 \in T
  <2>1. PICK f : MakesAll(v, p, k, f)
    BY <1>2
  <2> DEFINE g == [s \in SUBSET (1 .. k + 1) |->
                     IF k + 1 \in s THEN Made(f[s \ {k + 1}], p, k + 1) ELSE f[s]]
  <2>2. \A s \in SUBSET (1 .. k + 1) : s \ {k + 1} \in SUBSET (1 .. k)
    OBVIOUS
  <2>3. \A s \in SUBSET (1 .. k + 1) : k + 1 \notin s => s \in SUBSET (1 .. k)
    OBVIOUS
  <2>4. g = [s \in SUBSET (1 .. k + 1) |-> g[s]]
    OBVIOUS
  <2>5. \A s \in SUBSET (1 .. k + 1) :
           g[s] = IF k + 1 \in s THEN Made(f[s \ {k + 1}], p, k + 1) ELSE f[s]
    OBVIOUS
  <2>6. \A s \in SUBSET (1 .. k) : s \in SUBSET (1 .. k + 1) /\ g[s] = f[s]
    BY <2>5
  <2>7. \A s \in SUBSET (1 .. k) :
           f[s] = IF s = {} THEN v ELSE Made(f[s \ {Max(s)}], p, Max(s))
    BY <2>1, Zenon DEF MakesAll
  <2> HIDE DEF g
  <2>8. ASSUME NEW s \in SUBSET (1 .. k + 1)
        PROVE  g[s] = IF s = {} THEN v ELSE Made(g[s \ {Max(s)}], p, Max(s))
    <3>1. CASE k + 1 \in s
      <4>1. Max(s) = k + 1
        <5>1. k + 1 \in Nat /\ s # {}
          BY <3>1
        <5>2. Max(s) \in s /\ \A y \in s : y <= Max(s)
          BY <5>1, MaxIs
        <5>3. Max(s) \in 1 .. k + 1 /\ k + 1 <= Max(s)
          BY <3>1, <5>2
        <5> QED  BY <5>3
      <4>2. g[s \ {k + 1}] = f[s \ {k + 1}]
        BY <2>2, <2>6
      <4> QED  BY <2>5, <3>1, <4>1, <4>2
    <3>2. CASE k + 1 \notin s /\ s # {}
      <4>1. s \in SUBSET (1 .. k) /\ s \ {Max(s)} \in SUBSET (1 .. k)
        BY <2>3, <3>2
      <4>2. f[s] = Made(f[s \ {Max(s)}], p, Max(s))
        BY <2>7, <3>2, <4>1
      <4> QED  BY <2>6, <3>2, <4>1, <4>2
    <3>3. CASE s = {}
      <4>1. s \in SUBSET (1 .. k)
        BY <3>3
      <4>2. g[s] = f[s] /\ f[s] = v
        BY <2>6, <2>7, <3>3, <4>1
      <4> QED  BY <3>3, <4>2
    <3> QED  BY <3>1, <3>2, <3>3
  <2>9. MakesAll(v, p, k + 1, g)
    BY <2>4, <2>8, Zenon DEF MakesAll
  <2> QED  BY <2>9
<1>3. n \in T
  <2> HIDE DEF T
  <2> QED  BY <1>1, <1>2, NumbersReached
<1> QED  BY <1>3

\* A tree with directories on the way, as far as the first n of p.
LedTo(tree, p, n) ==
    [q \in Paths |-> IF q \in {UpTo(p, m) : m \in 1 .. n} /\ tree[q] = Kept!Nothing
                     THEN Kept!Directory ELSE tree[q]]

\* mkdir_all, one step after the other.
LEMMA MakeAllSteps ==
    ASSUME NEW v, NEW p, Row(p)
    PROVE  \E c : /\ c[1 .. 0] = v /\ MakeAll(v, p) = c[1 .. Len(p)]
                  /\ \A k \in 0 .. Len(p) - 1 : c[1 .. k + 1] = Made(c[1 .. k], p, k + 1)
<1> DEFINE N == Len(p)
           Folds(it) == it = [s \in SUBSET (DOMAIN [n \in 1 .. Len(p) |-> n]) |->
                           IF s = {} THEN v
                           ELSE IF Exists(it[s \ {Max(s)}],
                                          SubSeq(p, 1, [n \in 1 .. Len(p) |-> n][Max(s)]))
                                THEN it[s \ {Max(s)}]
                                ELSE MakeDir(it[s \ {Max(s)}],
                                             SubSeq(p, 1, [n \in 1 .. Len(p) |-> n][Max(s)]),
                                             DefaultAttr)]
           c == CHOOSE it : Folds(it)
<1>1. N \in Nat
  BY RowFacts
<1>2. MakeAll(v, p) = c[DOMAIN [n \in 1 .. Len(p) |-> n]]
  BY Zenon DEF MakeAll, FoldLeft, MapThenFoldSet
<1>3. DOMAIN [n \in 1 .. Len(p) |-> n] = 1 .. N
  OBVIOUS
<1>4. \A s \in SUBSET (1 .. N) : s # {} => [n \in 1 .. Len(p) |-> n][Max(s)] = Max(s)
  <2> TAKE s \in SUBSET (1 .. N)
  <2>1. s # {} => Max(s) \in 1 .. N
    BY <1>1, MaxIs
  <2> QED  BY <2>1
<1>5. MakesAll(v, p, N, c)
  <2>1. PICK it : MakesAll(v, p, N, it)
    BY <1>1, MakesAllExists
  <2>2. ASSUME NEW f  PROVE Folds(f) <=> MakesAll(v, p, N, f)
    <3> DEFINE one == [s \in SUBSET (1 .. N) |->
                         IF s = {} THEN v ELSE Made(f[s \ {Max(s)}], p, Max(s))]
               two == [s \in SUBSET (DOMAIN [n \in 1 .. Len(p) |-> n]) |->
                           IF s = {} THEN v
                           ELSE IF Exists(f[s \ {Max(s)}],
                                          SubSeq(p, 1, [n \in 1 .. Len(p) |-> n][Max(s)]))
                                THEN f[s \ {Max(s)}]
                                ELSE MakeDir(f[s \ {Max(s)}],
                                             SubSeq(p, 1, [n \in 1 .. Len(p) |-> n][Max(s)]),
                                             DefaultAttr)]
    <3>1. \A s \in SUBSET (1 .. N) : one[s] = two[s]
      BY <1>3, <1>4 DEF Made, UpTo
    <3>2. one = two
      BY <1>3, <3>1
    <3>3. (Folds(f) <=> f = two) /\ (MakesAll(v, p, N, f) <=> f = one)
      BY Zenon DEF MakesAll
    <3> HIDE DEF one, two, Folds
    <3> QED  BY <3>2, <3>3
  <2> HIDE DEF Folds
  <2>3. Folds(c)
    BY <2>1, <2>2
  <2> QED  BY <2>2, <2>3
<1> HIDE DEF c
<1>6. MakeAll(v, p) = c[1 .. N]
  BY <1>2, <1>3
<1>7. c[1 .. 0] = v
  <2>1. 1 .. 0 = {} /\ {} \in SUBSET (1 .. N)
    OBVIOUS
  <2> QED  BY <1>5, <2>1 DEF MakesAll
<1>8. ASSUME NEW k \in 0 .. N - 1  PROVE c[1 .. k + 1] = Made(c[1 .. k], p, k + 1)
  <2>1. k \in Nat /\ k + 1 <= N
    BY <1>1
  <2> HIDE DEF N
  <2>2. k + 1 \in 1 .. k + 1
    BY <2>1
  <2>3. (1 .. k + 1) \in SUBSET (1 .. N) /\ 1 .. k + 1 # {} /\ k + 1 \in Nat \ {0}
        /\ (k + 1) - 1 = k
    BY <1>1, <2>1, <2>2
  <2>4. Max(1 .. k + 1) = k + 1 /\ (1 .. k + 1) \ {k + 1} = 1 .. k
    BY <2>3, MaxOfFirst
  <2> QED  BY <1>5, <2>3, <2>4 DEF MakesAll
<1> QED  BY <1>6, <1>7, <1>8

\* What it adds to the tree.
LEMMA MakeAllIs ==
    ASSUME NEW v, Sound(v), NEW p, Row(p), \A n \in 1 .. Len(p) : UpTo(p, n) \in Paths
    PROVE  /\ Sound(MakeAll(v, p))
           /\ Shown(MakeAll(v, p)) = LedTo(Shown(v), p, Len(p))
<1> DEFINE N == Len(p)
<1>1. N \in Nat
  BY RowFacts
<1>2. PICK c : /\ c[1 .. 0] = v /\ MakeAll(v, p) = c[1 .. N]
               /\ \A k \in 0 .. N - 1 : c[1 .. k + 1] = Made(c[1 .. k], p, k + 1)
  BY MakeAllSteps
<1> DEFINE T == {k \in Nat : k <= N => /\ Sound(c[1 .. k])
                                       /\ Shown(c[1 .. k]) = LedTo(Shown(v), p, k)}
<1>7. 0 \in T
  <2>1. 1 .. 0 = {}
    OBVIOUS
  <2>2. LedTo(Shown(v), p, 0) = Shown(v)
    BY <2>1 DEF LedTo, Shown
  <2> QED  BY <1>2, <2>2
<1>8. ASSUME NEW k \in Nat, k \in T  PROVE k + 1 \in T
  <2> SUFFICES ASSUME k + 1 <= N
               PROVE  /\ Sound(c[1 .. k + 1])
                      /\ Shown(c[1 .. k + 1]) = LedTo(Shown(v), p, k + 1)
    OBVIOUS
  <2> DEFINE u == c[1 .. k]
             q == UpTo(p, k + 1)
  <2>1. Sound(u) /\ Shown(u) = LedTo(Shown(v), p, k)
    BY <1>1, <1>8
  <2>2. c[1 .. k + 1] = Made(u, p, k + 1)
    <3>1. k \in 0 .. N - 1
      BY <1>1
    <3> QED  BY <1>2, <3>1
  <2>3. k + 1 \in 1 .. N /\ q \in Paths
    BY <1>1
  <2>4. \A r \in Paths : Shown(u)[r] = IF r \in {UpTo(p, m) : m \in 1 .. k}
                                           /\ Shown(v)[r] = Kept!Nothing
                                       THEN Kept!Directory ELSE Shown(v)[r]
    BY <2>1 DEF LedTo
  <2>5. \A r : r \in {UpTo(p, m) : m \in 1 .. k + 1} <=>
                  r \in {UpTo(p, m) : m \in 1 .. k} \/ r = q
    <3>1. \A m : m \in 1 .. k + 1 <=> m \in 1 .. k \/ m = k + 1
      OBVIOUS
    <3> QED  BY <3>1
  <2> HIDE DEF u, q
  <2>6. CASE Exists(u, q)
    <3>1. Made(u, p, k + 1) = u
      BY <2>6 DEF Made, q
    <3>2. Shown(u)[q] # Kept!Nothing
      BY <2>1, <2>3, <2>6, ShownIs
    <3>3. \A r \in Paths : Shown(u)[r] = IF r \in {UpTo(p, m) : m \in 1 .. k + 1}
                                             /\ Shown(v)[r] = Kept!Nothing
                                         THEN Kept!Directory ELSE Shown(v)[r]
      BY <2>3, <2>4, <2>5, <3>2
    <3>4. Shown(u) = LedTo(Shown(v), p, k + 1)
      BY <3>3 DEF LedTo, Shown
    <3> QED  BY <2>1, <2>2, <3>1, <3>4
  <2>7. CASE ~Exists(u, q)
    <3>1. Made(u, p, k + 1) = MakeDir(u, q, DefaultAttr)
      BY <2>7 DEF Made, q
    <3>2. u.names[q] = Absent /\ Shown(u)[q] = Kept!Nothing
      BY <2>1, <2>3, <2>7, ShownIs
    <3> DEFINE w == MakeDir(u, q, DefaultAttr)
    <3>3. Sound(w) /\ Shown(w) = Put(Shown(u), q, Kept!Directory)
      BY <2>1, <2>3, <3>2, MakeDirIs
    <3>4. Kept!Nothing # Kept!Directory
      BY DEF Kept!Nothing, Kept!Directory, Kept!Holding
    <3> HIDE DEF w
    <3>5. \A r \in Paths : Shown(w)[r] = IF r \in {UpTo(p, m) : m \in 1 .. k + 1}
                                             /\ Shown(v)[r] = Kept!Nothing
                                         THEN Kept!Directory ELSE Shown(v)[r]
      <4> TAKE r \in Paths
      <4>1. Shown(w)[r] = IF r = q THEN Kept!Directory ELSE Shown(u)[r]
        BY <3>3 DEF Put
      <4>2. Shown(v)[q] = Kept!Nothing
        BY <2>3, <2>4, <3>2, <3>4
      <4> QED  BY <2>4, <2>5, <4>1, <4>2
    <3>6. Shown(w) = LedTo(Shown(v), p, k + 1)
      BY <3>5 DEF LedTo, Shown
    <3> QED  BY <2>2, <3>1, <3>3, <3>6 DEF w
  <2> QED  BY <2>6, <2>7
<1> HIDE DEF T
<1>9. N \in T
  BY <1>1, <1>7, <1>8, NumbersReached
<1> QED  BY <1>1, <1>2, <1>9 DEF T

\* link: another name of what t names.
LEMMA LinkIs ==
    ASSUME NEW v, Sound(v), NEW p \in Paths, v.names[p] = Absent, NEW t \in Paths, Exists(v, t)
    PROVE  /\ Sound(Link(v, t, p))
           /\ Shown(Link(v, t, p)) = Put(Shown(v), p, Shown(v)[t])
<1> DEFINE i == v.names[t]
           names == [v.names EXCEPT ![p] = i]
<1>1. Fit(v.names, v.inodes) /\ v = Volume(v.names, v.inodes)
  BY DEF Sound
<1>2. Link(v, t, p) = Volume(names, v.inodes)
  BY <1>1 DEF Link, Volume
<1>3. i \in Inodes /\ i # Absent /\ t # p
  BY ShownIs, InodeFacts
<1>4. names \in [Paths -> Inodes \cup {Absent}]
  BY <1>1, <1>3 DEF Fit
<1>5. \A q \in Paths : names[q] = IF q = p THEN i ELSE v.names[q]
  BY <1>1 DEF Fit
<1>6. v.names[t] = i
  OBVIOUS
<1> HIDE DEF names, i
<1>7. \A j \in Inodes : Named(names, j) <=> Named(v.names, j)
  BY <1>3, <1>5, <1>6, InodeFacts DEF Named
<1>8. Fit(names, v.inodes)
  BY <1>1, <1>4, <1>7 DEF Fit
<1>9. /\ Sound(Link(v, t, p))
      /\ \A q \in Paths : Shown(Link(v, t, p))[q] =
             IF names[q] = Absent THEN Kept!Nothing
             ELSE Kept!Holding(v.inodes[names[q]].kind, v.inodes[names[q]].data)
  BY <1>2, <1>8, VolumeIs
<1>10. \A q \in Paths : Shown(Link(v, t, p))[q] = IF q = p THEN Shown(v)[t] ELSE Shown(v)[q]
  BY <1>3, <1>5, <1>6, <1>9, ShownIs
<1>11. Shown(Link(v, t, p)) = Put(Shown(v), p, Shown(v)[t])
  BY <1>10 DEF Put, Shown
<1> QED  BY <1>9, <1>11

\* The inode p names is written again: every name of it shows that.
LEMMA RewriteIs ==
    ASSUME NEW v, Sound(v), NEW p \in Paths, Exists(v, p), NEW node, Live(node)
    PROVE  LET u == [v EXCEPT !.inodes[v.names[p]] = node]
           IN  /\ Sound(u)
               /\ \A q \in Paths : Shown(u)[q] = IF q \in NamesOf(v, v.names[p])
                                                 THEN Kept!Holding(node.kind, node.data)
                                                 ELSE Shown(v)[q]
<1> DEFINE i == v.names[p]
           inodes == [v.inodes EXCEPT ![i] = node]
           u == [v EXCEPT !.inodes[i] = node]
<1>1. Fit(v.names, v.inodes) /\ v = Volume(v.names, v.inodes)
  BY DEF Sound
<1>2. u = Volume(v.names, inodes)
  BY <1>1 DEF Volume
<1>3. i \in Inodes /\ i # Absent /\ Named(v.names, i)
  BY ShownIs, InodeFacts DEF Named
<1>4. inodes = [j \in Inodes |-> inodes[j]]
  BY <1>1 DEF Fit
<1>5. \A j \in Inodes : inodes[j] = IF j = i THEN node ELSE v.inodes[j]
  BY <1>1 DEF Fit
<1>6. \A q \in Paths : q \in NamesOf(v, i) <=> v.names[q] = i
  BY DEF NamesOf
<1> HIDE DEF inodes, i
<1>7. \A j \in Inodes : IF Named(v.names, j) THEN Live(inodes[j]) ELSE inodes[j] = Free
  BY <1>1, <1>3, <1>5 DEF Fit
<1>8. Fit(v.names, inodes)
  BY <1>1, <1>4, <1>7 DEF Fit
<1>9. /\ Sound(u)
      /\ \A q \in Paths : Shown(u)[q] =
             IF v.names[q] = Absent THEN Kept!Nothing
             ELSE Kept!Holding(inodes[v.names[q]].kind, inodes[v.names[q]].data)
  BY <1>2, <1>8, VolumeIs
<1> HIDE DEF u
<1>10. ASSUME NEW q \in Paths
       PROVE  Shown(u)[q] = IF q \in NamesOf(v, i) THEN Kept!Holding(node.kind, node.data)
                            ELSE Shown(v)[q]
  <2>1. CASE v.names[q] = Absent
    BY <1>3, <1>6, <1>9, <2>1, ShownIs
  <2>2. CASE v.names[q] # Absent
    <3>1. v.names[q] \in Inodes
      BY <1>1, <2>2 DEF Fit
    <3> QED  BY <1>5, <1>6, <1>9, <2>2, <3>1, ShownIs
  <2> QED  BY <2>1, <2>2
<1> QED  BY <1>9, <1>10 DEF i, u

\* Attributes and times do not show.
LEMMA StampIs ==
    ASSUME NEW v, Sound(v), NEW p \in Paths, Exists(v, p), NEW attr, NEW labels, NEW time
    PROVE  /\ Sound(Stamp(v, p, attr, labels, time))
           /\ Shown(Stamp(v, p, attr, labels, time)) = Shown(v)
<1> DEFINE old == InodeAt(v, p)
           node == Node(old.kind, old.data, attr, labels, IF time # 0 THEN time ELSE old.time)
           u == [v EXCEPT !.inodes[v.names[p]] = node]
<1>1. old = v.inodes[v.names[p]] /\ Live(old)
  BY ShownIs DEF InodeAt
<1> HIDE DEF old
<1>2. node.kind = old.kind /\ node.data = old.data
  BY DEF Node
<1>3. node = Node(node.kind, node.data, node.attr, node.labels, node.time)
  BY DEF Node
<1>4. Stamp(v, p, attr, labels, time) = u
  BY DEF Stamp, old
<1> HIDE DEF node
<1>5. Live(node)
  BY <1>1, <1>2, <1>3 DEF Live
<1>6. /\ Sound(u)
      /\ \A q \in Paths : Shown(u)[q] = IF q \in NamesOf(v, v.names[p])
                                        THEN Kept!Holding(node.kind, node.data)
                                        ELSE Shown(v)[q]
  BY <1>5, RewriteIs
<1> HIDE DEF u
<1>7. ASSUME NEW q \in Paths, q \in NamesOf(v, v.names[p])
      PROVE  Shown(v)[q] = Kept!Holding(node.kind, node.data)
  <2>1. v.names[q] = v.names[p] /\ Exists(v, q)
    BY <1>7, ShownIs DEF NamesOf
  <2> QED  BY <1>1, <1>2, <2>1, ShownIs
<1>8. \A q \in Paths : Shown(u)[q] = Shown(v)[q]
  BY <1>6, <1>7
<1>9. Shown(u) = Shown(v)
  BY <1>8 DEF Shown
<1> QED  BY <1>4, <1>6, <1>9

\* Contents for the only name of an inode.
LEMMA StoreIs ==
    ASSUME NEW v, Sound(v), NEW p \in Paths, Exists(v, p), NamesOf(v, v.names[p]) = {p},
           NEW node, Live(node)
    PROVE  LET u == [v EXCEPT !.inodes[v.names[p]] = node]
           IN  Sound(u) /\ Shown(u) = Put(Shown(v), p, Kept!Holding(node.kind, node.data))
<1> DEFINE u == [v EXCEPT !.inodes[v.names[p]] = node]
<1>1. /\ Sound(u)
      /\ \A q \in Paths : Shown(u)[q] = IF q \in NamesOf(v, v.names[p])
                                        THEN Kept!Holding(node.kind, node.data)
                                        ELSE Shown(v)[q]
  BY RewriteIs
<1> HIDE DEF u
<1>2. Shown(u) = Put(Shown(v), p, Kept!Holding(node.kind, node.data))
  BY <1>1 DEF Put, Shown
<1> QED  BY <1>1, <1>2 DEF u

(***************************************************************************)
(* What Layer says, said of the volume.                                    *)
(***************************************************************************)
Stage == IF at = "failed" THEN "stopped" ELSE IF answer = "entry" THEN "busy" ELSE "idle"
Shaped(tree) ==
    \A p \in Paths : tree[p] # Kept!Nothing => \A q \in Ancestors(p) : tree[q] = Kept!Directory
PlacedIn(tree, p, x) ==
    [q \in Paths |-> IF q = p THEN x
                     ELSE IF q \in Under(p) THEN Kept!Nothing
                     ELSE IF q \in Ancestors(p) /\ tree[q] = Kept!Nothing THEN Kept!Directory
                     ELSE tree[q]]
NewPlace == Entry.path # << >> /\ ~IsMarker
CanPlace ==
    /\ Entry.path \in Paths
    /\ \A q \in Ancestors(Entry.path) : Shown(vol)[q] \in {Kept!Nothing, Kept!Directory}

\* Its entry in hand.
LEMMA KeptEntry ==
    /\ Kept!Entry = Entry
    /\ Kept!IsNewPlace <=> NewPlace
    /\ Entry.path # << >> => (Kept!IsMarker <=> IsMarker)
    /\ Kept!Hidden = Hidden
<1>1. \A s : Kept!Last(s) = Last(s) /\ Kept!Front(s) = Front(s)
  BY DEF Kept!Last, Last, Kept!Front, Front
<1>2. Kept!Entry = Entry
  BY <1>1 DEF Kept!Entry, Entry
<1>3. Kept!Marker = LastName
  BY <1>1, <1>2 DEF Kept!Marker, LastName
<1>4. Kept!IsMarker <=> Entry.path # << >> /\ IsMarker
  BY <1>2, <1>3 DEF Kept!IsMarker, IsMarker, Markers
<1>5. Kept!Hidden = Hidden
  BY <1>1, <1>2, <1>3, LayerPaths DEF Kept!Hidden, Hidden, Parent
<1> QED  BY <1>2, <1>4, <1>5 DEF Kept!IsNewPlace, NewPlace

\* Its tree is what the volume shows.
LEMMA KeptTree ==
    /\ \A p \in Paths : \A x : Kept!Placed(p, x) = PlacedIn(Shown(vol), p, x)
    /\ \A gone : Kept!Emptied(gone) = EmptiedIn(Shown(vol), gone)
    /\ Kept!CanApply <=> /\ CanPlace
                         /\ Entry.kind = "hardlink" =>
                               /\ Entry.link \in Paths \ Under(Entry.path)
                               /\ Shown(vol)[Entry.link] \notin {Kept!Nothing, Kept!Directory}
<1>1. \A p \in Paths : \A x : Kept!Placed(p, x) = PlacedIn(Shown(vol), p, x)
  BY LayerPaths DEF Kept!Placed, PlacedIn, Shown, Kept!Holding, Kept!Nothing
<1>2. \A gone : Kept!Emptied(gone) = EmptiedIn(Shown(vol), gone)
  BY DEF Kept!Emptied, EmptiedIn, Shown, Kept!Holding, Kept!Nothing
<1>3. Kept!CanApply <=> /\ CanPlace
                        /\ Entry.kind = "hardlink" =>
                               /\ Entry.link \in Paths \ Under(Entry.path)
                               /\ Shown(vol)[Entry.link] \notin {Kept!Nothing, Kept!Directory}
  BY KeptEntry, LayerPaths
     DEF Kept!CanApply, CanPlace, Shown, Kept!Holding, Kept!Nothing
<1> QED  BY <1>1, <1>2, <1>3

\* Its steps.
LEMMA KeptSteps ==
    /\ Kept!Apply <=> /\ Stage = "busy" /\ Stage' = "idle" /\ got' = got
                      /\ (NewPlace => Kept!CanApply) /\ Shown(vol)' = Kept!Applied
    /\ Kept!HalfApplied <=> /\ Stage = "busy" /\ NewPlace /\ Entry.kind = "file" /\ Kept!CanApply
                            /\ Shown(vol)' \in {Kept!Placed(Entry.path, Kept!Nothing),
                                                Kept!Placed(Entry.path, Kept!EmptyFile)}
    /\ Kept!Begin <=> Kept!HalfApplied /\ got' = got /\ Stage' = Stage
    /\ Kept!Read <=> /\ Stage = "idle" /\ Stage' = "busy" /\ Shown(vol)' = Shown(vol)
                     /\ Len(got') = Len(got) + 1 /\ IsPrefix(got, got')
<1>1. Kept!Apply <=> /\ Stage = "busy" /\ Stage' = "idle" /\ got' = got
                      /\ (NewPlace => Kept!CanApply) /\ Shown(vol)' = Kept!Applied
  BY KeptEntry DEF Kept!Apply, Stage, Shown, Kept!Holding, Kept!Nothing
<1>2. Kept!HalfApplied <=> /\ Stage = "busy" /\ NewPlace /\ Entry.kind = "file" /\ Kept!CanApply
                            /\ Shown(vol)' \in {Kept!Placed(Entry.path, Kept!Nothing),
                                                Kept!Placed(Entry.path, Kept!EmptyFile)}
  BY KeptEntry DEF Kept!HalfApplied, Stage, Shown, Kept!Holding, Kept!Nothing
<1>3. Kept!Begin <=> Kept!HalfApplied /\ got' = got /\ Stage' = Stage
  BY DEF Kept!Begin, Stage
<1>4. Kept!Read <=> /\ Stage = "idle" /\ Stage' = "busy" /\ Shown(vol)' = Shown(vol)
                     /\ Len(got') = Len(got) + 1 /\ IsPrefix(got, got')
  BY DEF Kept!Read, Kept!IsPrefix, IsPrefix, Stage, Shown, Kept!Holding, Kept!Nothing
<1> QED  BY <1>1, <1>2, <1>3, <1>4

\* What Layer lets an unpacking leave that stops.
LEMMA KeptStop ==
    Kept!Stop <=>
        /\ Stage' = "stopped" /\ got' = got
        /\ \/ Shown(vol)' = Shown(vol)
           \/ Kept!HalfApplied
           \/ Stage = "busy" /\ NewPlace /\ Kept!CanApply /\ Shown(vol)' = Kept!Applied
           \/ /\ Stage = "busy"
              /\ \A q \in Paths :
                    \/ Shown(vol)'[q] = Shown(vol)[q]
                    \/ /\ q \in IF IsMarker /\ Entry.path # << >> THEN Hidden ELSE Under(Entry.path)
                       /\ Shown(vol)'[q] = Kept!Nothing
                    \/ /\ ~(IsMarker /\ Entry.path # << >>) /\ q \in Kept!Above(Entry.path)
                       /\ Shown(vol)[q] = Kept!Nothing /\ Shown(vol)'[q] = Kept!Directory
              /\ Shaped(Shown(vol))'
<1> DEFINE marker == IsMarker /\ Entry.path # << >>
<1>1. Kept!IsMarker <=> marker
  BY KeptEntry DEF Kept!IsMarker
<1>2. Shaped(Shown(vol))' <=>
          \A q \in Paths : Shown(vol)'[q] # Kept!Nothing =>
                              \A r \in Kept!Above(q) : Shown(vol)'[r] = Kept!Directory
  BY LayerPaths DEF Shaped
<1> HIDE DEF marker
<1>3. Kept!Stop <=>
        /\ Stage' = "stopped" /\ got' = got
        /\ \/ Shown(vol)' = Shown(vol)
           \/ Kept!HalfApplied
           \/ Stage = "busy" /\ NewPlace /\ Kept!CanApply /\ Shown(vol)' = Kept!Applied
           \/ /\ Stage = "busy"
              /\ \A q \in Paths :
                    \/ Shown(vol)'[q] = Shown(vol)[q]
                    \/ /\ q \in IF Kept!IsMarker THEN Kept!Hidden ELSE Kept!Under(Kept!Entry.path)
                       /\ Shown(vol)'[q] = Kept!Nothing
                    \/ /\ ~Kept!IsMarker /\ q \in Kept!Above(Kept!Entry.path)
                       /\ Shown(vol)[q] = Kept!Nothing /\ Shown(vol)'[q] = Kept!Directory
              /\ \A q \in Paths : Shown(vol)'[q] # Kept!Nothing =>
                              \A r \in Kept!Above(q) : Shown(vol)'[r] = Kept!Directory
  BY KeptEntry DEF Kept!Stop, Stage, Shown, Kept!Holding, Kept!Nothing
<1> QED  BY <1>1, <1>2, <1>3, KeptEntry, LayerPaths DEF marker

\* What an entry puts in its place.
LEMMA KeptApplied ==
    /\ Entry.path = << >> => Kept!Applied = Shown(vol)
    /\ Entry.path # << >> /\ IsMarker => Kept!Applied = EmptiedIn(Shown(vol), Hidden)
    /\ NewPlace /\ Entry.path \in Paths =>
          /\ Entry.kind = "dir" /\ Shown(vol)[Entry.path] = Kept!Directory =>
                Kept!Applied = Shown(vol)
          /\ Entry.kind = "dir" /\ Shown(vol)[Entry.path] # Kept!Directory =>
                Kept!Applied = PlacedIn(Shown(vol), Entry.path, Kept!Directory)
          /\ Entry.kind = "device" =>
                Kept!Applied = PlacedIn(Shown(vol), Entry.path, Kept!Holding("device", << >>))
          /\ Entry.kind = "symlink" =>
                Kept!Applied = PlacedIn(Shown(vol), Entry.path, Kept!Holding("symlink", Entry.link))
          /\ Entry.kind = "file" =>
                Kept!Applied = PlacedIn(Shown(vol), Entry.path,
                                        Kept!Holding("file", Contents(Entry)))
          /\ Entry.kind = "hardlink" /\ Entry.link \in Paths =>
                Kept!Applied = PlacedIn(Shown(vol), Entry.path, Shown(vol)[Entry.link])
<1>1. Kept!Applied = IF Entry.path = << >> THEN Shown(vol)
                     ELSE IF IsMarker THEN Kept!Emptied(Kept!Hidden)
                     ELSE IF Entry.kind = "dir" /\ Shown(vol)[Entry.path] = Kept!Directory
                          THEN Shown(vol)
                     ELSE Kept!Placed(Entry.path, Kept!Brings)
  BY KeptEntry DEF Kept!Applied, Shown, Kept!Holding, Kept!Nothing
<1>2. /\ Entry.kind = "dir" => Kept!Brings = Kept!Directory
      /\ Entry.kind = "device" => Kept!Brings = Kept!Holding("device", << >>)
      /\ Entry.kind = "symlink" => Kept!Brings = Kept!Holding("symlink", Entry.link)
      /\ Entry.kind = "file" => Kept!Brings = Kept!Holding("file", Contents(Entry))
      /\ Entry.kind = "hardlink" => Kept!Brings = Shown(vol)[Entry.link]
  <2>1. Kept!Contents = Contents(Entry)
    BY KeptEntry DEF Kept!Contents, Contents
  <2>2. /\ Entry.kind = "dir" => Kept!Brings = Kept!Holding("dir", << >>)
        /\ Entry.kind = "device" => Kept!Brings = Kept!Holding("device", << >>)
        /\ Entry.kind = "symlink" => Kept!Brings = Kept!Holding("symlink", Entry.link)
        /\ Entry.kind = "file" => Kept!Brings = Kept!Holding("file", Kept!Contents)
    BY KeptEntry DEF Kept!Brings
  <2>3. Entry.kind = "hardlink" => Kept!Brings = Shown(vol)[Entry.link]
    BY KeptEntry DEF Kept!Brings, Shown, Kept!Holding, Kept!Nothing
  <2> QED  BY <2>1, <2>2, <2>3 DEF Kept!Directory
<1> QED  BY <1>1, <1>2, KeptEntry, KeptTree DEF NewPlace

(***************************************************************************)
(* A tree stays a tree in Layer.                                           *)
(***************************************************************************)
\* The contents Layer names differ.
LEMMA DirectoryIsThere == Kept!Directory # Kept!Nothing /\ Kept!EmptyFile # Kept!Nothing
BY DEF Kept!Directory, Kept!EmptyFile, Kept!Nothing, Kept!Holding

\* A tree stays one when something is placed in it,
LEMMA PlacedShaped ==
    ASSUME NEW tree, Shaped(tree), NEW p \in Paths, NEW x,
           \A q \in Ancestors(p) : tree[q] \in {Kept!Nothing, Kept!Directory}
    PROVE  Shaped(PlacedIn(tree, p, x))
<1> DEFINE t == PlacedIn(tree, p, x)
<1>1. \A q \in Paths : t[q] = IF q = p THEN x
                              ELSE IF q \in Under(p) THEN Kept!Nothing
                              ELSE IF q \in Ancestors(p) /\ tree[q] = Kept!Nothing
                                   THEN Kept!Directory
                              ELSE tree[q]
  BY DEF PlacedIn
<1> HIDE DEF t
<1>2. ASSUME NEW q \in Paths, t[q] # Kept!Nothing, NEW r \in Ancestors(q)
      PROVE  t[r] = Kept!Directory
  <2>1. r \in Paths /\ Ancestors(r) \subseteq Ancestors(q) /\ q \notin Ancestors(r)
    BY AncestorsAre
  <2>2. p \notin Ancestors(p) /\ Ancestors(p) \subseteq Paths
    BY AncestorsAre
  <2>3. r \in Under(p) <=> r = p \/ p \in Ancestors(r)
    BY <2>1, UnderIs
  <2>4. q \in Under(p) <=> q = p \/ p \in Ancestors(q)
    BY UnderIs
  <2>5. CASE q = p
    <3>1. r \notin Under(p) /\ r # p
      BY <2>1, <2>2, <2>3, <2>5
    <3> QED  BY <1>1, <2>1, <2>5, <3>1
  <2>6. CASE q # p
    <3>1. q \notin Under(p)
      BY <1>1, <1>2, <2>6
    <3>2. r # p /\ r \notin Under(p)
      BY <2>1, <2>3, <2>4, <3>1
    <3>3. CASE q \in Ancestors(p)
      <4>1. r \in Ancestors(p)
        BY <3>3, AncestorsAre
      <4> QED  BY <1>1, <2>1, <3>2, <4>1
    <3>4. CASE q \notin Ancestors(p)
      <4>1. tree[q] # Kept!Nothing
        BY <1>1, <1>2, <2>6, <3>1, <3>4
      <4>2. tree[r] = Kept!Directory
        BY <4>1 DEF Shaped
      <4> QED  BY <1>1, <2>1, <3>2, <4>2
    <3> QED  BY <3>3, <3>4
  <2> QED  BY <2>5, <2>6
<1> QED  BY <1>2 DEF Shaped, t

\* What is taken away with all that is under it leaves a tree.
Closed(gone) == \A r \in Paths, q \in Paths : r \in gone /\ r \in Ancestors(q) => q \in gone

\* or when what is under the paths that go goes with them.
LEMMA EmptiedShaped ==
    ASSUME NEW tree, Shaped(tree), NEW gone,
           \A r \in gone, q \in Paths : r \in Ancestors(q) /\ tree[q] # Kept!Nothing => q \in gone
    PROVE  Shaped(EmptiedIn(tree, gone))
BY AncestorsAre DEF Shaped, EmptiedIn

\* What is under a path, with the path or without, has all that is under it,
LEMMA UnderClosed ==
    ASSUME NEW x, Row(x)
    PROVE  Closed(Under(x)) /\ Closed(Under(x) \ {x})
<1> SUFFICES ASSUME NEW r \in Paths, NEW q \in Paths, r \in Under(x), r \in Ancestors(q)
             PROVE  q \in Under(x) /\ q # x
  BY DEF Closed
<1>1. Row(r) /\ Row(q) /\ Len(r) \in Nat /\ Len(q) \in Nat /\ Len(x) \in Nat
  BY PathLength, RowFacts
<1>2. IsPrefix(x, r) /\ IsPrefix(r, q)
  BY AncestorsAre DEF Under, IsStrictPrefix
<1>3. /\ Len(x) <= Len(r) /\ x = UpTo(r, Len(x))
      /\ Len(r) <= Len(q) /\ r = UpTo(q, Len(r)) /\ Len(r) < Len(q)
  BY <1>1, <1>2, PrefixIs, AncestorsAre
<1>4. Len(r) \in 0 .. Len(q) /\ Len(x) \in 0 .. Len(r) /\ Len(x) <= Len(q) /\ Len(x) # Len(q)
  BY <1>1, <1>3
<1>5. UpTo(UpTo(q, Len(r)), Len(x)) = UpTo(q, Len(x))
  BY <1>1, <1>4, Beginnings
<1>6. x = UpTo(q, Len(x))
  BY <1>3, <1>5
<1>7. IsPrefix(x, q)
  BY <1>1, <1>4, <1>6, PrefixIs
<1> QED  BY <1>4, <1>7 DEF Under

\* and so has what a marker hides.
LEMMA HiddenClosed ==
    ASSUME Row(Entry.path), Entry.path # << >>
    PROVE  Closed(Hidden)
<1>1. Row(Parent(Entry.path))
  BY FrontAndLast DEF Parent
<1>2. \A x : Row(Append(Parent(Entry.path), x))
  BY <1>1, Appended
<1>3. Closed({})
  BY DEF Closed
<1>4. Closed(Under(Parent(Entry.path)) \ {Parent(Entry.path)})
  BY <1>1, UnderClosed
<1>5. \A x : Closed(Under(Append(Parent(Entry.path), x)))
  BY <1>2, UnderClosed
<1> QED  BY <1>3, <1>4, <1>5 DEF Hidden

\* Whatever step of Layer is taken, the tree stays one.
LEMMA ShapeKept ==
    ASSUME Shaped(Shown(vol)), Stage = "busy" => Row(Entry.path), [Kept!Next]_(Kept!vars)
    PROVE  Shaped(Shown(vol))'
<1>1. CASE UNCHANGED Kept!vars
  <2>1. Shown(vol)' = Shown(vol)
    BY <1>1 DEF Kept!vars, Shown, Kept!Holding, Kept!Nothing
  <2> QED  BY <2>1 DEF Shaped
<1>2. ASSUME Shown(vol)' = Shown(vol)  PROVE Shaped(Shown(vol))'
  BY <1>2 DEF Shaped
<1>3. ASSUME NEW x, CanPlace, Shown(vol)' = PlacedIn(Shown(vol), Entry.path, x)
      PROVE  Shaped(Shown(vol))'
  <2>1. Shaped(PlacedIn(Shown(vol), Entry.path, x))
    BY <1>3, PlacedShaped DEF CanPlace
  <2> QED  BY <1>3, <2>1 DEF Shaped
<1>4. CASE Kept!HalfApplied
  <2>1. CanPlace /\ Entry.path \in Paths
    BY <1>4, KeptSteps, KeptTree DEF CanPlace
  <2>2. \/ Shown(vol)' = PlacedIn(Shown(vol), Entry.path, Kept!Nothing)
        \/ Shown(vol)' = PlacedIn(Shown(vol), Entry.path, Kept!EmptyFile)
    BY <1>4, <2>1, KeptSteps, KeptTree
  <2> QED  BY <1>3, <2>1, <2>2
<1>5. ASSUME Stage = "busy", NewPlace => Kept!CanApply, Shown(vol)' = Kept!Applied
      PROVE  Shaped(Shown(vol))'
  <2>1. CASE Entry.path = << >>
    BY <1>2, <1>5, <2>1, KeptApplied
  <2>2. CASE Entry.path # << >> /\ IsMarker
    <3>1. Closed(Hidden)
      BY <1>5, <2>2, HiddenClosed
    <3>2. Shown(vol)' = EmptiedIn(Shown(vol), Hidden)
      BY <1>5, <2>2, KeptApplied
    <3>3. \A r \in Hidden : \A q \in Paths : r \in Ancestors(q) => q \in Hidden
      BY <3>1, AncestorsAre DEF Closed
    <3>4. Shaped(EmptiedIn(Shown(vol), Hidden))
      BY <3>3, EmptiedShaped
    <3> QED  BY <3>2, <3>4 DEF Shaped
  <2>3. CASE NewPlace
    <3>1. CanPlace /\ Entry.path \in Paths
      BY <1>5, <2>3, KeptTree DEF CanPlace
    <3>2. \/ Kept!Applied = Shown(vol)
          \/ Kept!Applied = Kept!Placed(Entry.path, Kept!Brings)
      BY <2>3, KeptEntry
         DEF Kept!Applied, Shown, Kept!Holding, Kept!Nothing, NewPlace
    <3>3. Kept!Placed(Entry.path, Kept!Brings) = PlacedIn(Shown(vol), Entry.path, Kept!Brings)
      BY <3>1, KeptTree
    <3> QED  BY <1>2, <1>3, <1>5, <3>1, <3>2, <3>3
  <2> QED  BY <2>1, <2>2, <2>3 DEF NewPlace
<1>6. CASE Kept!Apply
  BY <1>5, <1>6, KeptSteps
<1>7. CASE Kept!Read
  BY <1>2, <1>7, KeptSteps
<1>8. CASE Kept!Begin
  BY <1>4, <1>8, KeptSteps
<1>9. CASE Kept!Stop
  BY <1>2, <1>4, <1>5, <1>9, KeptStop
<1> QED  BY <1>1, <1>6, <1>7, <1>8, <1>9 DEF Kept!Next

(***************************************************************************)
(* The entry in hand, and what has arrived of its contents.                *)
(***************************************************************************)
Seat ==
    /\ at \in {"entries", "contents", "restamping", "done", "failed"}
    /\ at = "failed" => answer # "asked"

Counts == owed \in Nat /\ owedPad \in 0 .. BLOCK - 1 /\ pad \in 0 .. BLOCK - 1

Arrived ==
    /\ left > 0 => got # << >> /\ Entry.size \in Nat /\ left <= Entry.size
    /\ answer = "entry" => got # << >> /\ Good(Entry) /\ left <= Entry.size
    /\ answer = "entry" /\ at = "entries" => left = Entry.size
    /\ at = "contents" => pending = SubSeq(Contents(Entry), 1, Entry.size - left)
    /\ answer = "entry" /\ ~cut =>
          wire = SubSeq(Contents(Entry), Entry.size - left + 1, Entry.size - owed)

\* What is left of the entry in hand is a number, and while the stream is whole that much
\* is on the wire or owed.
InHandOrBroken ==
    /\ left \in Nat /\ cut \in BOOLEAN
    /\ answer = "entry" /\ ~cut => InHand /\ got = sent /\ left = owed + Len(wire)
    /\ answer = "entry" /\ cut => closed /\ wire = << >> /\ left > 0
    /\ answer \in {"asked", "entry", "end", "error"}
    /\ at = "contents" => answer = "entry"
    /\ at \in {"restamping", "done"} => answer = "end"

\* The stream invariant says it,
LEMMA LeftIs == Inv => InHandOrBroken
<1> SUFFICES ASSUME Inv  PROVE InHandOrBroken
  OBVIOUS
<1>1. Common /\ Stream /\ InHands /\ cut \in BOOLEAN /\ Row(wire)
  BY DEF Inv, Common
<1>2. Len(wire) \in Nat
  BY <1>1, RowFacts
<1>3. CASE cut
  BY <1>1, <1>3 DEF Stream, BrokenOff, InHands, Common, InHandOrBroken
<1>4. CASE ~cut /\ InHand
  BY <1>1, <1>2, <1>4 DEF InHand, InHands, Common, InHandOrBroken
<1>5. CASE ~cut /\ ~InHand
  <2>1. Between \/ ReadWhole
    BY <1>1, <1>5 DEF Stream
  <2> QED  BY <1>1, <1>5, <2>1 DEF Between, ReadWhole, InHands, Common, InHandOrBroken
<1> QED  BY <1>3, <1>4, <1>5

\* before a step and after.
LEMMA LeftIsThen == Inv' => InHandOrBroken'
BY LeftIs, PTL

\* A writer with an entry in hand at the other end owes its contents.
LEMMA WritesArrived ==
    ASSUME Inv, Arrived, UNCHANGED readerVars, at' = at, pending' = pending, cut' = cut,
           \/ UNCHANGED streamVars
           \/ CanWrite /\ owed = 0
           \/ \E n : Write(n)
    PROVE  Arrived'
<1>1. answer' = answer /\ got' = got /\ left' = left /\ Entry' = Entry
  BY DEF readerVars, Entry
<1>2. ASSUME answer = "entry", ~cut
      PROVE  wire' = SubSeq(Contents(Entry), Entry.size - left + 1, Entry.size - owed')
  <2>1. /\ InHand /\ got = sent /\ left = owed + Len(wire) /\ left \in Nat /\ owed \in Nat
        /\ wire = SubSeq(Contents(Entry), Entry.size - left + 1, Entry.size - owed)
        /\ Entry.size \in Nat
    BY <1>2, LeftIs DEF Arrived, InHand, Good, InHandOrBroken
  <2>2. CASE UNCHANGED streamVars
    BY <2>1, <2>2 DEF streamVars, writerVars
  <2>3. ASSUME CanWrite  PROVE wire = << >> /\ owed # 0 /\ left = owed
    <3>1. wire = << >> /\ Len(wire) = 0 /\ left > 0
      BY <1>2, <2>3, EmptyRow DEF CanWrite, Looking
    <3> QED  BY <2>1, <3>1
  <2>4. ASSUME NEW n, Write(n)
        PROVE  wire' = SubSeq(Contents(Entry), Entry.size - left + 1, Entry.size - owed')
    <3>1. /\ CanWrite /\ n \in 1 .. owed /\ owed' = owed - n
          /\ wire' = SubSeq(Contents(Entry), Entry.size - owed + 1, Entry.size - owed + n)
      BY <2>1, <2>4 DEF Write, Entry
    <3>2. Entry.size - (owed - n) = Entry.size - owed + n
      BY <2>1, <3>1
    <3> QED  BY <2>3, <3>1, <3>2
  <2> QED  BY <2>2, <2>3, <2>4
<1> QED  BY <1>1, <1>2 DEF Arrived

\* The reader comes to the next entry, whose contents are all to come.
LEMMA ReadsArrived ==
    ASSUME Spills = {}, Inv, Inv', Arrived, ReaderStep, at' = at, pending' = pending, feed' = feed
    PROVE  /\ Arrived'
           /\ answer' = "entry" => Row(got) /\ got' = Append(got, Entry') /\ pad' = PadFor(Entry'.size)
           /\ answer' # "entry" => got' = got
<1>1. answer = "asked" /\ sent' = sent /\ cut' = cut /\ owed' = owed
  BY ReaderFrame
<1>2. at # "contents" /\ InHandOrBroken /\ InHandOrBroken'
  BY <1>1, LeftIs, LeftIsThen DEF InHandOrBroken
<1>3. CASE ~Deliver
  <2>1. answer' # "entry" /\ got' = got
    BY <1>1, <1>3 DEF ReaderStep, BeginNext, Skip, StreamEnds, ZeroBlock, LongName, LongLink,
       PaxRecords, GlobalRecords, SkipUnknown, Truncated, Passing, Carry
  <2>2. left' = left \/ left' = 0 \/ \E n \in Nat : left' = left - n
    <3>1. Len(wire) \in Nat /\ left \in Nat
      BY <1>2, RowFacts DEF Inv, Common, InHandOrBroken
    <3> QED  BY <1>3, <3>1 DEF ReaderStep, BeginNext, Skip, StreamEnds, ZeroBlock, LongName,
                LongLink, PaxRecords, GlobalRecords, SkipUnknown, Truncated, Passing, Carry
  <2>3. left' > 0 => left > 0 /\ left' <= left
    BY <1>2, <2>2 DEF InHandOrBroken
  <2>4. Entry' = Entry
    BY <2>1 DEF Entry
  <2>5. left' > 0 => got # << >> /\ Entry.size \in Nat /\ left' <= Entry.size
    <3>1. left \in Nat /\ left' \in Nat
      BY <1>2 DEF InHandOrBroken
    <3>2. left > 0 => got # << >> /\ Entry.size \in Nat /\ left <= Entry.size
      BY DEF Arrived
    <3> QED  BY <2>3, <3>1, <3>2
  <2>6. at' # "contents"
    BY <1>2
  <2>7. Arrived'
    BY <2>1, <2>4, <2>5, <2>6 DEF Arrived
  <2> QED  BY <2>1, <2>7
<1>4. CASE Deliver
  <2>1. /\ got' = Append(got, Resolved) /\ left' = Resolved.size
        /\ pad' = PadFor(Resolved.size) /\ answer' = "entry" /\ carried.scanning
    BY <1>4 DEF Deliver, Scanning
  <2>2. ~cut
    <3> SUFFICES ASSUME cut  PROVE FALSE
      BY <1>2 DEF InHandOrBroken
    <3>1. Needs \in Nat /\ Len(wire) < Needs /\ Len(wire) \in Nat
      BY <1>1, RowFacts DEF Inv, Common, Stream, BrokenOff
    <3> QED  BY <1>4, <3>1 DEF Deliver, Has
  <2>3. Between
    BY <1>1, <2>1, <2>2 DEF Inv, Stream, InHand, ReadWhole
  <2>4. got' = sent' /\ InHand' /\ left' = owed' + Len(wire')
    BY <1>1, <1>2, <2>1, <2>2 DEF InHandOrBroken
  <2>5. Row(sent) /\ (sent # << >> => Good(Newest))
    BY DEF Inv, Common
  <2>6. got # sent /\ sent # << >> /\ Resolved = Newest
    <3>1. Row(got)
      <4>1. got = sent \/ (sent # << >> /\ got = Front(sent))
        BY <2>3 DEF Between, Over, Quiet, Coming
      <4> QED  BY <2>5, <4>1, FrontAndLast
    <3>2. /\ Len(got') = Len(got) + 1 /\ Last(got') = Resolved /\ got' # << >>
          /\ Len(got) \in Nat
      BY <2>1, <3>1, Appended, RowFacts
    <3>3. got' = sent
      BY <1>1, <2>4
    <3> QED  BY <3>2, <3>3 DEF Newest
  <2>7. Row(got) /\ owed = SizeField(Newest)
    <3>1. \E x : Coming(x)
      BY <2>3, <2>6 DEF Between, Over, Quiet
    <3> QED  BY <2>5, <2>6, <3>1, FrontAndLast DEF Coming
  <2>8. Good(Newest) /\ owed = Newest.size /\ Newest.size \in Nat
    BY <2>5, <2>6, <2>7, Relabelled
  <2>9. Entry' = Newest /\ got' # << >>
    BY <1>1, <2>4, <2>6 DEF Entry, Newest
  <2>10. wire' = << >>
    <3>1. Row(wire') /\ Len(wire') \in Nat
      BY RowFacts DEF Inv, Common
    <3>2. left' = Newest.size /\ owed' = Newest.size
      BY <1>1, <2>1, <2>6, <2>8
    <3>3. Len(wire') = 0
      BY <2>4, <2>8, <3>1, <3>2
    <3> QED  BY <3>1, <3>3, RowFacts
  <2>11. wire' = SubSeq(Contents(Newest), Newest.size - left' + 1, Newest.size - owed')
    <3>1. Newest.size - left' + 1 = 1 /\ Newest.size - owed' = 0
      BY <1>1, <2>1, <2>6, <2>8
    <3> QED  BY <2>10, <3>1, SubSeqEmpty
  <2>12. at' # "contents" /\ left' = Newest.size
    BY <1>2, <2>1, <2>6
  <2>13. Arrived'
    BY <2>8, <2>9, <2>11, <2>12 DEF Arrived
  <2> QED  BY <2>1, <2>6, <2>7, <2>9, <2>13
<1> QED  BY <1>3, <1>4

\* A part of a part, and two parts one behind the other.
LEMMA PartOfPart ==
    ASSUME NEW c, Row(c), NEW m \in Nat \ {0}, NEW n \in 0 .. Len(c), m <= n + 1,
           NEW i \in Nat \ {0}, NEW j \in Nat, i <= j + 1, j <= n - m + 1
    PROVE  SubSeq(SubSeq(c, m, n), i, j) = SubSeq(c, m + i - 1, m + j - 1)
<1> DEFINE s == SubSeq(c, m, n)
           a == SubSeq(s, i, j)
           b == SubSeq(c, m + i - 1, m + j - 1)
<1>1. /\ Len(c) \in Nat /\ n \in Nat /\ m + i - 1 \in Nat \ {0} /\ m + j - 1 \in 0 .. Len(c)
      /\ (m + j - 1) - (m + i - 1) + 1 = j - i + 1 /\ n - m + 1 \in Nat /\ j - i + 1 \in Nat
  BY RowFacts
<1>2. Row(s) /\ Len(s) = n - m + 1 /\ \A k \in 1 .. n - m + 1 : s[k] = c[m + k - 1]
  <2>1. Len(s) = IF m <= n THEN n - m + 1 ELSE 0
    BY PartOf
  <2> QED  BY <1>1, <2>1, PartOf
<1>3. j \in 0 .. Len(s)
  BY <1>1, <1>2
<1> HIDE DEF s
<1>4. Row(a) /\ Len(a) = j - i + 1 /\ \A k \in 1 .. j - i + 1 : a[k] = s[i + k - 1]
  <2>1. Len(a) = IF i <= j THEN j - i + 1 ELSE 0
    BY <1>2, <1>3, PartOf
  <2> QED  BY <1>1, <1>2, <1>3, <2>1, PartOf
<1> DEFINE x == m + i - 1
           y == m + j - 1
<1>5. Row(b) /\ Len(b) = j - i + 1 /\ \A k \in 1 .. j - i + 1 : b[k] = c[x + k - 1]
  <2>1. x \in Nat \ {0} /\ y \in 0 .. Len(c) /\ y - x + 1 = j - i + 1 /\ (x <= y <=> i <= j)
    BY <1>1
  <2>2. b = SubSeq(c, x, y)
    OBVIOUS
  <2> HIDE DEF x, y, b
  <2>3. Row(b) /\ Len(b) = (IF x <= y THEN y - x + 1 ELSE 0)
        /\ \A k \in 1 .. y - x + 1 : b[k] = c[x + k - 1]
    BY <2>1, <2>2, PartOf
  <2> QED  BY <1>1, <2>1, <2>3
<1>6. ASSUME NEW k \in 1 .. j - i + 1  PROVE a[k] = b[k]
  <2>1. i + k - 1 \in 1 .. n - m + 1 /\ m + (i + k - 1) - 1 = x + k - 1
    BY <1>1
  <2> QED  BY <1>2, <1>4, <1>5, <2>1
<1> HIDE DEF a, b
<1>7. a = b
  BY <1>4, <1>5, <1>6, SeqEqual DEF Row
<1> QED  BY <1>7 DEF a, b, s

\* Two parts in a row are the part from one end to the other.
LEMMA PartsJoin ==
    ASSUME NEW c, Row(c), NEW m \in 0 .. Len(c), NEW n \in Nat, m + n <= Len(c)
    PROVE  SubSeq(c, 1, m) \o SubSeq(c, m + 1, m + n) = SubSeq(c, 1, m + n)
<1> DEFINE a == SubSeq(c, 1, m)
           b == SubSeq(c, m + 1, m + n)
           d == SubSeq(c, 1, m + n)
<1>1. Len(c) \in Nat /\ m \in Nat /\ m + n \in 0 .. Len(c) /\ m + 1 \in Nat \ {0} /\ 1 \in Nat \ {0}
  BY RowFacts
<1>2. Row(a) /\ Len(a) = m /\ \A k \in 1 .. m : a[k] = c[k]
  <2>1. Row(a) /\ Len(a) = (IF 1 <= m THEN m - 1 + 1 ELSE 0)
        /\ \A k \in 1 .. m - 1 + 1 : a[k] = c[1 + k - 1]
    BY <1>1, PartOf
  <2> QED  BY <1>1, <2>1
<1>3. Row(d) /\ Len(d) = m + n /\ \A k \in 1 .. m + n : d[k] = c[k]
  <2>1. Row(d) /\ Len(d) = (IF 1 <= m + n THEN m + n - 1 + 1 ELSE 0)
        /\ \A k \in 1 .. m + n - 1 + 1 : d[k] = c[1 + k - 1]
    BY <1>1, PartOf
  <2> QED  BY <1>1, <2>1
<1>4. Row(b) /\ Len(b) = n /\ \A k \in 1 .. n : b[k] = c[m + k]
  <2> DEFINE x == m + 1
             y == m + n
  <2>1. x \in Nat \ {0} /\ y \in 0 .. Len(c) /\ y - x + 1 = n /\ b = SubSeq(c, x, y)
    BY <1>1
  <2>2. (x <= y \/ n = 0) /\ \A k \in 1 .. n : x + k - 1 = m + k
    BY <1>1
  <2> HIDE DEF x, y, b
  <2>3. Row(b) /\ Len(b) = (IF x <= y THEN y - x + 1 ELSE 0)
        /\ \A k \in 1 .. y - x + 1 : b[k] = c[x + k - 1]
    BY <2>1, PartOf
  <2> QED  BY <2>1, <2>2, <2>3
<1> HIDE DEF a, b, d
<1> DEFINE e == a \o b
<1>5. /\ Row(e) /\ Len(e) = m + n
      /\ \A k \in 1 .. m : e[k] = a[k]
      /\ \A k \in 1 .. n : e[m + k] = b[k]
  <2>1. /\ Row(e) /\ Len(e) = Len(a) + Len(b)
        /\ \A k \in 1 .. Len(a) : e[k] = a[k]
        /\ \A k \in 1 .. Len(b) : e[Len(a) + k] = b[k]
    <3>1. Row(a) /\ Row(b)
      BY <1>2, <1>4
    <3> QED  BY <3>1, Joined
  <2> HIDE DEF e
  <2> QED  BY <1>2, <1>4, <2>1
<1> HIDE DEF e
<1>6. ASSUME NEW k \in 1 .. m + n  PROVE e[k] = d[k]
  <2>1. CASE k <= m
    BY <1>1, <1>2, <1>3, <1>5, <2>1
  <2>2. CASE k > m
    <3>1. k - m \in 1 .. n /\ m + (k - m) = k
      BY <1>1, <2>2
    <3> QED  BY <1>3, <1>4, <1>5, <3>1
  <2> QED  BY <1>1, <2>1, <2>2
<1>7. e = d
  BY <1>3, <1>5, <1>6, SeqEqual DEF Row
<1> QED  BY <1>7 DEF a, b, d, e

\* What is read goes from the front of the rest to the end of what is there.
LEMMA ReadingOn ==
    ASSUME NEW c, Row(c), NEW m \in Nat, NEW n \in Nat, NEW e \in Nat, m + n <= e, e <= Len(c),
           NEW w, w = SubSeq(c, m + 1, e)
    PROVE  /\ SubSeq(c, 1, m) \o SubSeq(w, 1, n) = SubSeq(c, 1, m + n)
           /\ SubSeq(w, n + 1, Len(w)) = SubSeq(c, m + n + 1, e)
<1> DEFINE x == m + 1
<1>1. x \in Nat \ {0} /\ e \in 0 .. Len(c) /\ x <= e + 1 /\ w = SubSeq(c, x, e) /\ Len(c) \in Nat
  BY RowFacts
<1>2. Len(w) = e - m
  <2> HIDE DEF x
  <2>1. Len(w) = IF x <= e THEN e - x + 1 ELSE 0
    BY <1>1, PartOf
  <2> QED  BY <2>1 DEF x
<1>3. SubSeq(w, 1, n) = SubSeq(c, m + 1, m + n)
  <2>1. 1 \in Nat \ {0} /\ 1 <= n + 1 /\ n <= e - x + 1
    OBVIOUS
  <2>2. x + 1 - 1 = m + 1 /\ x + n - 1 = m + n
    OBVIOUS
  <2> HIDE DEF x
  <2>3. SubSeq(SubSeq(c, x, e), 1, n) = SubSeq(c, x + 1 - 1, x + n - 1)
    BY <1>1, <2>1, PartOfPart
  <2> QED  BY <1>1, <2>2, <2>3
<1>4. SubSeq(w, n + 1, Len(w)) = SubSeq(c, m + n + 1, e)
  <2> DEFINE i == n + 1
             j == e - m
  <2>1. i \in Nat \ {0} /\ j \in Nat /\ i <= j + 1 /\ j <= e - x + 1
    OBVIOUS
  <2>2. x + i - 1 = m + n + 1 /\ x + j - 1 = e
    OBVIOUS
  <2> HIDE DEF x, i, j
  <2>3. SubSeq(SubSeq(c, x, e), i, j) = SubSeq(c, x + i - 1, x + j - 1)
    BY <1>1, <2>1, PartOfPart
  <2> QED  BY <1>1, <1>2, <2>2, <2>3 DEF i, j
<1>5. SubSeq(c, 1, m) \o SubSeq(c, m + 1, m + n) = SubSeq(c, 1, m + n)
  <2>1. m \in 0 .. Len(c) /\ m + n <= Len(c)
    BY <1>1
  <2> QED  BY <2>1, PartsJoin
<1> QED  BY <1>3, <1>4, <1>5

\* A stream that breaks off shows nothing the unpacker has not asked for.
LEMMA BreaksArrived ==
    ASSUME Arrived, Break, at' = at, pending' = pending
    PROVE  Arrived'
BY DEF Arrived, Break, readerVars, Entry

\* What writers do to the stream.
LEMMA PackWrites ==
    ASSUME PackStep
    PROVE  /\ UNCHANGED readerVars /\ cut' = cut
           /\ UNCHANGED streamVars \/ (CanWrite /\ owed = 0) \/ \E n : Write(n)
BY DEF PackStep, Up, PackAgain, PackDir, PackLeaf, PackContents, PackEnds, Start, Write, Finish,
       streamVars, writerVars

\* Another tool leaves the reader alone, and puts in what it owes, or an entry when it owes none.
LEMMA ToolDoes ==
    ASSUME ToolWrites
    PROVE  /\ UNCHANGED readerVars /\ cut' = cut
           /\ UNCHANGED streamVars \/ (CanWrite /\ owed = 0) \/ \E n : Write(n)
BY DEF ToolWrites, StartGnu, Declare, StartUnknown, LoneZeroes, Write, Finish, Leave,
       streamVars, writerVars

\* One read of contents: a little more is pending, a little less on the wire.
LEMMA ReadArrived ==
    ASSUME Inv, Arrived, NEW n, ReadContents(n)
    PROVE  Arrived'
<1>1. /\ at = "contents" /\ at' = at /\ answer' = answer /\ got' = got /\ cut' = cut /\ owed' = owed
      /\ n \in 1 .. Chunk /\ n <= left /\ n <= Len(wire)
      /\ wire' = SubSeq(wire, n + 1, Len(wire)) /\ left' = left - n
      /\ pending' = pending \o SubSeq(wire, 1, n)
  BY DEF ReadContents, Readable, Read, Take, writerVars
<1>2. InHandOrBroken /\ Row(wire)
  BY LeftIs DEF Inv, Common
<1>3. answer = "entry" /\ left \in Nat /\ Len(wire) \in Nat /\ n \in Nat \ {0} /\ Entry' = Entry
  BY <1>1, <1>2, PaddingFits, RowFacts, StreamAssumption DEF InHandOrBroken, Entry
<1>4. ~cut
  <2>1. Len(<< >>) = 0
    BY EmptyRow
  <2> QED  BY <1>1, <1>2, <1>3, <2>1 DEF InHandOrBroken
<1>5. InHand /\ left = owed + Len(wire) /\ owed \in Nat
  BY <1>2, <1>3, <1>4 DEF InHandOrBroken, InHand
<1> DEFINE S == Entry.size
           C == Contents(Entry)
           m == S - left
<1>6. /\ got # << >> /\ Good(Entry) /\ left <= S /\ S \in Nat
      /\ pending = SubSeq(C, 1, m) /\ wire = SubSeq(C, m + 1, S - owed)
  BY <1>1, <1>3, <1>4 DEF Arrived, Good
<1>7. Row(C) /\ Len(C) = S
  BY <1>6, ContentsRow
<1> DEFINE e == S - owed
<1> HIDE DEF C, S
<1>8. m \in Nat /\ e \in Nat /\ m + n <= e /\ e <= S /\ S - left' = m + n
  <2>1. Len(wire) = left - owed
    BY <1>3, <1>5
  <2>2. /\ S \in Nat /\ left \in Nat /\ owed \in Nat /\ n \in Nat /\ left <= S
        /\ n <= left - owed /\ left' = left - n
    BY <1>1, <1>3, <1>5, <1>6, <2>1 DEF S
  <2> QED  BY <2>2
<1>9. wire = SubSeq(C, m + 1, e)
  BY <1>6
<1> HIDE DEF m, e
<1>10. pending' = SubSeq(C, 1, S - left')
  <2>1. SubSeq(C, 1, m) \o SubSeq(wire, 1, n) = SubSeq(C, 1, m + n)
    BY <1>3, <1>7, <1>8, <1>9, ReadingOn
  <2> QED  BY <1>1, <1>6, <1>8, <2>1
<1>11. wire' = SubSeq(C, S - left' + 1, S - owed')
  <2>1. SubSeq(wire, n + 1, Len(wire)) = SubSeq(C, m + n + 1, e)
    BY <1>3, <1>7, <1>8, <1>9, ReadingOn
  <2>2. e = S - owed'
    BY <1>1 DEF e
  <2> QED  BY <1>1, <1>8, <2>1, <2>2
<1>12. left' <= S /\ left' \in Nat
  BY <1>1, <1>3, <1>6
<1> QED  BY <1>1, <1>3, <1>6, <1>10, <1>11, <1>12 DEF Arrived, S, C

\* The unpacker goes on to the next entry, or leaves the stream alone.
LEMMA LeavesArrived ==
    ASSUME Inv, Arrived,
           \/ AskNext /\ at' # "contents"
           \/ UNCHANGED streamVars /\ \/ at' = at /\ pending' = pending
                                      \/ at' \notin {"entries", "contents"}
                                      \/ Here /\ at' = "contents" /\ pending' = << >>
    PROVE  Arrived'
<1>1. CASE AskNext /\ at' # "contents"
  <2>1. got' = got /\ left' = left /\ answer' = "asked" /\ Entry' = Entry
    BY <1>1 DEF AskNext, Entry
  <2> QED  BY <1>1, <2>1 DEF Arrived
<1>2. CASE UNCHANGED streamVars
  <2>1. /\ got' = got /\ left' = left /\ answer' = answer /\ cut' = cut /\ owed' = owed /\ wire' = wire
        /\ Entry' = Entry
    BY <1>2 DEF streamVars, writerVars, readerVars, Entry
  <2>2. CASE at' = at /\ pending' = pending
    BY <2>1, <2>2 DEF Arrived
  <2>3. CASE at' \notin {"entries", "contents"}
    BY <2>1, <2>3 DEF Arrived
  <2>4. CASE Here /\ at' = "contents" /\ pending' = << >>
    <3>1. left = Entry.size /\ Entry.size \in Nat
      BY <2>4 DEF Here, Arrived, Good
    <3>2. Entry.size - left = 0
      BY <3>1
    <3>3. SubSeq(Contents(Entry), 1, Entry.size - left) = << >>
      BY <3>2, SubSeqEmpty
    <3> QED  BY <2>1, <2>4, <3>3 DEF Arrived
  <2> QED  BY <1>1, <1>2, <2>2, <2>3, <2>4 DEF AskNext, streamVars, readerVars, Here
<1> QED  BY <1>1, <1>2

\* What a writer owes is a number, and its padding less than a block.
LEMMA StartCounts ==
    ASSUME NEW h, h.size \in Nat, Start(h) \/ StartGnu(h)
    PROVE  owed' \in Nat /\ owedPad' \in 0 .. BLOCK - 1
<1>1. owed' = SizeField(h) /\ owedPad' = PadFor(SizeField(h))
  BY DEF Start, StartGnu
<1>2. SizeField(h) \in Nat
  BY DEF SizeField
<1> QED  BY <1>1, <1>2, PaddingFits

\* Write takes from what is owed no more than that.
LEMMA OtherCounts ==
    ASSUME Counts,
           \/ UNCHANGED <<owed, owedPad>>
           \/ \E n : Write(n)
           \/ Finish \/ Leave \/ LoneZeroes
           \/ \E labels : Declare(labels)
           \/ \E size : StartUnknown(size)
    PROVE  owed' \in Nat /\ owedPad' \in 0 .. BLOCK - 1
<1>1. 0 \in 0 .. BLOCK - 1
  BY PaddingFits
<1>2. ASSUME NEW n, Write(n)  PROVE owed' \in Nat /\ owedPad' = owedPad
  BY <1>2 DEF Write, Counts
<1> QED  BY <1>1, <1>2 DEF Counts, Finish, Leave, LoneZeroes, Declare, StartUnknown

\* pack_into owes as many contents as a header it wrote says,
LEMMA PackCounts ==
    ASSUME Walk, Counts, Packs
    PROVE  owed' \in Nat /\ owedPad' \in 0 .. BLOCK - 1
<1>1. feed = "pack" /\ PackStep
  BY DEF Packs
<1>2. CanPack => Len(Stat.data) \in Nat
  BY <1>1, PackedIsGood
<1>3. \A k, s, l, b : PackedAs(k, s, l, b).size = s
  BY DEF PackedAs, Header
<1>4. CASE PackAgain
  <2>1. PackedAs("hardlink", 0, seen[Inode], {}).size \in Nat
    BY <1>3
  <2> QED  BY <1>4, <2>1, StartCounts DEF PackAgain
<1>5. CASE PackDir
  <2>1. PackedAs("dir", 0, << >>, Stat.labels).size \in Nat
    BY <1>3
  <2> QED  BY <1>5, <2>1, StartCounts DEF PackDir
<1>6. CASE PackLeaf
  <2>1. PICK h : h = CASE Stat.kind = "file" -> PackedAs("file", Len(Stat.data), << >>, Stat.labels)
                       [] Stat.kind = "symlink" -> PackedAs("symlink", 0, Stat.data, {})
                       [] OTHER -> PackedAs(Stat.kind, 0, << >>, Stat.labels)
    OBVIOUS
  <2>2. CanPack /\ Start(h)
    BY <1>6, <2>1 DEF PackLeaf
  <2>3. \/ h = PackedAs("file", Len(Stat.data), << >>, Stat.labels)
        \/ h = PackedAs("symlink", 0, Stat.data, {})
        \/ h = PackedAs(Stat.kind, 0, << >>, Stat.labels)
    BY <2>1
  <2>4. h.size \in Nat
    <3>1. PICK n \in Nat : n = Len(Stat.data)
      BY <1>2, <2>2
    <3>2. h.size = n \/ h.size = 0
      BY <1>3, <2>3, <3>1
    <3> QED  BY <3>2
  <2> QED  BY <2>2, <2>4, StartCounts
<1>7. CASE Up
  BY <1>7, OtherCounts DEF Up, streamVars, writerVars
<1>8. CASE PackContents \/ PackEnds
  BY <1>8, OtherCounts DEF PackContents, PackEnds
<1> QED  BY <1>1, <1>4, <1>5, <1>6, <1>7, <1>8 DEF PackStep

\* and so does another tool.
LEMMA ToolCounts ==
    ASSUME Counts, ToolWrites
    PROVE  owed' \in Nat /\ owedPad' \in 0 .. BLOCK - 1
<1>1. ASSUME NEW h \in ToolHeaders,
             StartGnu([h EXCEPT !.attr = Len(sent) + 1,
                                !.time = IF @ = 0 THEN 0 ELSE Len(sent) + 1])
      PROVE  owed' \in Nat /\ owedPad' \in 0 .. BLOCK - 1
  <2>1. PICK x : x = Len(sent) + 1
    OBVIOUS
  <2>2. PICK g : g = [h EXCEPT !.attr = x, !.time = IF @ = 0 THEN 0 ELSE x]
    OBVIOUS
  <2>3. Good(h)
    BY ToolAssumption DEF Good, Row
  <2>4. Good(g)
    BY <2>2, <2>3, Renumbered
  <2>5. StartGnu(g) /\ g.size \in Nat
    BY <1>1, <2>1, <2>2, <2>4 DEF Good
  <2> QED  BY <2>5, StartCounts
<1> QED  BY <1>1, OtherCounts DEF ToolWrites

\* Reading moves what the stream and the reader count by what is taken.
LEMMA ReadsCounts ==
    ASSUME Counts, ReaderStep, answer' = "entry" => pad' = PadFor(Entry'.size) /\ Entry'.size \in Nat
    PROVE  Counts'
<1>1. owed' = owed /\ owedPad' = owedPad
  BY ReaderFrame
<1>2. pad' = pad \/ pad' = 0 \/ answer' = "entry"
  BY DEF ReaderStep, BeginNext, Skip, StreamEnds, ZeroBlock, LongName, LongLink, PaxRecords,
         GlobalRecords, SkipUnknown, Truncated, Deliver, Carry
<1>3. pad' \in 0 .. BLOCK - 1
  <2>1. 0 \in 0 .. BLOCK - 1
    BY PaddingFits
  <2>2. answer' = "entry" => pad' \in 0 .. BLOCK - 1
    BY PaddingFits
  <2> QED  BY <1>2, <2>1, <2>2 DEF Counts
<1> QED  BY <1>1, <1>3 DEF Counts

(***************************************************************************)
(* The directories to stamp at the end.                                    *)
(***************************************************************************)
Deferred ==
    Row(deferred) /\ \A k \in 1 .. Len(deferred) : Row(deferred[k].path) /\ deferred[k].path \in Paths

\* sort_by_key: each header once, the deepest first and equals as they were.
LEMMA DeepestFirstIs ==
    ASSUME NEW s, Row(s), \A k \in 1 .. Len(s) : Row(s[k].path)
    PROVE  LET d == DeepestFirst(s)
           IN  /\ Row(d) /\ Len(d) = Len(s)
               /\ \E g \in [1 .. Len(s) -> 1 .. Len(s)] :
                     /\ \A n \in 1 .. Len(s) : d[n] = s[g[n]]
                     /\ \A j \in 1 .. Len(s) : \E n \in 1 .. Len(s) : g[n] = j
                     /\ \A m, n \in 1 .. Len(s) : m < n =>
                           \/ Depth(s[g[m]]) > Depth(s[g[n]])
                           \/ Depth(s[g[m]]) = Depth(s[g[n]]) /\ g[m] < g[n]
<1> DEFINE N == Len(s)
           S == 1 .. N
           depth(j) == Depth(s[j])
           ahead(k, j) == depth(k) > depth(j) \/ (depth(k) = depth(j) /\ k <= j)
           upto(j) == {k \in S : ahead(k, j)}
           rank(j) == Cardinality(upto(j))
           d == DeepestFirst(s)
<1>1. N \in Nat
  BY RowFacts
<1>2. IsFiniteSet(S) /\ Cardinality(S) = N
  BY <1>1, FS_Interval
<1>3. \A j \in S : depth(j) \in Nat /\ j \in Nat
  BY <1>1, RowFacts DEF Depth
<1>4. d = [n \in S |-> s[CHOOSE j \in S : rank(j) = n]]
  BY Zenon DEF DeepestFirst
<1> HIDE DEF S, depth
<1>5. /\ \A j \in S : ahead(j, j)
      /\ \A i, j, k \in S : ahead(i, j) /\ ahead(j, k) => ahead(i, k)
      /\ \A i, j \in S : ahead(i, j) /\ ahead(j, i) => i = j
      /\ \A i, j \in S : ahead(i, j) \/ ahead(j, i)
  BY <1>3
<1>6. \A i, j \in S : ahead(i, j) /\ i # j => depth(i) > depth(j) \/ (depth(i) = depth(j) /\ i < j)
  BY <1>3
<1> HIDE DEF ahead
<1>7. \A j \in S : IsFiniteSet(upto(j)) /\ rank(j) \in 1 .. N
  <2> TAKE j \in S
  <2>1. upto(j) \in SUBSET S /\ j \in upto(j)
    BY <1>5
  <2>2. IsFiniteSet(upto(j)) /\ rank(j) <= N
    BY <1>2, <2>1, FS_Subset
  <2>3. rank(j) \in Nat /\ rank(j) # 0
    BY <2>1, <2>2, FS_CardinalityType, FS_EmptySet
  <2> QED  BY <1>1, <2>2, <2>3
<1>71. \A j \in S : rank(j) \in 1 .. N
  BY <1>7, Zenon
<1> HIDE DEF rank
<1>72. \A j \in S : rank(j) \in Nat
  BY <1>1, <1>71
<1> USE DEF rank
<1>8. ASSUME NEW i \in S, NEW j \in S, ahead(i, j), i # j  PROVE rank(i) < rank(j)
  <2>1. upto(i) \in SUBSET upto(j) /\ j \in upto(j) /\ j \notin upto(i)
    BY <1>5, <1>8
  <2>2. rank(i) <= rank(j) /\ (rank(j) = rank(i) => upto(j) = upto(i))
    BY <1>7, <2>1, FS_Subset
  <2>4. rank(i) # rank(j)
    BY <2>1, <2>2
  <2> HIDE DEF rank
  <2>3. rank(i) \in Nat /\ rank(j) \in Nat
    BY <1>72
  <2> QED  BY <2>2, <2>3, <2>4
<1>9. ASSUME NEW n \in S, \A j \in S : rank(j) # n  PROVE FALSE
  <2> DEFINE T == S \ {n}
             f == [j \in S |-> rank(j)]
  <2>1. f \in [S -> T]
    BY <1>7, <1>9 DEF S
  <2>2. IsFiniteSet(T) /\ Cardinality(T) = N - 1
    BY <1>2, FS_RemoveElement
  <2>3. Cardinality(T) < Cardinality(S)
    BY <1>1, <1>2, <2>2
  <2>4. \E x, y \in S : x # y /\ f[x] = f[y]
    <3> HIDE DEF f, T
    <3> QED  BY <1>2, <2>1, <2>2, <2>3, FS_PigeonHole
  <2>5. PICK x, y \in S : x # y /\ rank(x) = rank(y)
    BY <2>4
  <2>6. ahead(x, y) \/ ahead(y, x)
    BY <1>5
  <2> HIDE DEF rank
  <2>7. rank(x) \in Nat /\ rank(y) \in Nat
    BY <1>72
  <2> QED  BY <1>8, <2>5, <2>6, <2>7
<1> HIDE DEF rank, d
<1> DEFINE g == [n \in S |-> CHOOSE j \in S : rank(j) = n]
<1>10. \A n \in S : g[n] \in S /\ rank(g[n]) = n
  BY <1>9
<1>11. g \in [S -> S] /\ \A n \in S : d[n] = s[g[n]]
  BY <1>4, <1>10
<1>12. d = [n \in 1 .. N |-> d[n]]
  BY <1>4 DEF S
<1>13. Row(d) /\ Len(d) = N
  BY <1>1, <1>12, TableRow
<1> HIDE DEF g
<1>14. ASSUME NEW m \in S, NEW n \in S, m < n
       PROVE  depth(g[m]) > depth(g[n]) \/ (depth(g[m]) = depth(g[n]) /\ g[m] < g[n])
  <2>1. g[m] \in S /\ g[n] \in S /\ rank(g[m]) = m /\ rank(g[n]) = n /\ m \in Nat /\ n \in Nat
    BY <1>3, <1>10
  <2>2. g[m] # g[n]
    BY <1>14, <2>1
  <2>3. ~ahead(g[n], g[m])
    <3>1. ASSUME ahead(g[n], g[m])  PROVE rank(g[n]) < rank(g[m])
      BY <1>8, <2>1, <2>2, <3>1
    <3> QED  BY <1>14, <2>1, <3>1
  <2> QED  BY <1>5, <1>6, <2>1, <2>2, <2>3
<1>15. ASSUME NEW j \in S  PROVE \E n \in S : g[n] = j
  <2>1. rank(j) \in S /\ g[rank(j)] \in S /\ rank(g[rank(j)]) = rank(j)
    BY <1>10, <1>71 DEF S
  <2>2. ASSUME g[rank(j)] # j  PROVE FALSE
    <3>1. rank(g[rank(j)]) < rank(j) \/ rank(j) < rank(g[rank(j)])
      BY <1>5, <1>8, <2>1, <2>2
    <3> QED  BY <1>72, <2>1, <3>1
  <2> QED  BY <2>1, <2>2
<1> QED  BY <1>11, <1>13, <1>14, <1>15 DEF S, d, depth

\* A directory is noted with its entry, and later taken from the front.
LEMMA DeferredKept ==
    ASSUME Deferred,
           \/ deferred' = deferred
           \/ \E h : deferred' = Append(deferred, h) /\ h.path \in Paths
           \/ deferred' = DeepestFirst(deferred)
           \/ deferred # << >> /\ deferred' = Tail(deferred)
    PROVE  Deferred'
<1>0. \A p \in Paths : Row(p)
  BY PathLength
<1>1. CASE deferred' = deferred
  BY <1>1 DEF Deferred
<1>2. ASSUME NEW h, deferred' = Append(deferred, h), h.path \in Paths  PROVE Deferred'
  <2>1. /\ Row(deferred') /\ Len(deferred') = Len(deferred) + 1
        /\ \A k \in 1 .. Len(deferred) : deferred'[k] = deferred[k]
        /\ Len(deferred) \in Nat
    BY <1>2, Appended, RowFacts DEF Deferred
  <2>2. deferred'[Len(deferred) + 1] = h
    <3>1. deferred \in Seq(ToSet(deferred) \cup {h}) /\ h \in ToSet(deferred) \cup {h}
      BY DEF Deferred, Row
    <3> QED  BY <1>2, <3>1, AppendProperties
  <2>3. \A k \in 1 .. Len(deferred) + 1 : k \in 1 .. Len(deferred) \/ k = Len(deferred) + 1
    BY <2>1
  <2>4. \A k \in 1 .. Len(deferred') : deferred'[k].path \in Paths
    BY <1>2, <2>1, <2>2, <2>3 DEF Deferred
  <2> QED  BY <1>0, <2>1, <2>4 DEF Deferred
<1>3. CASE deferred' = DeepestFirst(deferred)
  <2> DEFINE N == Len(deferred)
             d == DeepestFirst(deferred)
  <2>1. /\ Row(d) /\ Len(d) = N
        /\ \E g \in [1 .. N -> 1 .. N] : \A n \in 1 .. N : d[n] = deferred[g[n]]
    BY DeepestFirstIs DEF Deferred
  <2> HIDE DEF d
  <2>2. \A n \in 1 .. N : d[n].path \in Paths
    BY <2>1 DEF Deferred
  <2>3. deferred' = d
    BY <1>3 DEF d
  <2> QED  BY <1>0, <2>1, <2>2, <2>3 DEF Deferred
<1>4. CASE deferred # << >> /\ deferred' = Tail(deferred)
  <2>1. deferred \in Seq(ToSet(deferred)) /\ Len(deferred) \in Nat \ {0}
    BY <1>4, RowFacts DEF Deferred, Row
  <2>2. /\ Tail(deferred) \in Seq(ToSet(deferred)) /\ Len(Tail(deferred)) = Len(deferred) - 1
        /\ \A k \in 1 .. Len(Tail(deferred)) : Tail(deferred)[k] = deferred[k + 1]
    BY <1>4, <2>1, HeadTailProperties
  <2>3. Row(deferred')
    BY <1>4, <2>2, RowIs
  <2> DEFINE N == Len(deferred)
  <2>4. \A k \in 1 .. Len(deferred') : k + 1 \in 1 .. Len(deferred)
    <3>1. N \in Nat \ {0} /\ Len(deferred') = N - 1
      BY <1>4, <2>1, <2>2
    <3> HIDE DEF N
    <3>2. \A k \in 1 .. N - 1 : k + 1 \in 1 .. N
      BY <3>1
    <3> QED  BY <3>1, <3>2 DEF N
  <2> QED  BY <1>0, <1>4, <2>2, <2>3, <2>4 DEF Deferred
<1> QED  BY <1>1, <1>2, <1>3, <1>4

(***************************************************************************)
(* The calls that place an entry.                                          *)
(***************************************************************************)
\* What a volume shows after a step is what the volume then shows.
LEMMA ShownThen == Shown(vol)' = Shown(vol') /\ (Sound(vol)' <=> Sound(vol'))
BY DEF Shown, Sound, Fit, Volume, Named, Live, Exists, InodeAt, Kept!Holding, Kept!Nothing

\* mkdir_all on the parent: directories where nothing was.
LEMMA OpenedIs ==
    ASSUME Sound(vol), Entry.path \in Paths
    PROVE  /\ Sound(Opened)
           /\ \A q \in Paths :
                 Shown(Opened)[q] = IF q \in Ancestors(Entry.path) /\ Shown(vol)[q] = Kept!Nothing
                                    THEN Kept!Directory ELSE Shown(vol)[q]
<1> DEFINE p == Entry.path
           d == Parent(p)
<1>1. /\ Row(d) /\ Ancestors(p) = {UpTo(d, n) : n \in 1 .. Len(d)}
      /\ Ancestors(p) \subseteq Paths
  BY ParentIs, AncestorsAre
<1>2. \A n \in 1 .. Len(d) : UpTo(d, n) \in Paths
  BY <1>1
<1> HIDE DEF d
<1>3. Sound(MakeAll(vol, d)) /\ Shown(MakeAll(vol, d)) = LedTo(Shown(vol), d, Len(d))
  BY <1>1, <1>2, MakeAllIs
<1>4. Opened = MakeAll(vol, d)
  BY DEF Opened, d
<1> QED  BY <1>1, <1>3, <1>4 DEF LedTo

\* remove_all after it: the name is free and nothing is under it.
LEMMA ClearedIs ==
    ASSUME Sound(vol), Entry.path \in Paths
    PROVE  /\ Sound(Cleared) /\ Cleared.names[Entry.path] = Absent
           /\ Shown(Cleared) = PlacedIn(Shown(vol), Entry.path, Kept!Nothing)
<1> DEFINE p == Entry.path
<1>1. /\ Sound(Opened)
      /\ \A q \in Paths :
            Shown(Opened)[q] = IF q \in Ancestors(p) /\ Shown(vol)[q] = Kept!Nothing
                               THEN Kept!Directory ELSE Shown(vol)[q]
  BY OpenedIs
<1>2. p \in Under(p)
  BY UnderIs
<1>3. Cleared = Without(Opened, Under(p))
  BY DEF Cleared, RemoveAll
<1>4. /\ Sound(Cleared)
      /\ Shown(Cleared) = EmptiedIn(Shown(Opened), Under(p))
      /\ \A q \in Paths : Cleared.names[q] = IF q \in Under(p) THEN Absent ELSE Opened.names[q]
  BY <1>1, <1>3, WithoutIs
<1>5. \A q \in Paths : EmptiedIn(Shown(Opened), Under(p))[q]
                          = PlacedIn(Shown(vol), p, Kept!Nothing)[q]
  BY <1>1, <1>2 DEF EmptiedIn, PlacedIn
<1>6. EmptiedIn(Shown(Opened), Under(p)) = PlacedIn(Shown(vol), p, Kept!Nothing)
  BY <1>5 DEF EmptiedIn, PlacedIn
<1> QED  BY <1>2, <1>4, <1>6

\* A path that was cleared takes what is put there.
LEMMA PutPlaced ==
    ASSUME NEW tree, NEW p, NEW x
    PROVE  Put(PlacedIn(tree, p, Kept!Nothing), p, x) = PlacedIn(tree, p, x)
BY DEF Put, PlacedIn

\* Every directory on the way is one, or was made for the entry.
LEMMA FitsIs ==
    ASSUME Sound(vol), Fits
    PROVE  CanPlace /\ Entry.path \in Paths
<1>1. Entry.path \in Paths /\ Reachable(Opened, Entry.path)
  BY DEF Fits
<1>2. ASSUME NEW q \in Ancestors(Entry.path)
      PROVE  Shown(vol)[q] \in {Kept!Nothing, Kept!Directory}
  <2>1. q \in Paths
    BY <1>1, AncestorsAre
  <2>2. IsDir(Opened, q)
    BY <1>1 DEF Reachable, Ancestors, UpTo
  <2>3. Shown(Opened)[q] = Kept!Directory
    BY <1>1, <2>1, <2>2, OpenedIs, ShownIs
  <2> QED  BY <1>1, <2>1, <2>3, OpenedIs
<1> QED  BY <1>1, <1>2 DEF CanPlace

\* A directory that is there stays, and all that leads to it is there.
LEMMA DirStays ==
    ASSUME Sound(vol), Shaped(Shown(vol)), Fits
    PROVE  /\ IsDir(Opened, Entry.path) <=> Shown(vol)[Entry.path] = Kept!Directory
           /\ IsDir(Opened, Entry.path) => Shown(Opened) = Shown(vol)
<1> DEFINE p == Entry.path
<1>1. p \in Paths /\ p \notin Ancestors(p) /\ Ancestors(p) \subseteq Paths
  BY AncestorsAre DEF Fits
<1>2. IsDir(Opened, p) <=> Shown(vol)[p] = Kept!Directory
  BY <1>1, OpenedIs, ShownIs
<1>3. ASSUME Shown(vol)[p] = Kept!Directory  PROVE Shown(Opened) = Shown(vol)
  <2>1. \A q \in Ancestors(p) : Shown(vol)[q] = Kept!Directory
    BY <1>1, <1>3, DirectoryIsThere DEF Shaped
  <2>2. \A q \in Paths : Shown(Opened)[q] = Shown(vol)[q]
    BY <1>1, <2>1, DirectoryIsThere, OpenedIs
  <2> QED  BY <2>2 DEF Shown
<1> QED  BY <1>2, <1>3

\* link's target is neither under the name that goes nor a directory.
LEMMA CanLinkIs ==
    ASSUME Sound(vol), Fits, CanLink
    PROVE  /\ Entry.link \in Paths \ Under(Entry.path)
           /\ Shown(vol)[Entry.link] \notin {Kept!Nothing, Kept!Directory}
           /\ Shown(Cleared)[Entry.link] = Shown(vol)[Entry.link]
<1> DEFINE p == Entry.path
           l == Entry.link
<1>1. p \in Paths /\ l \in Paths /\ p \in Under(p)
  BY UnderIs DEF Fits, CanLink
<1>2. Shown(Cleared)[l] \notin {Kept!Nothing, Kept!Directory}
  BY <1>1, ClearedIs, ShownIs DEF CanLink
<1>3. Shown(Cleared)[l] = IF l = p THEN Kept!Nothing
                          ELSE IF l \in Under(p) THEN Kept!Nothing
                          ELSE IF l \in Ancestors(p) /\ Shown(vol)[l] = Kept!Nothing
                               THEN Kept!Directory
                          ELSE Shown(vol)[l]
  BY <1>1, ClearedIs DEF PlacedIn
<1> QED  BY <1>1, <1>2, <1>3

\* Fresh inodes, and a second name, in the place that was cleared.
LEMMA PlacedAnew ==
    ASSUME Sound(vol), Fits
    PROVE  /\ \A node : Live(node) =>
                 /\ Sound(Make(Cleared, Entry.path, node))
                 /\ Shown(Make(Cleared, Entry.path, node)) =
                       PlacedIn(Shown(vol), Entry.path, Kept!Holding(node.kind, node.data))
           /\ \A attr :
                 /\ Sound(MakeDir(Cleared, Entry.path, attr))
                 /\ Shown(MakeDir(Cleared, Entry.path, attr)) =
                       PlacedIn(Shown(vol), Entry.path, Kept!Directory)
           /\ CanLink =>
                 /\ Sound(Link(Cleared, Entry.link, Entry.path))
                 /\ Shown(Link(Cleared, Entry.link, Entry.path)) =
                       PlacedIn(Shown(vol), Entry.path, Shown(vol)[Entry.link])
<1> DEFINE p == Entry.path
           c == Cleared
<1>1. p \in Paths /\ Sound(c) /\ c.names[p] = Absent
      /\ Shown(c) = PlacedIn(Shown(vol), p, Kept!Nothing)
  BY ClearedIs DEF Fits
<1> HIDE DEF c
<1>2. ASSUME NEW node, Live(node)
      PROVE  Sound(Make(c, p, node))
             /\ Shown(Make(c, p, node)) = PlacedIn(Shown(vol), p, Kept!Holding(node.kind, node.data))
  BY <1>1, <1>2, MakeIs, PutPlaced
<1>3. ASSUME NEW attr
      PROVE  Sound(MakeDir(c, p, attr))
             /\ Shown(MakeDir(c, p, attr)) = PlacedIn(Shown(vol), p, Kept!Directory)
  BY <1>1, MakeDirIs, PutPlaced
<1>4. ASSUME CanLink
      PROVE  Sound(Link(c, Entry.link, p))
             /\ Shown(Link(c, Entry.link, p)) = PlacedIn(Shown(vol), p, Shown(vol)[Entry.link])
  <2>1. Entry.link \in Paths /\ Exists(c, Entry.link)
    BY <1>4 DEF CanLink, c
  <2>2. Shown(c)[Entry.link] = Shown(vol)[Entry.link]
    BY <1>4, CanLinkIs DEF c
  <2> QED  BY <1>1, <2>1, <2>2, LinkIs, PutPlaced
<1> QED  BY <1>2, <1>3, <1>4 DEF c

\* An entry that was dealt with has its effect.
LEMMA Applies ==
    ASSUME answer = "entry", at # "failed", AskNext, at' # "failed", NewPlace => Kept!CanApply,
           Shown(vol') = Kept!Applied
    PROVE  Kept!Apply
<1>1. Stage = "busy" /\ Stage' = "idle" /\ got' = got
  BY DEF Stage, AskNext
<1> QED  BY <1>1, KeptSteps, ShownThen

\* Entries without contents are dealt with in one step, and have the effect Layer gives them.
LEMMA EntryApplied ==
    ASSUME Sound(vol), Shaped(Shown(vol)), Arrived,
           SkipRoot \/ Whiteout \/ PlaceDir \/ PlaceSymlink \/ PlaceDevice \/ PlaceLink
    PROVE  Sound(vol') /\ Kept!Apply
<1> DEFINE p == Entry.path
           t == Shown(vol)
<1>1. Here /\ AskNext /\ at' = at /\ at = "entries" /\ answer = "entry" /\ Good(Entry)
  BY DEF SkipRoot, Whiteout, PlaceDir, PlaceSymlink, PlaceDevice, PlaceLink, Handled, IsEntry,
         IsMarked, Here, Arrived
<1>2. ASSUME NewPlace => Kept!CanApply, Shown(vol') = Kept!Applied  PROVE Kept!Apply
  BY <1>1, <1>2, Applies
<1>3. CASE SkipRoot
  <2>1. vol' = vol /\ p = << >>
    BY <1>3 DEF SkipRoot, Handled
  <2> QED  BY <1>2, <2>1, KeptApplied DEF NewPlace
<1>4. CASE Whiteout
  <2>1. vol' = Without(vol, Hidden) /\ p # << >> /\ IsMarker
    BY <1>4 DEF Whiteout, IsMarked, Handled
  <2>2. Sound(vol') /\ Shown(vol') = EmptiedIn(Shown(vol), Hidden)
    BY <2>1, WithoutIs
  <2> QED  BY <1>2, <2>1, <2>2, KeptApplied DEF NewPlace
<1>5. ASSUME IsEntry, Fits, Entry.kind # "hardlink"
      PROVE  NewPlace /\ p \in Paths /\ Kept!CanApply
  BY <1>5, FitsIs, KeptTree DEF IsEntry, NewPlace
<1>6. CASE PlaceDir
  <2>1. /\ IsEntry /\ Fits /\ Entry.kind = "dir"
        /\ vol' = IF IsDir(Opened, p) THEN Opened ELSE MakeDir(Cleared, p, Entry.attr)
    BY <1>6 DEF PlaceDir
  <2>2. NewPlace /\ p \in Paths /\ Kept!CanApply
    BY <1>5, <2>1
  <2>3. CASE IsDir(Opened, p)
    <3>1. Sound(vol') /\ Shown(vol') = Shown(vol) /\ Shown(vol)[p] = Kept!Directory
      BY <2>1, <2>2, <2>3, OpenedIs, DirStays
    <3> QED  BY <1>2, <2>1, <2>2, <3>1, KeptApplied
  <2>4. CASE ~IsDir(Opened, p)
    <3>1. /\ Sound(vol') /\ Shown(vol') = PlacedIn(Shown(vol), p, Kept!Directory)
          /\ Shown(vol)[p] # Kept!Directory
      BY <2>1, <2>4, PlacedAnew, DirStays
    <3> QED  BY <1>2, <2>1, <2>2, <3>1, KeptApplied
  <2> QED  BY <2>3, <2>4
<1>7. CASE PlaceSymlink
  <2> DEFINE node == Node("symlink", Entry.link, DefaultAttr, {}, 0)
  <2>1. IsEntry /\ Fits /\ Entry.kind = "symlink" /\ vol' = Make(Cleared, p, node)
    BY <1>7 DEF PlaceSymlink, Handled
  <2>2. Live(node) /\ node.kind = "symlink" /\ node.data = Entry.link
    BY DEF Live, Node, Kinds
  <2> HIDE DEF node
  <2>3. NewPlace /\ p \in Paths /\ Kept!CanApply
    BY <1>5, <2>1
  <2>4. Sound(vol')
        /\ Shown(vol') = PlacedIn(Shown(vol), p, Kept!Holding("symlink", Entry.link))
    BY <2>1, <2>2, PlacedAnew
  <2> QED  BY <1>2, <2>1, <2>3, <2>4, KeptApplied
<1>8. CASE PlaceDevice
  <2> DEFINE node == Node("device", << >>, Entry.attr, Entry.labels, Entry.time)
  <2>1. IsEntry /\ Fits /\ Entry.kind = "device" /\ vol' = Make(Cleared, p, node)
    BY <1>8 DEF PlaceDevice, Handled
  <2>2. Live(node) /\ node.kind = "device" /\ node.data = << >>
    BY DEF Live, Node, Kinds
  <2> HIDE DEF node
  <2>3. NewPlace /\ p \in Paths /\ Kept!CanApply
    BY <1>5, <2>1
  <2>4. Sound(vol') /\ Shown(vol') = PlacedIn(Shown(vol), p, Kept!Holding("device", << >>))
    BY <2>1, <2>2, PlacedAnew
  <2> QED  BY <1>2, <2>1, <2>3, <2>4, KeptApplied
<1>9. CASE PlaceLink
  <2>1. /\ IsEntry /\ Fits /\ CanLink /\ Entry.kind = "hardlink"
        /\ vol' = Link(Cleared, Entry.link, p)
    BY <1>9 DEF PlaceLink, Handled
  <2>2. NewPlace /\ p \in Paths /\ CanPlace
    BY <2>1, FitsIs DEF IsEntry, NewPlace
  <2>3. Kept!CanApply /\ Entry.link \in Paths
    BY <2>1, <2>2, CanLinkIs, KeptTree
  <2>4. Sound(vol') /\ Shown(vol') = PlacedIn(Shown(vol), p, Shown(vol)[Entry.link])
    BY <2>1, PlacedAnew
  <2> QED  BY <1>2, <2>1, <2>2, <2>3, <2>4, KeptApplied
<1> QED  BY <1>3, <1>4, <1>6, <1>7, <1>8, <1>9

(***************************************************************************)
(* A file whose contents are arriving.                                     *)
(***************************************************************************)
InPlace ==
    at = "contents" =>
        /\ NewPlace /\ Entry.kind = "file" /\ Entry.path \in Paths
        /\ \A q \in Ancestors(Entry.path) : Shown(vol)[q] = Kept!Directory
        /\ \A q \in Under(Entry.path) : q # Entry.path => Shown(vol)[q] = Kept!Nothing
        /\ IF streaming THEN /\ Shown(vol)[Entry.path] = Kept!EmptyFile
                             /\ NamesOf(vol, vol.names[Entry.path]) = {Entry.path}
           ELSE Shown(vol)[Entry.path] = Kept!Nothing

\* To put something there is to place it.
LEMMA InPlacePut ==
    ASSUME InPlace, at = "contents", NEW x
    PROVE  /\ Put(Shown(vol), Entry.path, x) = PlacedIn(Shown(vol), Entry.path, x)
           /\ Kept!CanApply /\ NewPlace /\ Entry.path \in Paths /\ Entry.kind = "file"
<1> DEFINE p == Entry.path
<1>1. /\ NewPlace /\ Entry.kind = "file" /\ p \in Paths
      /\ \A q \in Ancestors(p) : Shown(vol)[q] = Kept!Directory
      /\ \A q \in Under(p) : q # p => Shown(vol)[q] = Kept!Nothing
  BY DEF InPlace
<1>2. Kept!CanApply
  BY <1>1, KeptTree DEF CanPlace
<1>3. \A q \in Paths : Put(Shown(vol), p, x)[q] = PlacedIn(Shown(vol), p, x)[q]
  BY <1>1, DirectoryIsThere DEF Put, PlacedIn
<1>4. Put(Shown(vol), p, x) = PlacedIn(Shown(vol), p, x)
  BY <1>3 DEF Put, PlacedIn
<1> QED  BY <1>1, <1>2, <1>4

\* The name goes.
LEMMA ClearBegins ==
    ASSUME Sound(vol), Shaped(Shown(vol)), Arrived, ClearForFile
    PROVE  Sound(vol') /\ Kept!Begin /\ InPlace'
<1> DEFINE p == Entry.path
<1>1. /\ IsEntry /\ Entry.kind = "file" /\ Fits /\ vol' = Cleared /\ at' = "contents"
      /\ streaming' = FALSE /\ at = "entries" /\ answer = "entry"
      /\ answer' = answer /\ got' = got
  BY DEF ClearForFile, streamVars, readerVars, IsEntry, Here
<1>2. NewPlace /\ p \in Paths /\ CanPlace /\ Kept!CanApply
  BY <1>1, FitsIs, KeptTree DEF IsEntry, NewPlace
<1>3. Sound(vol') /\ Shown(vol') = PlacedIn(Shown(vol), p, Kept!Nothing)
  BY <1>1, <1>2, ClearedIs
<1>4. Kept!Begin
  <2>1. Stage = "busy" /\ Stage' = "busy"
    BY <1>1 DEF Stage
  <2>2. Shown(vol)' = Kept!Placed(Entry.path, Kept!Nothing)
    BY <1>2, <1>3, KeptTree, ShownThen
  <2> QED  BY <1>1, <1>2, <2>1, <2>2, KeptSteps
<1>5. Entry' = Entry
  BY <1>1 DEF Entry
<1>6. NewPlace'
  BY <1>2, <1>5 DEF NewPlace, IsMarker, Markers, LastName
<1>7. /\ \A q \in Ancestors(p) : Shown(vol')[q] = Kept!Directory
      /\ \A q \in Under(p) : Shown(vol')[q] = Kept!Nothing
      /\ Shown(vol')[p] = Kept!Nothing
  <2>1. \A q \in Ancestors(p) : q \in Paths /\ q # p /\ p \notin Ancestors(q)
    BY <1>2, AncestorsAre
  <2>2. \A q \in Ancestors(p) : q \notin Under(p)
    BY <1>2, <2>1, UnderIs
  <2>3. ASSUME NEW q \in Ancestors(p)  PROVE Shown(vol')[q] = Kept!Directory
    <3>1. Shown(vol')[q] = IF Shown(vol)[q] = Kept!Nothing THEN Kept!Directory ELSE Shown(vol)[q]
      BY <1>3, <2>1, <2>2 DEF PlacedIn
    <3> QED  BY <1>2, <3>1 DEF CanPlace
  <2>4. \A q \in Under(p) : q \in Paths
    BY DEF Under
  <2> QED  BY <1>2, <1>3, <2>3, <2>4 DEF PlacedIn
<1>8. InPlace'
  BY <1>1, <1>2, <1>5, <1>6, <1>7, ShownThen DEF InPlace
<1> QED  BY <1>3, <1>4, <1>8

\* The name gets a file with no contents, or the whole file.
LEMMA MadeEmpty ==
    ASSUME Sound(vol), InPlace, at = "contents", ~streaming
    PROVE  /\ Sound(EmptyMade)
           /\ Shown(EmptyMade) = PlacedIn(Shown(vol), Entry.path, Kept!EmptyFile)
           /\ NamesOf(EmptyMade, EmptyMade.names[Entry.path]) = {Entry.path}
<1> DEFINE p == Entry.path
           node == Node("file", << >>, Entry.attr, {}, 0)
<1>1. p \in Paths /\ Shown(vol)[p] = Kept!Nothing
  BY DEF InPlace
<1>2. vol.names[p] = Absent
  BY <1>1, ShownIs
<1>3. Live(node) /\ Kept!Holding(node.kind, node.data) = Kept!EmptyFile
  BY DEF Live, Node, Kinds, Kept!EmptyFile
<1>4. EmptyMade = Make(vol, p, node)
  BY DEF EmptyMade
<1> HIDE DEF node
<1>5. /\ Sound(EmptyMade) /\ Shown(EmptyMade) = Put(Shown(vol), p, Kept!EmptyFile)
      /\ NamesOf(EmptyMade, EmptyMade.names[p]) = {p}
  BY <1>1, <1>2, <1>3, <1>4, MakeIs
<1> QED  BY <1>5, InPlacePut

\* The contents that arrived are those of the entry, and the file holds them,
LEMMA StoredIs ==
    ASSUME Sound(vol), InPlace, Arrived, at = "contents", answer = "entry", left = 0,
           NEW labels, NEW time
    PROVE  /\ Sound(Stored(labels, time))
           /\ Shown(Stored(labels, time)) =
                 PlacedIn(Shown(vol), Entry.path, Kept!Holding("file", Contents(Entry)))
<1> DEFINE p == Entry.path
           whole == Node("file", pending, Entry.attr, labels, time)
<1>1. pending = Contents(Entry)
  <2>1. Good(Entry) /\ Entry.size \in Nat /\ pending = SubSeq(Contents(Entry), 1, Entry.size - 0)
    BY DEF Arrived, Good
  <2>2. Row(Contents(Entry)) /\ Len(Contents(Entry)) = Entry.size /\ Entry.size - 0 = Entry.size
    BY <2>1, ContentsRow
  <2> QED  BY <2>1, <2>2, SubSeqFull DEF Row
<1>2. /\ Live(whole)
      /\ Kept!Holding(whole.kind, whole.data) = Kept!Holding("file", Contents(Entry))
  BY <1>1 DEF Live, Node, Kinds
<1>3. p \in Paths
  BY DEF InPlace
<1>4. Stored(labels, time) = IF streaming THEN [vol EXCEPT !.inodes[vol.names[p]] = whole]
                             ELSE Make(vol, p, whole)
  BY DEF Stored
<1> HIDE DEF whole
<1>5. CASE streaming
  <2>1. Exists(vol, p) /\ NamesOf(vol, vol.names[p]) = {p}
    BY <1>3, <1>5, DirectoryIsThere, ShownIs DEF InPlace
  <2>2. /\ Sound(Stored(labels, time))
        /\ Shown(Stored(labels, time)) = Put(Shown(vol), p, Kept!Holding(whole.kind, whole.data))
    BY <1>2, <1>3, <1>4, <1>5, <2>1, StoreIs
  <2> QED  BY <1>2, <2>2, InPlacePut
<1>6. CASE ~streaming
  <2>1. vol.names[p] = Absent
    BY <1>3, <1>6, ShownIs DEF InPlace
  <2>2. /\ Sound(Stored(labels, time))
        /\ Shown(Stored(labels, time)) = Put(Shown(vol), p, Kept!Holding(whole.kind, whole.data))
    BY <1>2, <1>3, <1>4, <1>6, <2>1, MakeIs
  <2> QED  BY <1>2, <2>2, InPlacePut
<1> QED  BY <1>5, <1>6

\* or nothing, at INLINE_LIMIT,
LEMMA CreatedEmpty ==
    ASSUME Sound(vol), InPlace, answer = "entry", CreateEmpty
    PROVE  Sound(vol') /\ Kept!Begin /\ InPlace'
<1> DEFINE p == Entry.path
<1>1. /\ at = "contents" /\ ~streaming /\ vol' = EmptyMade /\ streaming' = TRUE
      /\ at' = at /\ answer' = answer /\ got' = got
  BY DEF CreateEmpty, streamVars, readerVars
<1>2. /\ Sound(vol') /\ Shown(vol') = PlacedIn(Shown(vol), p, Kept!EmptyFile)
      /\ NamesOf(vol', vol'.names[p]) = {p}
  BY <1>1, MadeEmpty
<1>3. /\ Kept!CanApply /\ NewPlace /\ p \in Paths /\ Entry.kind = "file"
      /\ Put(Shown(vol), p, Kept!EmptyFile) = PlacedIn(Shown(vol), p, Kept!EmptyFile)
  BY <1>1, InPlacePut
<1>4. Kept!Begin
  <2>1. Stage = "busy" /\ Stage' = "busy"
    BY <1>1 DEF Stage
  <2>2. Shown(vol)' = Kept!Placed(Entry.path, Kept!EmptyFile)
    BY <1>2, <1>3, KeptTree, ShownThen
  <2> QED  BY <1>1, <1>3, <2>1, <2>2, KeptSteps
<1>5. Entry' = Entry
  BY <1>1 DEF Entry
<1>6. NewPlace'
  BY <1>3, <1>5 DEF NewPlace, IsMarker, Markers, LastName
<1>7. \A q \in Paths : Shown(vol')[q] = IF q = p THEN Kept!EmptyFile ELSE Shown(vol)[q]
  BY <1>2, <1>3 DEF Put
<1>8. /\ \A q \in Ancestors(p) : q \in Paths /\ q # p
      /\ \A q \in Under(p) : q \in Paths
  BY <1>3, AncestorsAre DEF Under
<1>9. /\ \A q \in Ancestors(p) : Shown(vol')[q] = Kept!Directory
      /\ \A q \in Under(p) : q # p => Shown(vol')[q] = Kept!Nothing
      /\ Shown(vol')[p] = Kept!EmptyFile
  BY <1>1, <1>3, <1>7, <1>8 DEF InPlace
<1>10. NamesOf(vol, vol.names[p])' = NamesOf(vol', vol'.names[p'])  /\ p' = p
  BY <1>5 DEF NamesOf
<1>11. InPlace'
  BY <1>1, <1>2, <1>3, <1>5, <1>6, <1>9, <1>10, ShownThen DEF InPlace
<1> QED  BY <1>2, <1>4, <1>11

\* until they are all there.
LEMMA StoredFile ==
    ASSUME Sound(vol), InPlace, Arrived, answer = "entry", StoreFile
    PROVE  Sound(vol') /\ Kept!Apply
<1>1. /\ at = "contents" /\ left = 0 /\ vol' = Stored(Entry.labels, Entry.time)
      /\ at' = "entries" /\ AskNext
  BY DEF StoreFile, ContentsRead
<1>2. /\ Sound(vol')
      /\ Shown(vol') = PlacedIn(Shown(vol), Entry.path, Kept!Holding("file", Contents(Entry)))
  BY <1>1, StoredIs
<1>3. Kept!CanApply /\ NewPlace /\ Entry.path \in Paths /\ Entry.kind = "file"
  BY <1>1, InPlacePut
<1> QED  BY <1>1, <1>2, <1>3, Applies, KeptApplied

(***************************************************************************)
(* Failures.                                                               *)
(***************************************************************************)
\* A failure ends an entry in hand.
LEMMA FailsBusy ==
    ASSUME Stops
    PROVE  /\ Stage' = "stopped" /\ got' = got
           /\ at # "failed" /\ answer = "entry" => Stage = "busy"
BY DEF Stops, Stage, streamVars, readerVars

\* Some of what is in the way removed, the children first.
LEMMA ClearedInPart ==
    ASSUME Sound(vol), Shaped(Shown(vol)), Entry.path # << >>, vol' \in PartlyCleared
    PROVE  /\ Sound(vol') /\ Shaped(Shown(vol'))
           /\ \A q \in Paths :
                 \/ Shown(vol')[q] = Shown(vol)[q]
                 \/ /\ q \in IF IsMarker /\ Entry.path # << >> THEN Hidden ELSE Under(Entry.path)
                    /\ Shown(vol')[q] = Kept!Nothing
<1> DEFINE region == IF IsMarker THEN Hidden ELSE Under(Entry.path)
           area == {p \in region : Exists(vol, p)}
<1>1. PICK gone \in SUBSET area : Downward(gone) /\ vol' = Without(vol, gone)
  BY DEF PartlyCleared
<1>2. gone \subseteq region /\ region \subseteq Paths
  BY <1>1 DEF Hidden, Under
<1>3. Sound(vol') /\ Shown(vol') = EmptiedIn(Shown(vol), gone)
  BY <1>1, WithoutIs
<1>4. ASSUME NEW r \in gone, NEW q \in Paths, r \in Ancestors(q), Shown(vol)[q] # Kept!Nothing
      PROVE  q \in gone
  <2>1. q \in Under(r) /\ Exists(vol, q)
    BY <1>2, <1>4, UnderIs, ShownIs
  <2> QED  BY <1>1, <2>1 DEF Downward
<1>5. Shaped(Shown(vol'))
  BY <1>3, <1>4, EmptiedShaped
<1> QED  BY <1>2, <1>3, <1>5 DEF EmptiedIn

\* Some of the parents made.
LEMMA OpenedInPart ==
    ASSUME Sound(vol), Shaped(Shown(vol)), Fits, vol' \in PartlyOpened
    PROVE  /\ Sound(vol') /\ Shaped(Shown(vol'))
           /\ \A q \in Paths :
                 \/ Shown(vol')[q] = Shown(vol)[q]
                 \/ /\ q \in Ancestors(Entry.path) /\ Shown(vol)[q] = Kept!Nothing
                    /\ Shown(vol')[q] = Kept!Directory
<1> DEFINE p == Entry.path
<1>1. PICK n \in 1 .. Len(p) - 1 : vol' = MakeAll(vol, UpTo(p, n))
  BY DEF PartlyOpened, UpTo
<1>2. p \in Paths /\ Row(p) /\ Len(p) \in Nat \ {0} /\ CanPlace
  BY FitsIs, PathLength
<1>3. n \in 0 .. Len(p) /\ n \in Nat /\ \A m \in 1 .. n : m \in 0 .. n /\ m \in 1 .. Len(p) - 1
  BY <1>2
<1> DEFINE d == UpTo(p, n)
<1>4. /\ Row(d) /\ Len(d) = n /\ \A m \in 1 .. n : UpTo(d, m) = UpTo(p, m)
      /\ \A m \in 1 .. n : UpTo(p, m) \in Ancestors(p)
  BY <1>2, <1>3, Beginnings DEF Ancestors
<1>5. \A q \in Ancestors(p) : q \in Paths
  BY <1>2, AncestorsAre
<1> DEFINE way == {UpTo(d, m) : m \in 1 .. Len(d)}
<1>6. way = {UpTo(p, m) : m \in 1 .. n} /\ way \subseteq Ancestors(p)
  BY <1>4
<1> HIDE DEF d
<1>7. \A m \in 1 .. Len(d) : UpTo(d, m) \in Paths
  BY <1>5, <1>6
<1>8. Sound(vol') /\ Shown(vol') = LedTo(Shown(vol), d, Len(d))
  BY <1>1, <1>4, <1>7, MakeAllIs DEF d
<1>9. \A q \in Paths : Shown(vol')[q] = IF q \in way /\ Shown(vol)[q] = Kept!Nothing
                                        THEN Kept!Directory ELSE Shown(vol)[q]
  BY <1>8 DEF LedTo
<1>10. ASSUME NEW q \in way, NEW r \in Ancestors(q)  PROVE r \in way
  <2>1. PICK m \in 1 .. n : q = UpTo(p, m)
    BY <1>6
  <2>2. m \in 0 .. Len(p) /\ m \in Nat /\ m <= n
    BY <1>2, <1>3
  <2>3. Len(q) = m /\ \A k \in 0 .. m : UpTo(q, k) = UpTo(p, k)
    BY <1>2, <2>1, <2>2, Beginnings
  <2>4. PICK k \in 1 .. m - 1 : r = UpTo(q, k)
    BY <2>3 DEF Ancestors
  <2>5. k \in 0 .. m /\ k \in 1 .. n
    BY <1>3, <2>2
  <2> QED  BY <1>6, <2>3, <2>4, <2>5
<1> HIDE DEF way
<1>11. ASSUME NEW q \in Paths, Shown(vol')[q] # Kept!Nothing, NEW r \in Ancestors(q)
       PROVE  Shown(vol')[r] = Kept!Directory
  <2>1. r \in Paths
    BY AncestorsAre
  <2>2. CASE Shown(vol)[q] # Kept!Nothing
    <3>1. Shown(vol)[r] = Kept!Directory
      BY <1>11, <2>2 DEF Shaped
    <3> QED  BY <1>9, <2>1, <3>1
  <2>3. CASE Shown(vol)[q] = Kept!Nothing
    <3>1. q \in way
      BY <1>9, <1>11, <2>3
    <3>2. r \in way /\ r \in Ancestors(p)
      BY <1>6, <1>10, <1>11, <3>1
    <3> QED  BY <1>2, <1>9, <2>1, <3>2 DEF CanPlace
  <2> QED  BY <2>2, <2>3
<1>12. Shaped(Shown(vol'))
  BY <1>11 DEF Shaped
<1> QED  BY <1>6, <1>8, <1>9, <1>12

\* What an entry that fails leaves behind.
LEMMA EntryStops ==
    ASSUME Sound(vol), Shaped(Shown(vol)), EntryFails
    PROVE  Sound(vol') /\ Kept!Stop
<1> DEFINE p == Entry.path
<1>1. /\ Here /\ p # << >> /\ Stops /\ Stage' = "stopped" /\ got' = got /\ Stage = "busy"
      /\ vol' \in PartlyCleared \/ (IsEntry /\ Fits /\ vol' \in PartlyOpened \cup Unstamped)
  BY FailsBusy DEF EntryFails, Here
<1>2. Shaped(Shown(vol)') <=> Shaped(Shown(vol))'
  BY DEF Shaped
<1>3. CASE vol' \in PartlyCleared
  <2>1. /\ Sound(vol') /\ Shaped(Shown(vol'))
        /\ \A q \in Paths :
              \/ Shown(vol')[q] = Shown(vol)[q]
              \/ /\ q \in IF IsMarker /\ p # << >> THEN Hidden ELSE Under(p)
                 /\ Shown(vol')[q] = Kept!Nothing
    BY <1>1, <1>3, ClearedInPart
  <2> QED  BY <1>1, <1>2, <2>1, ShownThen, KeptStop
<1>4. CASE IsEntry /\ Fits /\ vol' \in PartlyOpened
  <2>1. /\ Sound(vol') /\ Shaped(Shown(vol'))
        /\ \A q \in Paths :
              \/ Shown(vol')[q] = Shown(vol)[q]
              \/ /\ q \in Ancestors(p) /\ Shown(vol)[q] = Kept!Nothing
                 /\ Shown(vol')[q] = Kept!Directory
    BY <1>4, OpenedInPart
  <2>2. p \in Paths /\ ~IsMarker
    BY <1>4, FitsIs DEF IsEntry
  <2>3. \A q \in Paths :
              \/ Shown(vol')[q] = Shown(vol)[q]
              \/ /\ ~(IsMarker /\ p # << >>) /\ q \in Kept!Above(p)
                 /\ Shown(vol)[q] = Kept!Nothing /\ Shown(vol')[q] = Kept!Directory
    BY <2>1, <2>2, LayerPaths
  <2> QED  BY <1>1, <1>2, <2>1, <2>3, ShownThen, KeptStop
<1>5. CASE IsEntry /\ Fits /\ vol' \in Unstamped
  <2>1. NewPlace /\ p \in Paths /\ CanPlace
    BY <1>5, FitsIs DEF IsEntry, NewPlace
  <2>2. /\ Entry.kind \in {"device", "dir", "hardlink"}
        /\ Entry.kind = "device" =>
              \E labels : vol' = Make(Cleared, p, Node("device", << >>, Entry.attr, labels, 0))
        /\ Entry.kind = "dir" => ~IsDir(Opened, p) /\ vol' = MakeDir(Cleared, p, Entry.attr)
        /\ Entry.kind = "hardlink" => CanLink /\ vol' = Link(Cleared, Entry.link, p)
    BY <1>5 DEF Unstamped
  <2>3. ASSUME Kept!CanApply, Shown(vol') = Kept!Applied  PROVE Kept!Stop
    BY <1>1, <2>1, <2>3, ShownThen, KeptStop
  <2>4. CASE Entry.kind = "device"
    <3>1. PICK labels : vol' = Make(Cleared, p, Node("device", << >>, Entry.attr, labels, 0))
      BY <2>2, <2>4
    <3> DEFINE node == Node("device", << >>, Entry.attr, labels, 0)
    <3>2. Live(node) /\ node.kind = "device" /\ node.data = << >> /\ vol' = Make(Cleared, p, node)
      BY <3>1 DEF Live, Node, Kinds
    <3> HIDE DEF node
    <3>3. Sound(vol') /\ Shown(vol') = PlacedIn(Shown(vol), p, Kept!Holding("device", << >>))
      BY <1>5, <3>2, PlacedAnew
    <3>4. Kept!CanApply
      BY <2>1, <2>4, KeptTree
    <3> QED  BY <2>1, <2>3, <2>4, <3>3, <3>4, KeptApplied
  <2>5. CASE Entry.kind = "dir"
    <3>1. /\ Sound(vol') /\ Shown(vol') = PlacedIn(Shown(vol), p, Kept!Directory)
          /\ Shown(vol)[p] # Kept!Directory
      BY <1>5, <2>2, <2>5, PlacedAnew, DirStays
    <3>2. Kept!CanApply
      BY <2>1, <2>5, KeptTree
    <3> QED  BY <2>1, <2>3, <2>5, <3>1, <3>2, KeptApplied
  <2>6. CASE Entry.kind = "hardlink"
    <3>1. /\ Sound(vol') /\ Shown(vol') = PlacedIn(Shown(vol), p, Shown(vol)[Entry.link])
          /\ Entry.link \in Paths
      BY <1>5, <2>2, <2>6, PlacedAnew DEF CanLink
    <3>2. Kept!CanApply
      BY <1>5, <2>1, <2>2, <2>6, CanLinkIs, KeptTree
    <3> QED  BY <2>1, <2>3, <2>6, <3>1, <3>2, KeptApplied
  <2> QED  BY <2>2, <2>4, <2>5, <2>6
<1> QED  BY <1>1, <1>3, <1>4, <1>5

\* unpack_file fails: the entry is dealt with, or half.
LEMMA ContentsStop ==
    ASSUME Sound(vol), InPlace, Arrived, at = "contents" => answer = "entry", ContentsFail
    PROVE  Sound(vol') /\ Kept!Stop
<1> DEFINE p == Entry.path
<1>1. /\ at = "contents" /\ answer = "entry" /\ Stage' = "stopped" /\ got' = got /\ Stage = "busy"
      /\ \/ vol' = vol
         \/ ~streaming /\ vol' = EmptyMade
         \/ left = 0 /\ \E labels : vol' = Stored(labels, 0)
  BY FailsBusy DEF ContentsFail, ContentsRead
<1>2. Kept!CanApply /\ NewPlace /\ p \in Paths /\ Entry.kind = "file"
  BY <1>1, InPlacePut
<1>3. CASE vol' = vol
  BY <1>1, <1>3, ShownThen, KeptStop
<1>4. CASE ~streaming /\ vol' = EmptyMade
  <2>1. Sound(vol') /\ Shown(vol') = PlacedIn(Shown(vol), p, Kept!EmptyFile)
    BY <1>1, <1>4, MadeEmpty
  <2>2. Kept!HalfApplied
    BY <1>1, <1>2, <2>1, ShownThen, KeptTree, KeptSteps
  <2> QED  BY <1>1, <2>1, <2>2, KeptStop
<1>5. CASE left = 0 /\ \E labels : vol' = Stored(labels, 0)
  <2>1. /\ Sound(vol')
        /\ Shown(vol') = PlacedIn(Shown(vol), p, Kept!Holding("file", Contents(Entry)))
    BY <1>1, <1>5, StoredIs
  <2>2. Shown(vol)' = Kept!Applied
    BY <1>2, <2>1, ShownThen, KeptApplied
  <2> QED  BY <1>1, <1>2, <2>1, <2>2, KeptStop
<1> QED  BY <1>1, <1>3, <1>4, <1>5

\* Attributes and times at the end, all of them or some.
LEMMA RestampedIs ==
    ASSUME Sound(vol), Deferred, Restamp \/ RestampFails
    PROVE  Sound(vol') /\ Shown(vol') = Shown(vol)
<1> DEFINE h == Head(deferred)
<1>1. /\ deferred # << >>
      /\ vol' = vol \/ (Exists(vol, h.path)
                        /\ \E labels, time : vol' = Stamp(vol, h.path, h.attr, labels, time))
  BY DEF Restamp, RestampFails
<1>2. h.path \in Paths
  <2>1. deferred \in Seq(ToSet(deferred)) /\ Len(deferred) \in Nat \ {0}
    BY <1>1, RowFacts DEF Deferred, Row
  <2>2. h = deferred[1] /\ 1 \in 1 .. Len(deferred)
    BY <1>1, <2>1, HeadTailProperties
  <2> QED  BY <2>2 DEF Deferred
<1> HIDE DEF h
<1> QED  BY <1>1, <1>2, StampIs

\* A step that does not show.
LEMMA KeptStutters ==
    ASSUME Shown(vol') = Shown(vol), got' = got, Stage' = Stage
    PROVE  UNCHANGED Kept!vars
BY ShownThen DEF Kept!vars, Shown, Stage, Kept!Holding, Kept!Nothing

\* A failure that leaves the volume as it is.
LEMMA KeptStops ==
    ASSUME Shown(vol') = Shown(vol), Stops
    PROVE  Kept!Stop
BY ShownThen, KeptStop, FailsBusy

(***************************************************************************)
(* All steps.                                                              *)
(***************************************************************************)
UInv ==
    /\ Inv
    /\ Seat /\ Counts /\ Arrived /\ Deferred /\ InPlace
    /\ Sound(vol) /\ Shaped(Shown(vol))

\* What has to be shown of a step; that the tree stays one follows from it.
Goes ==
    /\ Seat' /\ Counts' /\ Arrived' /\ Deferred' /\ InPlace'
    /\ Sound(vol)' /\ [Kept!Next]_(Kept!vars)

\* Entries without contents.
LEMMA EntryGoes ==
    ASSUME UInv, SkipRoot \/ Whiteout \/ PlaceDir \/ PlaceSymlink \/ PlaceDevice \/ PlaceLink
    PROVE  Goes
<1>1. /\ AskNext /\ at = "entries" /\ at' = "entries" /\ answer = "entry"
      /\ deferred' = deferred \/ (deferred' = Append(deferred, Entry) /\ Entry.path \in Paths)
  BY DEF SkipRoot, Whiteout, PlaceDir, PlaceSymlink, PlaceDevice, PlaceLink, Handled, IsEntry,
         IsMarked, Here, Fits
<1>2. Sound(vol') /\ Kept!Apply
  BY EntryApplied DEF UInv
<1>3. Seat' /\ InPlace'
  BY <1>1 DEF Seat, InPlace
<1>4. Counts'
  BY <1>1 DEF UInv, Counts, AskNext, writerVars
<1>5. Arrived'
  BY <1>1, LeavesArrived DEF UInv
<1>6. Deferred'
  BY <1>1, DeferredKept DEF UInv
<1>7. Sound(vol)' /\ [Kept!Next]_(Kept!vars)
  BY <1>2, ShownThen DEF Kept!Next
<1> QED  BY <1>3, <1>4, <1>5, <1>6, <1>7 DEF Goes

\* A file, from its name going to its inode.
LEMMA FileGoes ==
    ASSUME UInv, ClearForFile \/ (\E n \in 1 .. Chunk : ReadContents(n)) \/ CreateEmpty \/ StoreFile
    PROVE  Goes
<1>1. at = "contents" => answer = "entry"
  BY LeftIs DEF UInv, InHandOrBroken
<1>2. Deferred'
  <2>1. deferred' = deferred
    BY DEF ClearForFile, ReadContents, CreateEmpty, StoreFile
  <2> QED  BY <2>1, DeferredKept DEF UInv
<1>3. Counts'
  BY DEF UInv, Counts, ClearForFile, ReadContents, CreateEmpty, StoreFile, AskNext, streamVars,
         writerVars, readerVars
<1>4. Seat'
  BY DEF UInv, Seat, ClearForFile, ReadContents, CreateEmpty, StoreFile, ContentsRead
<1>5. CASE ClearForFile
  <2>1. Sound(vol)' /\ Kept!Begin /\ InPlace'
    BY <1>5, ClearBegins, ShownThen DEF UInv
  <2>2. Arrived'
    BY <1>5, LeavesArrived DEF UInv, ClearForFile, IsEntry
  <2> QED  BY <1>2, <1>3, <1>4, <2>1, <2>2 DEF Goes, Kept!Next
<1>6. ASSUME NEW n \in 1 .. Chunk, ReadContents(n)  PROVE Goes
  <2>1. vol' = vol /\ got' = got /\ at' = at /\ answer' = answer /\ streaming' = streaming
        /\ Entry' = Entry
    BY <1>6 DEF ReadContents, Entry
  <2>2. Arrived'
    BY <1>6, ReadArrived DEF UInv
  <2>3. InPlace'
    BY <2>1, ShownThen DEF UInv, InPlace, NewPlace, IsMarker, Markers, LastName, NamesOf
  <2>4. Sound(vol)' /\ UNCHANGED Kept!vars
    <3>1. Shown(vol') = Shown(vol) /\ Stage' = Stage
      BY <2>1 DEF Stage
    <3> QED  BY <2>1, <3>1, KeptStutters, ShownThen DEF UInv
  <2> QED  BY <1>2, <1>3, <1>4, <2>2, <2>3, <2>4 DEF Goes
<1>7. CASE CreateEmpty
  <2>1. Sound(vol)' /\ Kept!Begin /\ InPlace'
    BY <1>1, <1>7, CreatedEmpty, ShownThen DEF UInv, CreateEmpty
  <2>2. Arrived'
    BY <1>7, LeavesArrived DEF UInv, CreateEmpty
  <2> QED  BY <1>2, <1>3, <1>4, <2>1, <2>2 DEF Goes, Kept!Next
<1>8. CASE StoreFile
  <2>1. Sound(vol)' /\ Kept!Apply
    BY <1>1, <1>8, StoredFile, ShownThen DEF UInv, StoreFile, ContentsRead
  <2>2. InPlace' /\ Arrived'
    BY <1>8, LeavesArrived DEF UInv, StoreFile, InPlace
  <2> QED  BY <1>2, <1>3, <1>4, <2>1, <2>2 DEF Goes, Kept!Next
<1> QED  BY <1>5, <1>6, <1>7, <1>8

\* The archive is over.
LEMMA EndGoes ==
    ASSUME UInv, ArchiveEnds \/ Restamp \/ Done
    PROVE  Goes
<1>1. at \in {"restamping", "done"} => answer = "end"
  BY LeftIs DEF UInv, InHandOrBroken
<1>2. /\ UNCHANGED streamVars /\ answer = "end" /\ at' \in {"restamping", "done"}
      /\ at # "failed" /\ answer' = answer /\ got' = got
  BY <1>1 DEF ArchiveEnds, Restamp, Done, streamVars, readerVars
<1>3. Deferred'
  BY DeferredKept DEF UInv, ArchiveEnds, Restamp, Done
<1>4. Seat' /\ InPlace'
  BY <1>2 DEF Seat, InPlace
<1>5. Counts'
  BY <1>2 DEF UInv, Counts, streamVars, writerVars, readerVars
<1>6. Arrived'
  BY <1>2, LeavesArrived DEF UInv
<1>7. Sound(vol') /\ Shown(vol') = Shown(vol)
  <2>1. Restamp \/ vol' = vol
    BY DEF ArchiveEnds, Done
  <2> QED  BY <2>1, RestampedIs DEF UInv
<1>8. Stage' = Stage
  BY <1>2 DEF Stage
<1> QED  BY <1>2, <1>3, <1>4, <1>5, <1>6, <1>7, <1>8, KeptStutters, ShownThen DEF Goes

\* A call fails, wherever.
LEMMA FailureGoes ==
    ASSUME UInv, EntryFails \/ ContentsFail \/ NextFails \/ RestampFails
    PROVE  Goes
<1>1. (at \in {"restamping", "done"} => answer = "end") /\ (at = "contents" => answer = "entry")
  BY LeftIs DEF UInv, InHandOrBroken
<1>2. /\ Stops /\ UNCHANGED streamVars /\ at' = "failed" /\ answer # "asked" /\ answer' = answer
      /\ deferred' = deferred
  BY <1>1 DEF EntryFails, ContentsFail, NextFails, RestampFails, Here, Stops, streamVars, readerVars
<1>3. Deferred'
  BY <1>2, DeferredKept DEF UInv
<1>4. Seat' /\ InPlace'
  BY <1>2 DEF Seat, InPlace
<1>5. Counts'
  BY <1>2 DEF UInv, Counts, streamVars, writerVars, readerVars
<1>6. Arrived'
  BY <1>2, LeavesArrived DEF UInv
<1>7. Sound(vol') /\ Kept!Stop
  <2>1. CASE EntryFails
    BY <2>1, EntryStops DEF UInv
  <2>2. CASE ContentsFail
    BY <1>1, <2>2, ContentsStop DEF UInv
  <2>3. CASE NextFails
    BY <1>2, <2>3, KeptStops DEF UInv, NextFails
  <2>4. CASE RestampFails
    BY <1>2, <2>4, RestampedIs, KeptStops DEF UInv
  <2> QED  BY <2>1, <2>2, <2>3, <2>4
<1> QED  BY <1>3, <1>4, <1>5, <1>6, <1>7, ShownThen DEF Goes, Kept!Next

\* The volume and the unpacker are left alone.
LEMMA VolumeStays ==
    ASSUME UInv, UNCHANGED unpackVars, at = "contents" => got' = got
    PROVE  Deferred' /\ InPlace' /\ Sound(vol)' /\ Shown(vol') = Shown(vol)
<1>1. vol' = vol /\ at' = at /\ streaming' = streaming /\ deferred' = deferred
  BY DEF unpackVars
<1>2. Deferred'
  BY <1>1, DeferredKept DEF UInv
<1>3. at = "contents" => Entry' = Entry
  BY DEF Entry
<1>4. InPlace'
  BY <1>1, <1>3, ShownThen DEF UInv, InPlace, NewPlace, IsMarker, Markers, LastName, NamesOf
<1> QED  BY <1>1, <1>2, <1>4, ShownThen DEF UInv

\* The writer has no part in it,
LEMMA WriterGoes ==
    ASSUME UInv, Packs \/ ToolWrites \/ Breaks
    PROVE  Goes
<1>1. UNCHANGED unpackVars /\ UNCHANGED readerVars
  BY PackWrites, ToolDoes DEF Packs, ToolWrites, Breaks, Break
<1>2. at' = at /\ pending' = pending /\ answer' = answer /\ got' = got /\ pad' = pad
  BY <1>1 DEF unpackVars, readerVars
<1>3. Deferred' /\ InPlace' /\ Sound(vol)' /\ Shown(vol') = Shown(vol)
  BY <1>1, <1>2, VolumeStays
<1>4. UNCHANGED Kept!vars
  BY <1>2, <1>3, KeptStutters DEF Stage
<1>5. Seat'
  BY <1>2 DEF UInv, Seat
<1>6. Counts'
  <2>1. CASE Packs
    BY <1>2, <2>1, PackCounts DEF UInv, Inv, Counts
  <2>2. CASE ToolWrites
    BY <1>2, <2>2, ToolCounts DEF UInv, Counts
  <2>3. CASE Breaks
    BY <1>2, <2>3 DEF UInv, Counts, Breaks, Break
  <2> QED  BY <2>1, <2>2, <2>3
<1>7. Arrived'
  <2>1. CASE Packs \/ ToolWrites
    BY <1>1, <1>2, <2>1, PackWrites, ToolDoes, WritesArrived DEF UInv, Packs
  <2>2. CASE Breaks
    BY <1>2, <2>2, BreaksArrived DEF UInv, Breaks
  <2> QED  BY <2>1, <2>2
<1> QED  BY <1>3, <1>4, <1>5, <1>6, <1>7 DEF Goes

\* and the reader brings the next entry.
LEMMA ReaderGoes ==
    ASSUME Spills = {}, UInv, Inv', Reads
    PROVE  Goes
<1>1. /\ ReaderStep /\ UNCHANGED unpackVars /\ feed' = feed /\ answer = "asked"
      /\ at' = at /\ pending' = pending
  BY ReaderFrame DEF Reads, unpackVars
<1>2. at # "contents" /\ at # "failed"
  BY <1>1, LeftIs DEF UInv, InHandOrBroken, Seat
<1>3. /\ Arrived'
      /\ answer' = "entry" => Row(got) /\ got' = Append(got, Entry') /\ pad' = PadFor(Entry'.size)
      /\ answer' # "entry" => got' = got
  BY <1>1, ReadsArrived DEF UInv
<1>4. Deferred' /\ InPlace' /\ Sound(vol)' /\ Shown(vol') = Shown(vol)
  BY <1>1, <1>2, VolumeStays
<1>5. Seat'
  BY <1>1, <1>2 DEF UInv, Seat
<1>6. Counts'
  <2>1. answer' = "entry" => Entry'.size \in Nat
    BY <1>3 DEF Arrived, Good
  <2> QED  BY <1>1, <1>3, <2>1, ReadsCounts DEF UInv
<1>7. CASE answer' # "entry"
  <2>1. Stage' = Stage
    BY <1>1, <1>2, <1>7 DEF Stage
  <2> QED  BY <1>3, <1>4, <1>5, <1>6, <1>7, <2>1, KeptStutters DEF Goes
<1>8. CASE answer' = "entry"
  <2>1. Stage = "idle" /\ Stage' = "busy"
    BY <1>1, <1>2, <1>8 DEF Stage
  <2>2. Len(got') = Len(got) + 1 /\ Row(got') /\ got' # << >> /\ Front(got') = got
    BY <1>3, <1>8, Appended
  <2>3. IsPrefix(got, got')
    BY <2>2, FrontIsPrefix
  <2>4. Kept!Read
    BY <1>4, <2>1, <2>2, <2>3, ShownThen, KeptSteps
  <2> QED  BY <1>3, <1>4, <1>5, <1>6, <2>4 DEF Goes, Kept!Next
<1> QED  BY <1>7, <1>8

\* Every step: the invariant holds on, and Layer takes a step or none.
LEMMA NextGoes ==
    ASSUME Spills = {}, UInv, [Next]_vars
    PROVE  UInv' /\ [Kept!Next]_(Kept!vars)
<1>1. Inv'
  BY NextInv DEF UInv
<1>2. ASSUME Packs \/ ToolWrites \/ Breaks  PROVE Goes
  BY <1>2, WriterGoes
<1>3. ASSUME Reads  PROVE Goes
  BY <1>1, <1>3, ReaderGoes
<1>4. ASSUME Unpacks  PROVE Goes
  <2>1. CASE SkipRoot \/ Whiteout \/ PlaceDir \/ PlaceSymlink \/ PlaceDevice \/ PlaceLink
    BY <2>1, EntryGoes
  <2>2. CASE ClearForFile \/ (\E n \in 1 .. Chunk : ReadContents(n)) \/ CreateEmpty \/ StoreFile
    BY <2>2, FileGoes
  <2>3. CASE ArchiveEnds \/ Restamp \/ Done
    BY <2>3, EndGoes
  <2>4. CASE EntryFails \/ ContentsFail \/ NextFails \/ RestampFails
    BY <2>4, FailureGoes
  <2> QED  BY <1>4, <2>1, <2>2, <2>3, <2>4 DEF Unpacks, UnpackStep
<1>5. ASSUME UNCHANGED vars  PROVE Goes
  <2>1. UNCHANGED unpackVars /\ UNCHANGED streamVars
    BY <1>5 DEF vars
  <2>2. UNCHANGED writerVars /\ UNCHANGED readerVars /\ at' = at /\ pending' = pending /\ wire' = wire
    BY <2>1 DEF streamVars, unpackVars
  <2>3. answer' = answer /\ got' = got /\ left' = left /\ owed' = owed /\ owedPad' = owedPad
        /\ pad' = pad /\ cut' = cut
    BY <2>2 DEF writerVars, readerVars
  <2>4. Deferred' /\ InPlace' /\ Sound(vol)' /\ Shown(vol') = Shown(vol)
    BY <2>1, <2>3, VolumeStays
  <2>5. Seat' /\ Counts' /\ Stage' = Stage
    BY <2>2, <2>3 DEF UInv, Seat, Counts, Stage
  <2>6. Arrived'
    BY <2>2, <2>3 DEF UInv, Arrived, Entry, Good, Row, Contents
  <2> QED  BY <2>3, <2>4, <2>5, <2>6, KeptStutters DEF Goes
<1>6. Goes
  BY <1>2, <1>3, <1>4, <1>5 DEF Next, Finished
<1>7. Stage = "busy" => Row(Entry.path)
  BY DEF UInv, Stage, Arrived, Good
<1>8. Shaped(Shown(vol))'
  BY <1>6, <1>7, ShapeKept DEF UInv, Goes
<1> QED  BY <1>1, <1>6, <1>8 DEF UInv, Goes

\* What is unpacked onto, at the start: a sound volume, a tree.
LEMMA VolumeIsSound ==
    ASSUME NEW v, IsVolume(v)
    PROVE  Sound(v) /\ Shaped(Shown(v))
<1>1. /\ v = Volume(v.names, v.inodes) /\ v.names \in [Paths -> Inodes \cup {Absent}]
      /\ v.inodes = [i \in Inodes |-> v.inodes[i]]
      /\ \A i \in Inodes : IF NamesOf(v, i) = {} THEN v.inodes[i] = Free ELSE Live(v.inodes[i])
      /\ \A p \in Paths : Exists(v, p) => Reachable(v, p)
  BY DEF IsVolume, Volume, Live
<1>2. \A i \in Inodes : NamesOf(v, i) = {} <=> ~Named(v.names, i)
  BY DEF NamesOf, Named
<1>3. Sound(v)
  BY <1>1, <1>2 DEF Sound, Fit
<1>4. ASSUME NEW p \in Paths, Shown(v)[p] # Kept!Nothing, NEW q \in Ancestors(p)
      PROVE  Shown(v)[q] = Kept!Directory
  <2>1. Reachable(v, p)
    BY <1>1, <1>3, <1>4, ShownIs
  <2>2. PICK n \in 1 .. Len(p) - 1 : q = SubSeq(p, 1, n)
    BY DEF Ancestors, UpTo
  <2>3. IsDir(v, q)
    BY <2>1, <2>2 DEF Reachable
  <2>4. q \in Paths
    BY AncestorsAre
  <2> QED  BY <1>3, <2>3, <2>4, ShownIs
<1> QED  BY <1>3, <1>4 DEF Shaped

\* An archive of our own is unpacked onto nothing.
LEMMA NoneIsSound == Sound(EmptyVolume) /\ Shaped(Shown(EmptyVolume))
<1> DEFINE v == EmptyVolume
<1>1. /\ v = Volume(v.names, v.inodes) /\ v.names = [p \in Paths |-> Absent]
      /\ v.inodes = [i \in Inodes |-> Free]
  BY DEF EmptyVolume, Volume
<1>2. \A i \in Inodes : ~Named(v.names, i)
  BY <1>1, InodeFacts DEF Named
<1>3. Sound(v)
  BY <1>1, <1>2 DEF Sound, Fit
<1>4. ASSUME NEW p \in Paths  PROVE Shown(v)[p] = Kept!Nothing
  BY <1>1, <1>3, ShownIs
<1> QED  BY <1>3, <1>4 DEF Shaped

\* They hold at the start.
LEMMA InitUInv == Init => UInv /\ Kept!Init
<1> SUFFICES ASSUME Init  PROVE UInv /\ Kept!Init
  OBVIOUS
<1>1. Inv
  BY InitInv
<1>2. /\ at = "entries" /\ answer = "asked" /\ got = << >> /\ left = 0 /\ owed = 0 /\ owedPad = 0
      /\ pad = 0 /\ deferred = << >>
  BY DEF Init, UnpackInit
<1>3. Sound(vol) /\ Shaped(Shown(vol))
  <2>1. vol = EmptyVolume \/ vol \in LowerTrees
    BY DEF Init, UnpackInit
  <2> QED  BY <2>1, VolumeIsSound, NoneIsSound, LowerAssumption
<1>4. Seat /\ Arrived /\ InPlace
  BY <1>2 DEF Seat, Arrived, InPlace
<1>5. Counts
  <2>1. 0 \in 0 .. BLOCK - 1
    BY PaddingFits
  <2> QED  BY <1>2, <2>1 DEF Counts
<1>6. Deferred
  <2>1. Row(deferred) /\ Len(deferred) = 0
    BY <1>2, EmptyRow
  <2> QED  BY <2>1 DEF Deferred
<1>7. Kept!Init
  <2>1. Stage = "idle"
    BY <1>2 DEF Stage
  <2>2. \A q \in Paths : Shown(vol)[q] # Kept!Nothing =>
            \A r \in Kept!Above(q) : Shown(vol)[r] = Kept!Directory
    BY <1>3, LayerPaths DEF Shaped
  <2> QED  BY <1>2, <2>1, <2>2 DEF Kept!Init, Shown, Stage, Kept!Holding, Kept!Nothing
<1> QED  BY <1>1, <1>3, <1>4, <1>5, <1>6, <1>7 DEF UInv

\* The state stays in range, in every reachable state.
LEMMA UInvTypes == UInv => TypeOK
<1> SUFFICES ASSUME UInv  PROVE TypeOK
  OBVIOUS
<1>1. feed \in {"pack", "tool"} /\ answer \in {"asked", "entry", "end", "error"}
  BY DEF UInv, Inv, Common
<1>2. at \in {"entries", "contents", "restamping", "done", "failed"}
  BY DEF UInv, Seat
<1>3. owed \in Nat /\ owedPad \in 0 .. BLOCK - 1 /\ pad \in 0 .. BLOCK - 1
  BY DEF UInv, Counts
<1>4. left \in Nat /\ (at = "contents" => answer = "entry")
  BY LeftIs DEF UInv, InHandOrBroken
<1>5. left > 0 => got # << >> /\ left <= Last(got).size
  BY DEF UInv, Arrived, Entry
<1>6. \A p \in Paths : vol.names[p] \in Inodes \cup {Absent}
  BY DEF UInv, Sound, Fit
<1>7. ASSUME NEW i \in Inodes  PROVE (vol.inodes[i] = Free) = (NamesOf(vol, i) = {})
  <2>1. NamesOf(vol, i) = {} <=> ~Named(vol.names, i)
    BY DEF NamesOf, Named
  <2>2. IF Named(vol.names, i) THEN Live(vol.inodes[i]) ELSE vol.inodes[i] = Free
    BY DEF UInv, Sound, Fit
  <2>3. ~Live(Free)
    BY DEF Live, Free, Kinds
  <2> QED  BY <2>1, <2>2, <2>3
<1>8. ASSUME at = "contents"  PROVE Len(pending) + left = Last(got).size
  <2> DEFINE z == Entry.size
  <2>1. z \in Nat /\ left \in Nat /\ left <= z /\ pending = SubSeq(Contents(Entry), 1, z - left)
    BY <1>4, <1>8 DEF UInv, Arrived, Good
  <2>2. Row(Contents(Entry)) /\ Len(Contents(Entry)) = z
    BY <2>1, TableRow DEF Contents
  <2> HIDE DEF z
  <2>3. Len(pending) = z - left
    <3> DEFINE m == z - left
    <3> HIDE DEF m
    <3>1. pending = SubSeq(Contents(Entry), 1, m)
      BY <2>1 DEF m
    <3>2. m \in 0 .. Len(Contents(Entry)) /\ m \in Nat
      BY <2>1, <2>2 DEF m
    <3>3. Len(pending) = IF 1 <= m THEN m - 1 + 1 ELSE 0
      BY <2>2, <3>1, <3>2, PartOf
    <3>4. Len(pending) = m
      BY <3>2, <3>3
    <3> QED  BY <3>4 DEF m
  <2>4. z = Last(got).size
    BY DEF z, Entry
  <2> QED  BY <2>1, <2>3, <2>4
<1> QED  BY <1>1, <1>2, <1>3, <1>4, <1>5, <1>6, <1>7, <1>8 DEF TypeOK

\* Volume, stream and unpacking fit together in every reachable state, unless a link target
\* spills into the prefix field.
THEOREM UnpackInv ==
    ASSUME Spills = {}
    PROVE  Spec => []UInv
<1>1. UInv /\ [Next]_vars => UInv'
  BY NextGoes
<1> QED  BY <1>1, InitUInv, PTL DEF Spec

\* The state stays in range: next never looks past an entry, unpack_file's contents are as long
\* as what it has read of them, a name names an inode in use and an inode in use has a name.
THEOREM ArchiveTypes ==
    ASSUME Spills = {}
    PROVE  Spec => []TypeOK
BY UnpackInv, UInvTypes, PTL

\* unpack_tar_layer implements Layer: every step of the reader, the writer and the unpacker is to
\* the contents of paths a step Layer allows, or does not show.
THEOREM LayerIsKept ==
    ASSUME Spills = {}
    PROVE  Spec => KeepsLayer
<1>1. UInv /\ [Next]_vars => [Kept!Next]_(Kept!vars)
  BY NextGoes
<1>2. Init => Kept!Init
  BY InitUInv
<1> QED  BY <1>1, <1>2, UnpackInv, PTL DEF Spec, KeepsLayer, Kept!Spec
=============================================================================
