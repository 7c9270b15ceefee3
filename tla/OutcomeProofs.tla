---------------------------- MODULE OutcomeProofs ----------------------------
(***************************************************************************)
(* What an unpacking leaves in the end: of every path the archive names    *)
(* the attributes of its last entry, and of an archive of our own the tree *)
(* that was packed.                                                        *)
(*                                                                         *)
(* Contents are UnpackProofs' matter; here it is the inodes.  A path that  *)
(* is no directory keeps its inode, and what that says, until an entry for *)
(* the same path comes: other entries change directories only, and a       *)
(* directory has one name.                                                 *)
(***************************************************************************)
EXTENDS UnpackProofs

(***************************************************************************)
(* What the calls on a volume leave alone.                                 *)
(***************************************************************************)
\* A directory has one name.
Lone(v) == \A p, q \in Paths : IsDir(v, p) /\ v.names[p] = v.names[q] => p = q

\* Outside S, what is in w and no directory was in v already, the same inode.
Solid(v, q) == Exists(v, q) /\ ~IsDir(v, q)
Stays(v, w, q) == w.names[q] = v.names[q] /\ InodeAt(w, q) = InodeAt(v, q)
Firm(v, w, S) == \A q \in Paths \ S : Solid(w, q) => Solid(v, q) /\ Stays(v, w, q)

\* What is left alone by one call after the other is left alone by both.
LEMMA FirmThen ==
    ASSUME NEW u, NEW v, NEW w, NEW S, NEW T, Firm(u, v, S), Firm(v, w, T)
    PROVE  Firm(u, w, S \cup T)
BY DEF Firm, Stays

\* Directories with one name keep it where names only go, or only one comes that is of an inode
\* with no other or of no directory.
LEMMA LoneKept ==
    ASSUME NEW v, Lone(v), NEW w,
           \A q \in Paths : IsDir(w, q) =>
               \/ IsDir(v, q) /\ w.names[q] = v.names[q]
                  /\ \A r \in Paths : w.names[r] = w.names[q] => v.names[r] = v.names[q]
               \/ \A r \in Paths : w.names[r] = w.names[q] => r = q
    PROVE  Lone(w)
BY DEF Lone

\* unlink and rmdir change, of what stays, the directories they take names from.
LEMMA WithoutLeaves ==
    ASSUME NEW v, Sound(v), Shaped(Shown(v)), NEW gone \in SUBSET Paths
    PROVE  /\ Firm(v, Without(v, gone), {})
           /\ Lone(v) => Lone(Without(v, gone))
<1> DEFINE w == Without(v, gone)
           present == {p \in gone : Exists(v, p)}
           changed == {v.names[Parent(p)] : p \in {q \in present : Len(q) > 1}}
           kept(i) == NamesOf(v, i) \ gone
<1>1. /\ Sound(w) /\ Shown(w) = EmptiedIn(Shown(v), gone)
      /\ \A p \in Paths : w.names[p] = IF p \in gone THEN Absent ELSE v.names[p]
  BY WithoutIs
<1>2. \A i \in Inodes : w.inodes[i] = IF kept(i) = {} THEN Free
                                      ELSE IF i \in changed THEN [v.inodes[i] EXCEPT !.time = 0]
                                      ELSE v.inodes[i]
  BY DEF Without
<1>3. ASSUME NEW i \in Inodes, i \in changed, NEW q \in Paths, v.names[q] = i
      PROVE  IsDir(v, q)
  <2>1. PICK r \in gone : Exists(v, r) /\ Len(r) > 1 /\ i = v.names[Parent(r)]
    BY <1>3
  <2>2. Parent(r) \in Ancestors(r) /\ Parent(r) \in Paths /\ Shown(v)[r] # Kept!Nothing
    BY <2>1, ParentIs, ShownIs
  <2>3. Shown(v)[Parent(r)] = Kept!Directory
    BY <2>2 DEF Shaped
  <2>4. Exists(v, Parent(r)) /\ v.inodes[i].kind = "dir"
    BY <2>1, <2>2, <2>3, ShownIs, PathLength DEF IsDir, InodeAt
  <2>5. Exists(v, q) /\ q # << >>
    BY <1>3, <2>1, <2>2, <2>4, ShownIs, PathLength
  <2> QED  BY <1>3, <2>4, <2>5 DEF IsDir, InodeAt
<1>4. ASSUME NEW q \in Paths, Exists(w, q)
      PROVE  /\ w.names[q] = v.names[q] /\ Exists(v, q)
             /\ Stays(v, w, q) \/ IsDir(v, q)
             /\ IsDir(w, q) <=> IsDir(v, q)
  <2>1. q \notin gone /\ w.names[q] = v.names[q] /\ v.names[q] # Absent
    BY <1>1, <1>4, ShownIs
  <2>2. q \in kept(v.names[q]) /\ v.names[q] \in Inodes /\ Exists(v, q)
    BY <2>1, ShownIs DEF NamesOf
  <2>3. v.names[q] \notin changed => Stays(v, w, q)
    <3> HIDE DEF changed
    <3> QED  BY <1>2, <2>1, <2>2 DEF Stays, InodeAt
  <2>4. v.names[q] \in changed => IsDir(v, q)
    BY <1>3, <2>2
  <2>5. Shown(w)[q] = Shown(v)[q]
    BY <1>1, <2>1 DEF EmptiedIn
  <2> QED  BY <1>1, <2>1, <2>2, <2>3, <2>4, <2>5, ShownIs
<1> HIDE DEF w
<1>5. Firm(v, w, {})
  BY <1>4 DEF Firm, Solid
<1>6. ASSUME Lone(v)  PROVE Lone(w)
  <2>1. ASSUME NEW q \in Paths, IsDir(w, q), NEW r \in Paths, w.names[r] = w.names[q]
        PROVE  IsDir(v, q) /\ w.names[q] = v.names[q] /\ v.names[r] = v.names[q]
    <3>1. Exists(w, q)
      BY <2>1, PathLength DEF IsDir
    <3>2. Exists(w, r)
      BY <1>1, <2>1, <3>1, ShownIs
    <3> QED  BY <1>4, <2>1, <3>1, <3>2
  <2> QED  BY <1>6, <2>1, LoneKept
<1> QED  BY <1>5, <1>6 DEF w

\* write_with, symlink and mknod leave all other paths alone.
LEMMA MakeLeaves ==
    ASSUME NEW v, Sound(v), NEW p \in Paths, v.names[p] = Absent, NEW node, Live(node)
    PROVE  LET w == Make(v, p, node)
           IN  /\ Firm(v, w, {p}) /\ InodeAt(w, p) = node /\ Exists(w, p)
               /\ \A q \in Paths : q # p => w.names[q] = v.names[q] /\ w.names[q] # w.names[p]
               /\ \A q \in Paths : q # p /\ Exists(v, q) => Stays(v, w, q)
               /\ Lone(v) => Lone(w)
<1> DEFINE w == Make(v, p, node)
           i == CHOOSE j \in Inodes : NamesOf(v, j) = {}
<1>1. i \in Inodes /\ NamesOf(v, i) = {}
  BY InodeLeft
<1>2. Sound(w) /\ w.names[p] \in Inodes /\ NamesOf(w, w.names[p]) = {p}
  BY MakeIs
<1>3. Fit(v.names, v.inodes)
  BY DEF Sound
<1>4. /\ w.names = [v.names EXCEPT ![p] = i] /\ w.inodes = [v.inodes EXCEPT ![i] = node]
  BY DEF Make
<1>5. /\ w.names[p] = i /\ w.inodes[i] = node
      /\ \A q \in Paths : q # p => w.names[q] = v.names[q]
      /\ \A j \in Inodes : j # i => w.inodes[j] = v.inodes[j]
  BY <1>1, <1>3, <1>4 DEF Fit
<1> HIDE DEF w
<1>6. \A q \in Paths : q # p => w.names[q] # w.names[p]
  BY <1>2 DEF NamesOf
<1>7. ASSUME NEW q \in Paths, q # p, Exists(v, q)  PROVE Stays(v, w, q)
  <2>1. v.names[q] \in Inodes /\ w.names[q] = v.names[q] /\ v.names[q] # i
    BY <1>5, <1>6, <1>7, ShownIs
  <2> QED  BY <1>5, <2>1 DEF Stays, InodeAt
<1>8. ASSUME NEW q \in Paths, q # p, Exists(w, q)  PROVE Exists(v, q)
  BY <1>2, <1>5, <1>8, ShownIs
<1>9. Firm(v, w, {p})
  BY <1>7, <1>8, PathLength DEF Firm, Solid, IsDir, Stays
<1>10. ASSUME Lone(v)  PROVE Lone(w)
  <2>1. ASSUME NEW q \in Paths, q # p, IsDir(w, q), NEW r \in Paths, w.names[r] = w.names[q]
        PROVE  IsDir(v, q) /\ w.names[q] = v.names[q] /\ v.names[r] = v.names[q]
    <3>1. Exists(w, q) /\ r # p
      BY <1>6, <2>1, PathLength DEF IsDir
    <3> QED  BY <1>5, <1>7, <1>8, <2>1, <3>1 DEF IsDir, Stays
  <2> QED  BY <1>6, <1>10, <2>1, LoneKept
<1>11. Exists(w, p) /\ InodeAt(w, p) = node
  BY <1>2, <1>5, ShownIs, InodeFacts DEF InodeAt
<1> QED  BY <1>5, <1>6, <1>7, <1>9, <1>10, <1>11 DEF w

\* An inode written again: its names are the same, other inodes too, and a directory that stays
\* one is no matter to the rest.
LEMMA RewriteLeaves ==
    ASSUME NEW v, Sound(v), NEW p \in Paths, Exists(v, p), NEW node, Live(node)
    PROVE  LET u == [v EXCEPT !.inodes[v.names[p]] = node]
           IN  /\ u.names = v.names /\ InodeAt(u, p) = node
               /\ \A q \in Paths : v.names[q] = v.names[p] => InodeAt(u, q) = node
               /\ \A q \in Paths : Exists(v, q) /\ v.names[q] # v.names[p] => Stays(v, u, q)
               /\ NamesOf(v, v.names[p]) = {p} => Firm(v, u, {p})
               /\ IsDir(v, p) /\ node.kind = "dir" => Firm(v, u, {})
               /\ Lone(v) /\ (node.kind = "dir" => IsDir(v, p)) => Lone(u)
<1> DEFINE u == [v EXCEPT !.inodes[v.names[p]] = node]
<1>1. Fit(v.names, v.inodes) /\ v.names[p] \in Inodes /\ v = Volume(v.names, v.inodes)
  BY ShownIs DEF Sound
<1>2. /\ u.names = v.names /\ u.inodes[v.names[p]] = node
      /\ \A j \in Inodes : j # v.names[p] => u.inodes[j] = v.inodes[j]
  BY <1>1 DEF Fit, Volume
<1>3. Sound(u)
  BY RewriteIs
<1> HIDE DEF u
<1>4. \A q \in Paths : Exists(u, q) <=> Exists(v, q)
  BY <1>2 DEF Exists
<1>5. ASSUME NEW q \in Paths, Exists(v, q), v.names[q] # v.names[p]
      PROVE  Stays(v, u, q) /\ (IsDir(u, q) <=> IsDir(v, q))
  BY <1>2, <1>4, <1>5, ShownIs, PathLength DEF Stays, InodeAt, IsDir
<1>6. ASSUME NEW q \in Paths, v.names[q] = v.names[p]
      PROVE  /\ Exists(v, q) /\ InodeAt(u, q) = node
             /\ IsDir(u, q) <=> node.kind = "dir"
             /\ IsDir(v, q) <=> IsDir(v, p)
  BY <1>1, <1>2, <1>4, <1>6, ShownIs, PathLength, InodeFacts DEF InodeAt, IsDir, Exists
<1>7. NamesOf(v, v.names[p]) = {p} => Firm(v, u, {p})
  BY <1>4, <1>5 DEF Firm, Solid, NamesOf
<1>8. IsDir(v, p) /\ node.kind = "dir" => Firm(v, u, {})
  BY <1>4, <1>5, <1>6 DEF Firm, Solid
<1>9. ASSUME Lone(v), node.kind = "dir" => IsDir(v, p)  PROVE Lone(u)
  <2>1. \A q \in Paths : IsDir(u, q) => IsDir(v, q)
    BY <1>4, <1>5, <1>6, <1>9, PathLength DEF IsDir
  <2> QED  BY <1>2, <1>9, <2>1 DEF Lone
<1> QED  BY <1>2, <1>5, <1>6, <1>7, <1>8, <1>9 DEF u

\* mkdir_with changes the directory the new one is in.
LEMMA MakeDirLeaves ==
    ASSUME NEW v, Sound(v), NEW p \in Paths, v.names[p] = Absent, NEW attr,
           Len(p) > 1 => IsDir(v, Parent(p))
    PROVE  LET w == MakeDir(v, p, attr)
           IN  /\ Firm(v, w, {})
               /\ \A q \in Paths : q # p => w.names[q] = v.names[q] /\ w.names[q] # w.names[p]
               /\ \A q \in Paths : IsDir(w, q) =>
                      InodeAt(w, q).time = 0 \/ (IsDir(v, q) /\ Stays(v, w, q))
               /\ Lone(v) => Lone(w)
<1> DEFINE node == Node("dir", << >>, attr, {}, 0)
           m == Make(v, p, node)
           w == MakeDir(v, p, attr)
<1>1. Live(node) /\ node.kind = "dir" /\ node.time = 0
  BY DEF Live, Node, Kinds
<1>2. MakeDir(v, p, attr) = IF Len(p) = 1 THEN m
                            ELSE [m EXCEPT !.inodes[v.names[Parent(p)]].time = 0]
  BY DEF MakeDir
<1> HIDE DEF node, w
<1>10. Sound(m)
  BY <1>1, MakeIs
<1>3. /\ Firm(v, m, {p}) /\ InodeAt(m, p) = node /\ Exists(m, p)
      /\ \A q \in Paths : q # p => m.names[q] = v.names[q] /\ m.names[q] # m.names[p]
      /\ \A q \in Paths : q # p /\ Exists(v, q) => Stays(v, m, q)
      /\ Lone(v) => Lone(m)
  BY <1>1, MakeLeaves, Zenon
<1> HIDE DEF m
<1>4. IsDir(m, p) /\ Firm(v, m, {})
  BY <1>1, <1>3, PathLength DEF IsDir, Firm, Solid
<1>5. ASSUME NEW q \in Paths, IsDir(m, q)
      PROVE  InodeAt(m, q).time = 0 \/ (IsDir(v, q) /\ Stays(v, m, q))
  <2>1. CASE q = p
    BY <1>1, <1>3, <2>1
  <2>2. CASE q # p
    <3>1. Exists(v, q)
      BY <1>3, <1>5, <1>10, <2>2, ShownIs, PathLength DEF IsDir
    <3> QED  BY <1>3, <1>5, <2>2, <3>1, PathLength DEF IsDir, Stays
  <2> QED  BY <2>1, <2>2
<1>6. CASE Len(p) = 1
  BY <1>2, <1>3, <1>4, <1>5, <1>6 DEF w
<1>7. CASE Len(p) # 1
  <2> DEFINE d == Parent(p)
             old == m.inodes[m.names[d]]
             new == [old EXCEPT !.time = 0]
             u == [m EXCEPT !.inodes[m.names[d]] = new]
  <2>1. d \in Paths /\ d # p /\ IsDir(v, d)
    <3>3. PICK n \in Nat \ {0} : n = Len(p)
      BY PathLength
    <3>4. n # 1
      BY <1>7, <3>3, Zenon
    <3>5. n > 1
      BY <3>4
    <3>1. Len(p) > 1 /\ Len(p) \in Nat
      BY <3>3, <3>5
    <3>2. d \in Paths /\ Len(d) = Len(p) - 1
      BY <3>1, ParentIs
    <3> QED  BY <3>1, <3>2
  <2> HIDE DEF d
  <2>2. Exists(v, d) /\ Stays(v, m, d) /\ m.names[d] = v.names[d]
    BY <1>3, <2>1, PathLength DEF IsDir
  <2>3. Exists(m, d) /\ IsDir(m, d) /\ old.kind = "dir" /\ Live(old)
    BY <1>3, <1>10, <2>1, <2>2, ShownIs, PathLength DEF IsDir, Stays, InodeAt, Exists
  <2>4. Live(new) /\ new.kind = "dir" /\ new.time = 0
    BY <2>3, Retimed DEF Live, Node
  <2>5. w = u
    <3>1. w = [m EXCEPT !.inodes[v.names[d]].time = 0]
      BY <1>2, <1>7 DEF w, d
    <3> QED  BY <2>2, <3>1
  <2> HIDE DEF new, old
  <2>6. /\ u.names = m.names /\ Sound(u)
        /\ \A q \in Paths : m.names[q] = m.names[d] => InodeAt(u, q) = new
        /\ \A q \in Paths : Exists(m, q) /\ m.names[q] # m.names[d] => Stays(m, u, q)
        /\ Firm(m, u, {}) /\ (Lone(m) => Lone(u))
    <3>1. Sound(u)
      BY <1>10, <2>1, <2>3, <2>4, RewriteIs
    <3>2. /\ u.names = m.names /\ InodeAt(u, d) = new
          /\ \A q \in Paths : m.names[q] = m.names[d] => InodeAt(u, q) = new
          /\ \A q \in Paths : Exists(m, q) /\ m.names[q] # m.names[d] => Stays(m, u, q)
          /\ NamesOf(m, m.names[d]) = {d} => Firm(m, u, {d})
          /\ IsDir(m, d) /\ new.kind = "dir" => Firm(m, u, {})
          /\ Lone(m) /\ (new.kind = "dir" => IsDir(m, d)) => Lone(u)
      BY <1>10, <2>1, <2>3, <2>4, RewriteLeaves
    <3> HIDE DEF u
    <3> QED  BY <2>3, <2>4, <3>1, <3>2
  <2> HIDE DEF u
  <2>7. Firm(v, u, {})
    BY <1>4, <2>6, FirmThen
  <2>8. ASSUME NEW q \in Paths, IsDir(u, q)
        PROVE  InodeAt(u, q).time = 0 \/ (IsDir(v, q) /\ Stays(v, u, q))
    <3>1. CASE m.names[q] = m.names[d]
      BY <2>4, <2>6, <3>1
    <3>2. CASE m.names[q] # m.names[d]
      <4>1. Exists(m, q) /\ Stays(m, u, q)
        BY <2>6, <2>8, <3>2, PathLength DEF IsDir, Exists
      <4>2. IsDir(m, q)
        BY <2>8, <4>1, PathLength DEF IsDir, Stays
      <4> QED  BY <1>5, <4>1, <4>2 DEF Stays
    <3> QED  BY <3>1, <3>2
  <2> QED  BY <1>3, <2>5, <2>6, <2>7, <2>8 DEF w
<1> QED  BY <1>6, <1>7

\* mkdir_all makes directories on a way that leads through directories.
LEMMA MakeAllLeaves ==
    ASSUME NEW v, Sound(v), NEW p, Row(p), \A n \in 1 .. Len(p) : UpTo(p, n) \in Paths,
           \A n \in 1 .. Len(p) : Shown(v)[UpTo(p, n)] \in {Kept!Nothing, Kept!Directory}
    PROVE  /\ Firm(v, MakeAll(v, p), {})
           /\ Lone(v) => Lone(MakeAll(v, p))
<1>1. PICK N \in Nat : N = Len(p)
  BY RowFacts
<1>2. PICK c : /\ c[1 .. 0] = v /\ MakeAll(v, p) = c[1 .. N]
               /\ \A k \in 0 .. N - 1 : c[1 .. k + 1] = Made(c[1 .. k], p, k + 1)
  BY <1>1, MakeAllSteps
<1> DEFINE Led(k) ==
             /\ Sound(c[1 .. k]) /\ Firm(v, c[1 .. k], {}) /\ (Lone(v) => Lone(c[1 .. k]))
             /\ \A n \in 1 .. N : /\ Shown(c[1 .. k])[UpTo(p, n)] \in {Kept!Nothing, Kept!Directory}
                                  /\ n <= k => Shown(c[1 .. k])[UpTo(p, n)] = Kept!Directory
           T == {k \in Nat : k <= N => Led(k)}
<1>3. 0 \in T
  <2>1. Firm(v, v, {})
    BY DEF Firm, Stays
  <2> QED  BY <1>1, <1>2, <2>1
<1>4. ASSUME NEW k \in Nat, k \in T  PROVE k + 1 \in T
  <2> SUFFICES ASSUME k + 1 <= N  PROVE Led(k + 1)
    OBVIOUS
  <2> DEFINE u == c[1 .. k]
             q == UpTo(p, k + 1)
             w == c[1 .. k + 1]
  <2>1. Led(k)
    BY <1>4
  <2>2. w = Made(u, p, k + 1)
    BY <1>2
  <2>3. q \in Paths /\ Row(q) /\ Len(q) = k + 1
    <3>1. k + 1 \in 1 .. N /\ k + 1 \in 0 .. N
      OBVIOUS
    <3> QED  BY <1>1, <3>1, Beginnings
  <2>4. k > 0 => Parent(q) = UpTo(p, k)
    <3>1. k + 1 \in 0 .. N /\ k \in 0 .. k + 1 /\ (k + 1) - 1 = k
      OBVIOUS
    <3>2. Parent(q) = UpTo(q, Len(q) - 1)
      BY <1>1, <2>3, PathLength, Beginnings
    <3>3. UpTo(q, k) = UpTo(p, k)
      BY <1>1, <3>1, Beginnings
    <3> QED  BY <2>3, <3>1, <3>2, <3>3
  <2> HIDE DEF u, w, q
  <2>5. CASE Exists(u, q)
    <3>1. w = u
      BY <2>2, <2>5 DEF Made, q
    <3>2. Shown(u)[q] = Kept!Directory
      BY <2>1, <2>3, <2>5, ShownIs DEF u, q
    <3>3. \A n \in 1 .. N : n <= k + 1 => n <= k \/ n = k + 1
      OBVIOUS
    <3> QED  BY <2>1, <3>1, <3>2, <3>3 DEF u, w, q
  <2>6. CASE ~Exists(u, q)
    <3>1. w = MakeDir(u, q, DefaultAttr) /\ u.names[q] = Absent /\ Sound(u)
      BY <2>1, <2>2, <2>3, <2>6, ShownIs DEF Made, q, u
    <3>2. Len(q) > 1 => IsDir(u, Parent(q))
      <4> SUFFICES ASSUME k > 0  PROVE IsDir(u, Parent(q))
        BY <2>3
      <4>1. k \in 1 .. N /\ k <= k
        OBVIOUS
      <4>2. UpTo(p, k) \in Paths /\ Shown(u)[UpTo(p, k)] = Kept!Directory
        BY <1>1, <2>1, <4>1 DEF u
      <4> QED  BY <2>4, <3>1, <4>2, ShownIs
    <3>3. /\ Sound(w) /\ Shown(w) = Put(Shown(u), q, Kept!Directory)
          /\ Firm(u, w, {}) /\ (Lone(u) => Lone(w))
      BY <2>3, <3>1, <3>2, MakeDirIs, MakeDirLeaves
    <3>4. \A n \in 1 .. N : n <= k + 1 => n <= k \/ n = k + 1
      OBVIOUS
    <3>5. \A n \in 1 .. N :
              Shown(w)[UpTo(p, n)] = IF UpTo(p, n) = q THEN Kept!Directory ELSE Shown(u)[UpTo(p, n)]
      BY <1>1, <3>3 DEF Put
    <3>6. Firm(v, w, {})
      BY <2>1, <3>3, FirmThen DEF u
    <3> QED  BY <2>1, <3>3, <3>4, <3>5, <3>6 DEF u, w, q
  <2> QED  BY <2>5, <2>6
<1> HIDE DEF T
<1>5. N \in T
  BY <1>3, <1>4, NumbersReached
<1> QED  BY <1>1, <1>2, <1>5 DEF T

\* To take away what is not there changes nothing.
LEMMA NothingTaken ==
    ASSUME NEW v, Sound(v), NEW gone \in SUBSET Paths, \A q \in gone : ~Exists(v, q)
    PROVE  Without(v, gone) = v
<1> DEFINE w == Without(v, gone)
           present == {p \in gone : Exists(v, p)}
           changed == {v.names[Parent(p)] : p \in {q \in present : Len(q) > 1}}
           kept(i) == NamesOf(v, i) \ gone
<1>1. Fit(v.names, v.inodes) /\ v = Volume(v.names, v.inodes)
  BY DEF Sound
<1>2. changed = {}
  OBVIOUS
<1>3. w = Volume([p \in Paths |-> IF p \in gone THEN Absent ELSE v.names[p]],
                 [i \in Inodes |-> IF kept(i) = {} THEN Free
                                   ELSE IF i \in changed THEN [v.inodes[i] EXCEPT !.time = 0]
                                   ELSE v.inodes[i]])
  BY DEF Without, Volume
<1>4. \A p \in Paths : (IF p \in gone THEN Absent ELSE v.names[p]) = v.names[p]
  BY ShownIs
<1>5. ASSUME NEW i \in Inodes
      PROVE  (IF kept(i) = {} THEN Free
              ELSE IF i \in changed THEN [v.inodes[i] EXCEPT !.time = 0]
              ELSE v.inodes[i]) = v.inodes[i]
  <2>1. kept(i) = NamesOf(v, i)
    BY InodeFacts, ShownIs DEF NamesOf
  <2>2. NamesOf(v, i) = {} => v.inodes[i] = Free
    BY <1>1 DEF Fit, NamesOf, Named
  <2> QED  BY <1>2, <2>1, <2>2
<1> HIDE DEF changed, kept
<1>6. [p \in Paths |-> IF p \in gone THEN Absent ELSE v.names[p]] = v.names
  BY <1>1, <1>4 DEF Fit
<1>7. [i \in Inodes |-> IF kept(i) = {} THEN Free
                        ELSE IF i \in changed THEN [v.inodes[i] EXCEPT !.time = 0]
                        ELSE v.inodes[i]] = v.inodes
  <2>1. v.inodes = [i \in Inodes |-> v.inodes[i]]
    BY <1>1 DEF Fit
  <2> QED  BY <1>5, <2>1
<1> QED  BY <1>1, <1>3, <1>6, <1>7 DEF w

\* On a way that is there mkdir_all makes nothing.
LEMMA NothingMade ==
    ASSUME NEW v, NEW p, Row(p), \A n \in 1 .. Len(p) : Exists(v, UpTo(p, n))
    PROVE  MakeAll(v, p) = v
<1>1. PICK N \in Nat : N = Len(p)
  BY RowFacts
<1>2. PICK c : /\ c[1 .. 0] = v /\ MakeAll(v, p) = c[1 .. N]
               /\ \A k \in 0 .. N - 1 : c[1 .. k + 1] = Made(c[1 .. k], p, k + 1)
  BY <1>1, MakeAllSteps
<1> DEFINE T == {k \in Nat : k <= N => c[1 .. k] = v}
<1>3. 0 \in T
  BY <1>2
<1>4. ASSUME NEW k \in Nat, k \in T  PROVE k + 1 \in T
  <2> SUFFICES ASSUME k + 1 <= N  PROVE c[1 .. k + 1] = v
    OBVIOUS
  <2>1. c[1 .. k] = v /\ k \in 0 .. N - 1 /\ k + 1 \in 1 .. N
    BY <1>4
  <2> QED  BY <1>1, <1>2, <2>1 DEF Made
<1> HIDE DEF T
<1>5. N \in T
  BY <1>3, <1>4, NumbersReached
<1> QED  BY <1>2, <1>5 DEF T

\* link gives one more name to what is no directory.
LEMMA LinkLeaves ==
    ASSUME NEW v, Sound(v), NEW p \in Paths, v.names[p] = Absent, NEW t \in Paths, Solid(v, t)
    PROVE  LET w == Link(v, t, p)
           IN  /\ Firm(v, w, {p}) /\ w.names[p] = v.names[t] /\ InodeAt(w, p) = InodeAt(v, t)
               /\ \A q \in Paths : q # p => Stays(v, w, q)
               /\ Lone(v) => Lone(w)
<1> DEFINE w == Link(v, t, p)
<1>1. Fit(v.names, v.inodes) /\ v = Volume(v.names, v.inodes)
  BY DEF Sound
<1>2. /\ w.inodes = v.inodes /\ w.names[p] = v.names[t]
      /\ \A q \in Paths : q # p => w.names[q] = v.names[q]
  BY <1>1 DEF Link, Volume, Fit
<1> HIDE DEF w
<1>3. \A q \in Paths : q # p => Stays(v, w, q) /\ (Exists(w, q) <=> Exists(v, q))
  BY <1>2 DEF Stays, InodeAt, Exists
<1>4. ~IsDir(w, p) /\ InodeAt(w, p) = InodeAt(v, t)
  BY <1>2, PathLength DEF InodeAt, IsDir, Solid, Exists
<1>5. Firm(v, w, {p})
  BY <1>3, PathLength DEF Firm, Solid, IsDir, Stays
<1>6. ASSUME Lone(v)  PROVE Lone(w)
  <2>1. ASSUME NEW q \in Paths, IsDir(w, q), NEW r \in Paths, w.names[r] = w.names[q]
        PROVE  r = q
    <3>1. q # p /\ IsDir(v, q)
      BY <1>3, <1>4, <2>1, PathLength DEF IsDir, Stays
    <3>2. CASE r # p
      BY <1>2, <1>6, <2>1, <3>1, <3>2 DEF Lone
    <3>3. CASE r = p
      <4>1. v.names[q] = v.names[t]
        BY <1>2, <2>1, <3>1, <3>3
      <4>2. q = t
        BY <1>6, <3>1, <4>1 DEF Lone
      <4> QED  BY <3>1, <4>2 DEF Solid
    <3> QED  BY <3>2, <3>3
  <2> QED  BY <2>1 DEF Lone
<1> QED  BY <1>2, <1>3, <1>4, <1>5, <1>6 DEF w

(***************************************************************************)
(* What placing an entry leaves alone.                                     *)
(***************************************************************************)
\* All that leads to an entry is directories then, and so is what led to others.
LEMMA OpenedShaped ==
    ASSUME Sound(vol), Shaped(Shown(vol)), Fits
    PROVE  Shaped(Shown(Opened))
<1> DEFINE p == Entry.path
           t == Shown(vol)
           o == Shown(Opened)
<1>1. p \in Paths /\ \A q \in Ancestors(p) : t[q] \in {Kept!Nothing, Kept!Directory}
  BY FitsIs DEF CanPlace
<1>2. \A q \in Paths : o[q] = IF q \in Ancestors(p) /\ t[q] = Kept!Nothing
                              THEN Kept!Directory ELSE t[q]
  BY <1>1, OpenedIs
<1> HIDE DEF t, o
<1>3. ASSUME NEW x \in Paths, o[x] # Kept!Nothing, NEW q \in Ancestors(x)
      PROVE  o[q] = Kept!Directory
  <2>1. q \in Paths
    BY AncestorsAre
  <2>2. CASE x \in Ancestors(p)
    <3>1. q \in Ancestors(p)
      BY <1>1, <2>2, AncestorsAre
    <3> QED  BY <1>1, <1>2, <2>1, <3>1
  <2>3. CASE x \notin Ancestors(p)
    <3>1. t[x] # Kept!Nothing
      BY <1>2, <1>3, <2>3
    <3>2. t[q] = Kept!Directory
      BY <3>1 DEF Shaped, t
    <3> QED  BY <1>2, <2>1, <3>2
  <2> QED  BY <2>2, <2>3
<1> QED  BY <1>3 DEF Shaped, o

\* mkdir_all on the parent, and remove_all after it.
LEMMA ClearedLeaves ==
    ASSUME Sound(vol), Shaped(Shown(vol)), Fits
    PROVE  /\ Firm(vol, Opened, {}) /\ (Lone(vol) => Lone(Opened))
           /\ Firm(vol, Cleared, {}) /\ (Lone(vol) => Lone(Cleared))
           /\ Len(Entry.path) > 1 => IsDir(Cleared, Parent(Entry.path))
<1> DEFINE p == Entry.path
           d == Parent(p)
<1>1. p \in Paths /\ Row(p) /\ \A q \in Ancestors(p) : Shown(vol)[q] \in {Kept!Nothing, Kept!Directory}
  BY FitsIs, PathLength DEF CanPlace
<1>2. Row(d) /\ Ancestors(p) = {UpTo(d, n) : n \in 1 .. Len(d)} /\ Ancestors(p) \subseteq Paths
  BY <1>1, ParentIs, AncestorsAre
<1>3. /\ \A n \in 1 .. Len(d) : UpTo(d, n) \in Paths
      /\ \A n \in 1 .. Len(d) : Shown(vol)[UpTo(d, n)] \in {Kept!Nothing, Kept!Directory}
  <2> HIDE DEF d
  <2> QED  BY <1>1, <1>2
<1>4. Opened = MakeAll(vol, d)
  BY DEF Opened
<1> HIDE DEF d
<1>5. Firm(vol, Opened, {}) /\ (Lone(vol) => Lone(Opened))
  BY <1>2, <1>3, <1>4, MakeAllLeaves
<1>6. Sound(Opened) /\ Shaped(Shown(Opened))
  BY <1>1, OpenedShaped, OpenedIs
<1>7. Cleared = Without(Opened, Under(p)) /\ Under(p) \in SUBSET Paths
  BY DEF Cleared, RemoveAll, Under
<1>8. Firm(Opened, Cleared, {}) /\ (Lone(Opened) => Lone(Cleared))
  BY <1>6, <1>7, WithoutLeaves
<1>9. Firm(vol, Cleared, {})
  BY <1>5, <1>8, FirmThen
<1>10. ASSUME Len(p) > 1  PROVE IsDir(Cleared, d)
  <2>1. d \in Ancestors(p) /\ d \in Paths
    BY <1>1, <1>10, ParentIs DEF d
  <2>2. d # p /\ d \notin Under(p)
    <3>1. p \notin Ancestors(d) /\ p \notin Ancestors(p)
      BY <1>1, <2>1, AncestorsAre
    <3> QED  BY <1>1, <2>1, <3>1, UnderIs
  <2>3. Shown(Cleared)[d] = IF Shown(vol)[d] = Kept!Nothing THEN Kept!Directory ELSE Shown(vol)[d]
    BY <1>1, <2>1, <2>2, ClearedIs DEF PlacedIn
  <2> QED  BY <1>1, <2>1, <2>3, ClearedIs, ShownIs
<1> QED  BY <1>5, <1>8, <1>9, <1>10 DEF d

\* Where the way is there and nothing is in it they do nothing.
LEMMA NothingInTheWay ==
    ASSUME Sound(vol), Entry.path \in Paths,
           \A q \in Ancestors(Entry.path) : Exists(vol, q),
           \A q \in Under(Entry.path) : ~Exists(vol, q)
    PROVE  Opened = vol /\ Cleared = vol
<1> DEFINE p == Entry.path
           d == Parent(p)
<1>1. Row(d) /\ Ancestors(p) = {UpTo(d, n) : n \in 1 .. Len(d)}
  BY ParentIs
<1>2. Opened = MakeAll(vol, d)
  BY DEF Opened
<1> HIDE DEF d
<1>3. Opened = vol
  BY <1>1, <1>2, NothingMade
<1>4. Cleared = Without(vol, Under(p)) /\ Under(p) \in SUBSET Paths
  BY <1>3 DEF Cleared, RemoveAll, Under
<1> QED  BY <1>3, <1>4, NothingTaken

\* What is put in the place that was cleared leaves all other paths alone.
LEMMA PlacedLeaves ==
    ASSUME Sound(vol), Shaped(Shown(vol)), Fits
    PROVE  /\ \A node : Live(node) =>
                 /\ Firm(vol, Make(Cleared, Entry.path, node), {Entry.path})
                 /\ InodeAt(Make(Cleared, Entry.path, node), Entry.path) = node
                 /\ Lone(vol) => Lone(Make(Cleared, Entry.path, node))
           /\ \A attr :
                 /\ Firm(vol, MakeDir(Cleared, Entry.path, attr), {})
                 /\ IsDir(MakeDir(Cleared, Entry.path, attr), Entry.path)
                 /\ Lone(vol) => Lone(MakeDir(Cleared, Entry.path, attr))
           /\ CanLink =>
                 /\ Firm(vol, Link(Cleared, Entry.link, Entry.path), {Entry.path})
                 /\ Lone(vol) => Lone(Link(Cleared, Entry.link, Entry.path))
<1> DEFINE p == Entry.path
<1>1. p \in Paths /\ Sound(Cleared) /\ Cleared.names[p] = Absent
  BY FitsIs, ClearedIs
<1>2. /\ Firm(vol, Cleared, {}) /\ (Lone(vol) => Lone(Cleared))
      /\ Len(p) > 1 => IsDir(Cleared, Parent(p))
  BY ClearedLeaves
<1>3. {} \cup {p} = {p}
  OBVIOUS
<1> HIDE DEF p
<1>4. ASSUME NEW node, Live(node)
      PROVE  /\ Firm(vol, Make(Cleared, p, node), {p})
             /\ InodeAt(Make(Cleared, p, node), p) = node
             /\ Lone(vol) => Lone(Make(Cleared, p, node))
  <2>1. /\ Firm(Cleared, Make(Cleared, p, node), {p})
        /\ InodeAt(Make(Cleared, p, node), p) = node
        /\ Lone(Cleared) => Lone(Make(Cleared, p, node))
    BY <1>1, <1>4, MakeLeaves
  <2>2. Firm(vol, Make(Cleared, p, node), {} \cup {p})
    BY <1>2, <2>1, FirmThen
  <2> QED  BY <1>2, <1>3, <2>1, <2>2
<1>5. ASSUME NEW attr
      PROVE  /\ Firm(vol, MakeDir(Cleared, p, attr), {})
             /\ IsDir(MakeDir(Cleared, p, attr), p)
             /\ Lone(vol) => Lone(MakeDir(Cleared, p, attr))
  <2> DEFINE w == MakeDir(Cleared, p, attr)
  <2>1. Firm(Cleared, w, {}) /\ (Lone(Cleared) => Lone(w))
    BY <1>1, <1>2, MakeDirLeaves
  <2>2. Sound(w) /\ Shown(w) = Put(Shown(Cleared), p, Kept!Directory)
    BY <1>1, MakeDirIs
  <2> HIDE DEF w
  <2>3. IsDir(w, p)
    BY <1>1, <2>2, ShownIs DEF Put
  <2> QED  BY <1>2, <2>1, <2>3, FirmThen DEF w
<1>6. ASSUME CanLink
      PROVE  /\ Firm(vol, Link(Cleared, Entry.link, p), {p})
             /\ Lone(vol) => Lone(Link(Cleared, Entry.link, p))
  <2>1. Entry.link \in Paths /\ Solid(Cleared, Entry.link)
    BY <1>6 DEF CanLink, Solid
  <2>2. /\ Firm(Cleared, Link(Cleared, Entry.link, p), {p})
        /\ Lone(Cleared) => Lone(Link(Cleared, Entry.link, p))
    BY <1>1, <2>1, LinkLeaves
  <2>3. Firm(vol, Link(Cleared, Entry.link, p), {} \cup {p})
    BY <1>2, <2>2, FirmThen
  <2> QED  BY <1>2, <1>3, <2>2, <2>3
<1> QED  BY <1>4, <1>5, <1>6 DEF p

\* A step of the unpacker on the entry in hand: other paths are left alone, and once the entry is
\* dealt with its own is as it says, or is noted.
Dealt ==
    /\ answer = "entry" /\ answer' \in {"asked", "entry"} /\ got' = got
    /\ {at, at'} \subseteq {"entries", "contents"}
    /\ Firm(vol, vol', {Entry.path}) /\ (Entry.kind = "dir" => Firm(vol, vol', {}))
    /\ Lone(vol) => Lone(vol')
    /\ deferred' = IF NewPlace /\ Entry.kind = "dir" THEN Append(deferred, Entry) ELSE deferred
    /\ NewPlace /\ Entry.kind = "dir" => IsDir(vol', Entry.path)
    /\ answer' = "asked" /\ NewPlace /\ Entry.kind \in {"file", "device"} =>
          AsSaid(InodeAt(vol', Entry.path), Entry)

\* Entries without contents.
LEMMA EntryDealt ==
    ASSUME UInv, SkipRoot \/ Whiteout \/ PlaceDir \/ PlaceSymlink \/ PlaceDevice \/ PlaceLink
    PROVE  Dealt
<1> DEFINE p == Entry.path
<1>1. /\ Here /\ AskNext /\ at' = at /\ at = "entries" /\ answer = "entry"
      /\ got' = got /\ answer' = "asked"
  BY DEF SkipRoot, Whiteout, PlaceDir, PlaceSymlink, PlaceDevice, PlaceLink, Handled, IsEntry,
         IsMarked, Here, AskNext
<1>2. Sound(vol) /\ Shaped(Shown(vol))
  BY DEF UInv
<1>3. \A v : Firm(v, v, {})
  BY DEF Firm, Stays
<1>4. \A v : Firm(vol, v, {}) => Firm(vol, v, {p})
  BY DEF Firm
<1>5. CASE SkipRoot
  <2>1. vol' = vol /\ deferred' = deferred /\ ~NewPlace
    BY <1>5 DEF SkipRoot, Handled, NewPlace
  <2> QED  BY <1>1, <1>3, <1>4, <2>1 DEF Dealt
<1>6. CASE Whiteout
  <2>1. vol' = Without(vol, Hidden) /\ deferred' = deferred /\ ~NewPlace
    BY <1>6 DEF Whiteout, IsMarked, Handled, NewPlace
  <2>2. Hidden \in SUBSET Paths
    BY DEF Hidden, Under
  <2>3. Firm(vol, vol', {}) /\ (Lone(vol) => Lone(vol'))
    BY <1>2, <2>1, <2>2, WithoutLeaves
  <2> QED  BY <1>1, <1>4, <2>1, <2>3 DEF Dealt
<1>7. CASE PlaceDir
  <2>1. /\ Fits /\ Entry.kind = "dir" /\ deferred' = Append(deferred, Entry) /\ NewPlace
        /\ vol' = IF IsDir(Opened, p) THEN Opened ELSE MakeDir(Cleared, p, Entry.attr)
    BY <1>7 DEF PlaceDir, IsEntry, NewPlace
  <2>2. Firm(vol, vol', {}) /\ (Lone(vol) => Lone(vol')) /\ IsDir(vol', p)
    BY <1>2, <2>1, ClearedLeaves, PlacedLeaves
  <2> QED  BY <1>1, <1>4, <2>1, <2>2 DEF Dealt
<1>8. CASE PlaceSymlink
  <2> DEFINE node == Node("symlink", Entry.link, DefaultAttr, {}, 0)
  <2>1. Fits /\ Entry.kind = "symlink" /\ deferred' = deferred /\ vol' = Make(Cleared, p, node)
    BY <1>8 DEF PlaceSymlink, Handled
  <2>2. Live(node)
    BY DEF Live, Node, Kinds
  <2> HIDE DEF node
  <2>3. Firm(vol, vol', {p}) /\ (Lone(vol) => Lone(vol'))
    BY <1>2, <2>1, <2>2, PlacedLeaves
  <2> QED  BY <1>1, <2>1, <2>3 DEF Dealt
<1>9. CASE PlaceDevice
  <2> DEFINE node == Node("device", << >>, Entry.attr, Entry.labels, Entry.time)
  <2>1. Fits /\ Entry.kind = "device" /\ deferred' = deferred /\ vol' = Make(Cleared, p, node)
    BY <1>9 DEF PlaceDevice, Handled
  <2>2. Live(node) /\ AsSaid(node, Entry)
    BY DEF Live, Node, Kinds, AsSaid
  <2> HIDE DEF node
  <2>3. Firm(vol, vol', {p}) /\ (Lone(vol) => Lone(vol')) /\ InodeAt(vol', p) = node
    BY <1>2, <2>1, <2>2, PlacedLeaves
  <2> QED  BY <1>1, <2>1, <2>2, <2>3 DEF Dealt
<1>10. CASE PlaceLink
  <2>1. /\ Fits /\ CanLink /\ Entry.kind = "hardlink" /\ deferred' = deferred
        /\ vol' = Link(Cleared, Entry.link, p)
    BY <1>10 DEF PlaceLink, Handled
  <2>2. Firm(vol, vol', {p}) /\ (Lone(vol) => Lone(vol'))
    BY <1>2, <2>1, PlacedLeaves
  <2> QED  BY <1>1, <2>1, <2>2 DEF Dealt
<1> QED  BY <1>5, <1>6, <1>7, <1>8, <1>9, <1>10

\* A file, from its name going to its inode.
LEMMA FileDealt ==
    ASSUME UInv, ClearForFile \/ (\E n \in 1 .. Chunk : ReadContents(n)) \/ CreateEmpty \/ StoreFile
    PROVE  Dealt
<1> DEFINE p == Entry.path
<1>1. /\ Sound(vol) /\ Shaped(Shown(vol)) /\ InPlace /\ Arrived
      /\ at = "contents" => answer = "entry"
  BY LeftIs DEF UInv, InHandOrBroken
<1>2. \A v : Firm(v, v, {})
  BY DEF Firm, Stays
<1>3. \A v : Firm(vol, v, {}) => Firm(vol, v, {p})
  BY DEF Firm
<1>4. CASE ClearForFile
  <2>1. /\ Fits /\ Entry.kind = "file" /\ vol' = Cleared /\ deferred' = deferred
        /\ at = "entries" /\ at' = "contents" /\ answer = "entry"
        /\ answer' = answer /\ got' = got
    BY <1>4 DEF ClearForFile, IsEntry, Here, streamVars, readerVars
  <2>2. Firm(vol, vol', {}) /\ (Lone(vol) => Lone(vol'))
    BY <1>1, <2>1, ClearedLeaves
  <2> QED  BY <1>3, <2>1, <2>2 DEF Dealt
<1>5. ASSUME NEW n \in 1 .. Chunk, ReadContents(n)  PROVE Dealt
  <2>1. /\ at = "contents" /\ at' = at /\ vol' = vol /\ deferred' = deferred
        /\ answer' = answer /\ got' = got
    BY <1>5 DEF ReadContents
  <2>2. Entry.kind = "file"
    BY <1>1, <2>1 DEF InPlace
  <2> QED  BY <1>1, <1>2, <1>3, <2>1, <2>2 DEF Dealt
<1>6. ASSUME at = "contents"
      PROVE  /\ p \in Paths /\ Entry.kind = "file" /\ answer = "entry"
             /\ streaming => Exists(vol, p) /\ NamesOf(vol, vol.names[p]) = {p}
             /\ ~streaming => vol.names[p] = Absent
  BY <1>1, <1>6, ShownIs, DirectoryIsThere DEF InPlace
<1>7. CASE CreateEmpty
  <2> DEFINE node == Node("file", << >>, Entry.attr, {}, 0)
  <2>1. /\ at = "contents" /\ ~streaming /\ vol' = Make(vol, p, node) /\ at' = at
        /\ answer' = answer /\ got' = got /\ deferred' = deferred
    BY <1>7 DEF CreateEmpty, EmptyMade, streamVars, readerVars
  <2>2. Live(node)
    BY DEF Live, Node, Kinds
  <2> HIDE DEF node
  <2>3. Firm(vol, vol', {p}) /\ (Lone(vol) => Lone(vol'))
    BY <1>1, <1>6, <2>1, <2>2, MakeLeaves
  <2> QED  BY <1>6, <2>1, <2>3 DEF Dealt
<1>8. CASE StoreFile
  <2> DEFINE whole == Node("file", pending, Entry.attr, Entry.labels, Entry.time)
  <2>1. /\ at = "contents" /\ at' = "entries" /\ deferred' = deferred
        /\ answer' = "asked" /\ got' = got
        /\ vol' = IF streaming THEN [vol EXCEPT !.inodes[vol.names[p]] = whole]
                  ELSE Make(vol, p, whole)
    BY <1>8 DEF StoreFile, ContentsRead, Stored, AskNext
  <2>2. Live(whole) /\ AsSaid(whole, Entry) /\ whole.kind # "dir"
    BY DEF Live, Node, Kinds, AsSaid
  <2> HIDE DEF whole
  <2>3. Firm(vol, vol', {p}) /\ (Lone(vol) => Lone(vol')) /\ InodeAt(vol', p) = whole
    <3>1. CASE streaming
      <4> DEFINE u == [vol EXCEPT !.inodes[vol.names[p]] = whole]
      <4>1. vol' = u /\ p \in Paths /\ Exists(vol, p) /\ Sound(vol)
        BY <1>1, <1>6, <2>1, <3>1
      <4>2. /\ u.names = vol.names /\ InodeAt(u, p) = whole
            /\ \A q \in Paths : vol.names[q] = vol.names[p] => InodeAt(u, q) = whole
            /\ \A q \in Paths : Exists(vol, q) /\ vol.names[q] # vol.names[p] => Stays(vol, u, q)
            /\ NamesOf(vol, vol.names[p]) = {p} => Firm(vol, u, {p})
            /\ IsDir(vol, p) /\ whole.kind = "dir" => Firm(vol, u, {})
            /\ Lone(vol) /\ (whole.kind = "dir" => IsDir(vol, p)) => Lone(u)
        BY <2>2, <4>1, RewriteLeaves
      <4> HIDE DEF u
      <4> QED  BY <1>6, <2>1, <2>2, <3>1, <4>1, <4>2
    <3>2. CASE ~streaming
      BY <1>1, <1>6, <2>1, <2>2, <3>2, MakeLeaves
    <3> QED  BY <3>1, <3>2
  <2> QED  BY <1>6, <2>1, <2>2, <2>3 DEF Dealt
<1> QED  BY <1>4, <1>5, <1>7, <1>8

(***************************************************************************)
(* The last word.                                                          *)
(***************************************************************************)
\* The entries that are dealt with, and those of them that are the last for their paths.
Settled == IF answer = "entry" THEN Len(got) - 1 ELSE Len(got)
Speaks(k) ==
    /\ got[k].path \in Paths /\ Last(got[k].path) \notin Markers
    /\ \A j \in k + 1 .. Len(got) : got[j].path # got[k].path

\* What an entry says of its path, if that is there and what it says.
Answered(v, h) ==
    Exists(v, h.path) /\ InodeAt(v, h.path).kind = h.kind => AsSaid(InodeAt(v, h.path), h)

\* A file or a device is as its entry says, as soon as that is dealt with;
Filed ==
    \A k \in 1 .. Settled : Speaks(k) /\ got[k].kind \in {"file", "device"} => Answered(vol, got[k])

\* a directory's is noted, behind all others for the same path,
LastNoted(k) ==
    \E m \in 1 .. Len(deferred) :
        /\ deferred[m] = got[k]
        /\ \A l \in m + 1 .. Len(deferred) : deferred[l].path # got[k].path
Noted ==
    at \in {"entries", "contents"} =>
        \A k \in 1 .. Settled : Speaks(k) /\ got[k].kind = "dir" => LastNoted(k)

\* and still is at the end, until the directory is as it says for good.
Stamped ==
    at \in {"restamping", "done"} =>
        \A k \in 1 .. Settled : Speaks(k) /\ got[k].kind = "dir" =>
            \/ LastNoted(k)
            \/ /\ Answered(vol, got[k])
               /\ \A l \in 1 .. Len(deferred) : deferred[l].path # got[k].path

\* What is noted are entries for directories, and nothing else is at their paths.
Origin ==
    \A m \in 1 .. Len(deferred) :
        \E j \in 1 .. Len(got) : got[j].kind = "dir" /\ deferred[m] = got[j]
Tidy ==
    \A m \in 1 .. Len(deferred) :
        Exists(vol, deferred[m].path) => IsDir(vol, deferred[m].path)
Emptied == at = "done" => deferred = << >>

Outcome ==
    /\ Row(got)
    /\ at # "failed" =>
          /\ Lone(vol) /\ Origin /\ Emptied
          /\ Consistent => Filed /\ Noted /\ Stamped /\ Tidy

\* What is said of the volume after a step is said of what it then is.
LEMMA OutcomeThen ==
    /\ Lone(vol)' <=> Lone(vol')
    /\ Filed' <=> \A k \in 1 .. Settled' :
                      Speaks(k)' /\ got'[k].kind \in {"file", "device"} => Answered(vol', got'[k])
    /\ Stamped' <=> (at' \in {"restamping", "done"} =>
          \A k \in 1 .. Settled' : Speaks(k)' /\ got'[k].kind = "dir" =>
              \/ LastNoted(k)'
              \/ /\ Answered(vol', got'[k])
                 /\ \A l \in 1 .. Len(deferred') : deferred'[l].path # got'[k].path)
    /\ Tidy' <=> \A m \in 1 .. Len(deferred') :
                     Exists(vol', deferred'[m].path) => IsDir(vol', deferred'[m].path)
<1>1. Lone(vol)' <=> Lone(vol')
  BY DEF Lone, IsDir, Exists, InodeAt
<1>2. Filed' <=> \A k \in 1 .. Settled' :
                      Speaks(k)' /\ got'[k].kind \in {"file", "device"} => Answered(vol', got'[k])
  BY DEF Filed, Answered, Exists, InodeAt, AsSaid
<1>3. Stamped' <=> (at' \in {"restamping", "done"} =>
          \A k \in 1 .. Settled' : Speaks(k)' /\ got'[k].kind = "dir" =>
              \/ LastNoted(k)'
              \/ /\ Answered(vol', got'[k])
                 /\ \A l \in 1 .. Len(deferred') : deferred'[l].path # got'[k].path)
  BY DEF Stamped, Answered, Exists, InodeAt, AsSaid
<1>4. Tidy' <=> \A m \in 1 .. Len(deferred') :
                     Exists(vol', deferred'[m].path) => IsDir(vol', deferred'[m].path)
  BY DEF Tidy, IsDir, Exists, InodeAt
<1> QED  BY <1>1, <1>2, <1>3, <1>4

\* While nothing is read the same entries speak.
LEMMA SpeaksThen ==
    ASSUME got' = got
    PROVE  (Consistent' <=> Consistent) /\ \A k : Speaks(k)' <=> Speaks(k)
BY DEF Consistent, Speaks

\* The entry in hand is dealt with, or on the way to that.
LEMMA DealtKeeps ==
    ASSUME UInv, UInv', Outcome, Dealt
    PROVE  Outcome'
<1> DEFINE p == Entry.path
<1>1. /\ answer = "entry" /\ answer' \in {"asked", "entry"} /\ got' = got
      /\ at \in {"entries", "contents"} /\ at' \in {"entries", "contents"}
  BY DEF Dealt
<1>2. PICK n \in Nat \ {0} : n = Len(got) /\ Entry = got[n]
  <2>1. Row(got) /\ got # << >>
    BY <1>1 DEF Outcome, UInv, Arrived
  <2>2. Len(got) \in Nat \ {0}
    BY <2>1, RowFacts
  <2> QED  BY <2>2 DEF Entry, Last
<1>3. Settled = n - 1 /\ Settled' = IF answer' = "entry" THEN n - 1 ELSE n
  BY <1>1, <1>2 DEF Settled
<1>4. Lone(vol) /\ Origin /\ (Consistent => Filed /\ Noted /\ Tidy)
  BY <1>1 DEF Outcome
<1>5. Row(deferred)
  BY DEF UInv, Deferred
<1>6. PICK e \in Nat : e = Len(deferred)
  BY <1>5, RowFacts
<1>7. \/ deferred' = deferred /\ ~(NewPlace /\ Entry.kind = "dir")
      \/ /\ Entry.kind = "dir" /\ NewPlace /\ Len(deferred') = e + 1
         /\ deferred'[e + 1] = Entry
         /\ \A m \in 1 .. e : deferred'[m] = deferred[m]
  <2>1. CASE NewPlace /\ Entry.kind = "dir"
    <3>1. deferred' = Append(deferred, Entry)
      BY <2>1 DEF Dealt
    <3>2. Append(deferred, Entry)[e + 1] = Entry
      BY <1>5, <1>6, Appended DEF Last
    <3> QED  BY <1>5, <1>6, <2>1, <3>1, <3>2, Appended
  <2>2. CASE ~(NewPlace /\ Entry.kind = "dir")
    BY <2>2 DEF Dealt
  <2> QED  BY <2>1, <2>2
<1>8. Speaks(n) => NewPlace /\ p \in Paths
  BY <1>2, PathLength DEF Speaks, NewPlace, IsMarker, LastName
<1>9. \A k \in 1 .. n - 1 : Speaks(k) => got[k].path # p /\ got[k].path \in Paths
  BY <1>2 DEF Speaks
<1>10. Lone(vol')
  BY <1>4 DEF Dealt
<1>11. Origin'
  <2> SUFFICES ASSUME NEW m \in 1 .. Len(deferred')
               PROVE  \E j \in 1 .. Len(got) : got[j].kind = "dir" /\ deferred'[m] = got[j]
    BY <1>1 DEF Origin
  <2>1. CASE m \in 1 .. e /\ deferred'[m] = deferred[m]
    BY <1>4, <1>6, <2>1 DEF Origin
  <2>2. CASE Entry.kind = "dir" /\ deferred'[m] = Entry
    BY <1>2, <2>2
  <2> QED  BY <1>6, <1>7, <2>1, <2>2
<1>12. ASSUME Consistent  PROVE Filed'
  <2> SUFFICES ASSUME NEW k \in 1 .. Settled', Speaks(k), got[k].kind \in {"file", "device"}
               PROVE  Answered(vol', got[k])
    BY <1>1, SpeaksThen, OutcomeThen
  <2>1. CASE k = n
    <3>1. answer' = "asked" /\ NewPlace /\ Entry = got[k]
      BY <1>1, <1>2, <1>3, <1>8, <2>1
    <3> QED  BY <3>1 DEF Dealt, Answered
  <2>2. CASE k # n
    <3>1. k \in 1 .. n - 1 /\ k \in 1 .. Settled
      BY <1>3, <2>2
    <3> DEFINE x == got[k].path
    <3>2. x \in Paths /\ x # p /\ Answered(vol, got[k])
      BY <1>4, <1>9, <1>12, <3>1 DEF Filed
    <3> SUFFICES ASSUME Exists(vol', x), InodeAt(vol', x).kind = got[k].kind
                 PROVE  AsSaid(InodeAt(vol', x), got[k])
      BY DEF Answered
    <3>3. Solid(vol', x)
      BY <3>2, PathLength DEF Solid, IsDir
    <3>4. Solid(vol, x) /\ Stays(vol, vol', x)
      BY <3>2, <3>3 DEF Dealt, Firm
    <3> QED  BY <3>2, <3>4 DEF Answered, Stays, Solid
  <2> QED  BY <2>1, <2>2
<1>13. ASSUME Consistent  PROVE Noted'
  <2> SUFFICES ASSUME NEW k \in 1 .. Settled', Speaks(k), got[k].kind = "dir"
               PROVE  \E m \in 1 .. Len(deferred') :
                         /\ deferred'[m] = got[k]
                         /\ \A l \in m + 1 .. Len(deferred') : deferred'[l].path # got[k].path
    BY <1>1, SpeaksThen DEF Noted, LastNoted
  <2>1. CASE k = n
    <3>1. /\ Len(deferred') = e + 1 /\ deferred'[e + 1] = got[k]
      BY <1>2, <1>7, <1>8, <2>1
    <3> QED  BY <1>6, <3>1
  <2>2. CASE k # n
    <3>1. k \in 1 .. n - 1 /\ k \in 1 .. Settled
      BY <1>3, <2>2
    <3>2. got[k].path # p /\ LastNoted(k)
      BY <1>1, <1>4, <1>9, <1>13, <3>1 DEF Noted
    <3>3. PICK m \in 1 .. e : /\ deferred[m] = got[k]
                              /\ \A l \in m + 1 .. e : deferred[l].path # got[k].path
      BY <1>6, <3>2 DEF LastNoted
    <3>4. \A l \in m + 1 .. e + 1 : l \in m + 1 .. e \/ l = e + 1
      OBVIOUS
    <3> QED  BY <1>6, <1>7, <3>2, <3>3, <3>4
  <2> QED  BY <2>1, <2>2
<1>14. ASSUME Consistent  PROVE Tidy'
  <2> SUFFICES ASSUME NEW m \in 1 .. Len(deferred'), Exists(vol', deferred'[m].path),
                      ~IsDir(vol', deferred'[m].path)
               PROVE  FALSE
    BY OutcomeThen
  <2> DEFINE x == deferred'[m].path
  <2>1. x \in Paths /\ Solid(vol', x)
    BY DEF UInv, Deferred, Solid
  <2>2. PICK j \in 1 .. n : got[j].kind = "dir" /\ deferred'[m] = got[j]
    BY <1>1, <1>2, <1>11 DEF Origin
  <2>3. CASE x # p
    <3>1. m \in 1 .. e /\ deferred'[m] = deferred[m]
      BY <1>6, <1>7, <2>3
    <3>2. Solid(vol, x)
      BY <2>1, <2>3 DEF Dealt, Firm
    <3> QED  BY <1>4, <1>6, <1>14, <3>1, <3>2 DEF Tidy, Solid
  <2>4. CASE x = p
    <3>1. Entry.kind = "dir"
      BY <1>2, <1>14, <2>2, <2>4 DEF Consistent
    <3>2. Solid(vol, x)
      BY <2>1, <3>1 DEF Dealt, Firm
    <3>3. CASE m \in 1 .. e /\ deferred'[m] = deferred[m]
      BY <1>4, <1>6, <1>14, <3>2, <3>3 DEF Tidy, Solid
    <3>4. CASE NewPlace
      BY <2>1, <2>4, <3>1, <3>4 DEF Dealt, Solid
    <3> QED  BY <1>6, <1>7, <3>3, <3>4
  <2> QED  BY <2>3, <2>4
<1> QED  BY <1>1, <1>10, <1>11, <1>12, <1>13, <1>14, SpeaksThen, OutcomeThen
         DEF Outcome, Emptied, Stamped

\* The first that is noted is taken from the others.
LEMMA TailIs ==
    ASSUME NEW s, Row(s), s # << >>
    PROVE  \E n \in Nat : /\ Len(s) = n + 1 /\ Len(Tail(s)) = n /\ Head(s) = s[1]
                          /\ \A k \in 1 .. n : Tail(s)[k] = s[k + 1]
<1>1. s \in Seq(ToSet(s)) /\ Len(s) \in Nat \ {0}
  BY RowFacts DEF Row
<1>2. PICK n \in Nat : Len(s) = n + 1
  <2>1. PICK m \in Nat \ {0} : m = Len(s)
    BY <1>1
  <2>2. m - 1 \in Nat /\ m = (m - 1) + 1
    OBVIOUS
  <2> QED  BY <2>1, <2>2
<1>3. /\ Len(Tail(s)) = Len(s) - 1 /\ Head(s) = s[1]
      /\ \A k \in 1 .. Len(Tail(s)) : Tail(s)[k] = s[k + 1]
  BY <1>1, HeadTailProperties
<1>4. Len(s) - 1 = n
  BY <1>2
<1> QED  BY <1>2, <1>3, <1>4

\* Nobody touches the volume, and what is read is one more entry or none.
LEMMA OutcomeStays ==
    ASSUME Outcome, UNCHANGED <<vol, at, deferred>>,
           \/ got' = got /\ Settled' = Settled
           \/ /\ answer = "asked" /\ answer' = "entry" /\ at \notin {"restamping", "done"}
              /\ \E h : got' = Append(got, h)
    PROVE  Outcome'
<1>1. PICK n \in Nat : n = Len(got) /\ Row(got)
  BY RowFacts DEF Outcome
<1>2. CASE got' = got /\ Settled' = Settled
  BY <1>2, SpeaksThen, OutcomeThen
     DEF Outcome, Origin, Emptied, Filed, Noted, Stamped, Tidy, LastNoted
<1>3. CASE /\ answer = "asked" /\ answer' = "entry" /\ at \notin {"restamping", "done"}
           /\ \E h : got' = Append(got, h)
  <2>1. /\ Row(got') /\ Len(got') = n + 1
        /\ \A k \in 1 .. n : got'[k] = got[k]
    BY <1>1, <1>3, Appended
  <2>2. Settled = n /\ Settled' = n
    BY <1>1, <1>3, <2>1 DEF Settled
  <2>3. \A k \in 1 .. n : Speaks(k)' => Speaks(k)
    <3>1. \A k \in 1 .. n : \A j \in k + 1 .. n : j \in k + 1 .. n + 1 /\ j \in 1 .. n
      OBVIOUS
    <3> QED  BY <1>1, <2>1, <3>1 DEF Speaks
  <2>4. Consistent' => Consistent
    <3>1. \A k \in 1 .. n : k \in 1 .. n + 1
      OBVIOUS
    <3> QED  BY <1>1, <2>1, <3>1 DEF Consistent
  <2>5. Origin => Origin'
    <3>1. \A k \in 1 .. n : k \in 1 .. n + 1
      OBVIOUS
    <3> QED  BY <1>1, <2>1, <3>1 DEF Origin
  <2>6. Filed => Filed'
    BY <2>1, <2>2, <2>3, OutcomeThen DEF Filed
  <2>7. ASSUME Noted  PROVE Noted'
    <3>1. at' = at /\ deferred' = deferred
      OBVIOUS
    <3>2. \A k \in 1 .. n : LastNoted(k)' <=> LastNoted(k)
      BY <2>1, <3>1 DEF LastNoted
    <3>3. Noted' <=> (at' \in {"entries", "contents"} =>
              \A k \in 1 .. Settled' : Speaks(k)' /\ got'[k].kind = "dir" => LastNoted(k)')
      BY DEF Noted
    <3> QED  BY <2>1, <2>2, <2>3, <2>7, <3>1, <3>2, <3>3 DEF Noted
  <2>8. Stamped'
    BY <1>3 DEF Stamped
  <2>9. (Lone(vol) => Lone(vol)') /\ (Tidy => Tidy') /\ (Emptied => Emptied')
    BY OutcomeThen DEF Tidy, Emptied
  <2> QED  BY <2>1, <2>4, <2>5, <2>6, <2>7, <2>8, <2>9 DEF Outcome
<1> QED  BY <1>2, <1>3

\* The archive is over: what was noted is put in order, and of one path stays in the same.
LEMMA EndsKeep ==
    ASSUME UInv, Outcome, ArchiveEnds
    PROVE  Outcome'
<1>1. /\ at = "entries" /\ at' = "restamping" /\ deferred' = DeepestFirst(deferred)
      /\ vol' = vol /\ got' = got /\ answer' = answer
  BY DEF ArchiveEnds, streamVars, readerVars
<1>2. Row(deferred) /\ \A k \in 1 .. Len(deferred) : Row(deferred[k].path)
  BY DEF UInv, Deferred
<1>3. PICK e \in Nat : e = Len(deferred)
  BY <1>2, RowFacts
<1> DEFINE d == DeepestFirst(deferred)
<1>4. LET w == DeepestFirst(deferred)
      IN  /\ Row(w) /\ Len(w) = Len(deferred)
          /\ \E g \in [1 .. Len(deferred) -> 1 .. Len(deferred)] :
                /\ \A n \in 1 .. Len(deferred) : w[n] = deferred[g[n]]
                /\ \A j \in 1 .. Len(deferred) : \E n \in 1 .. Len(deferred) : g[n] = j
                /\ \A m, n \in 1 .. Len(deferred) : m < n =>
                      \/ Depth(deferred[g[m]]) > Depth(deferred[g[n]])
                      \/ Depth(deferred[g[m]]) = Depth(deferred[g[n]]) /\ g[m] < g[n]
  BY <1>2, DeepestFirstIs
<1>5. PICK g \in [1 .. e -> 1 .. e] :
            /\ \A n \in 1 .. e : d[n] = deferred[g[n]]
            /\ \A j \in 1 .. e : \E n \in 1 .. e : g[n] = j
            /\ \A m, n \in 1 .. e : m < n =>
                  \/ Depth(deferred[g[m]]) > Depth(deferred[g[n]])
                  \/ Depth(deferred[g[m]]) = Depth(deferred[g[n]]) /\ g[m] < g[n]
  <2> HIDE DEF d
  <2> SUFFICES \E g \in [1 .. Len(deferred) -> 1 .. Len(deferred)] :
            /\ \A n \in 1 .. Len(deferred) : d[n] = deferred[g[n]]
            /\ \A j \in 1 .. Len(deferred) : \E n \in 1 .. Len(deferred) : g[n] = j
            /\ \A m, n \in 1 .. Len(deferred) : m < n =>
                  \/ Depth(deferred[g[m]]) > Depth(deferred[g[n]])
                  \/ Depth(deferred[g[m]]) = Depth(deferred[g[n]]) /\ g[m] < g[n]
    BY <1>3, Zenon
  <2> QED  BY <1>4, Zenon DEF d
<1> HIDE DEF d
<1>6. deferred' = d /\ Len(deferred') = e /\ Settled' = Settled
  BY <1>1, <1>3, <1>4 DEF d, Settled
<1>7. Lone(vol) /\ Origin /\ (Consistent => Filed /\ Noted /\ Tidy)
  BY <1>1 DEF Outcome
<1>8. \A n \in 1 .. e : g[n] \in 1 .. e /\ deferred'[n] = deferred[g[n]]
  BY <1>5, <1>6
<1>9. Origin'
  <2> SUFFICES ASSUME NEW m \in 1 .. e
               PROVE  \E j \in 1 .. Len(got) : got[j].kind = "dir" /\ deferred'[m] = got[j]
    BY <1>1, <1>6 DEF Origin
  <2> QED  BY <1>3, <1>7, <1>8 DEF Origin
<1>10. ASSUME Consistent  PROVE Filed' /\ Tidy'
  <2>1. Filed'
    BY <1>1, <1>6, <1>7, <1>10, SpeaksThen, OutcomeThen DEF Filed
  <2> SUFFICES ASSUME NEW m \in 1 .. e, Exists(vol, deferred'[m].path)
               PROVE  IsDir(vol, deferred'[m].path)
    BY <1>1, <1>6, <2>1, OutcomeThen
  <2> QED  BY <1>3, <1>7, <1>10, <1>8 DEF Tidy
<1>11. ASSUME Consistent  PROVE Stamped'
  <2> SUFFICES ASSUME NEW k \in 1 .. Settled, Speaks(k), got[k].kind = "dir"
               PROVE  LastNoted(k)'
    BY <1>1, <1>6, SpeaksThen, OutcomeThen
  <2> SUFFICES \E n \in 1 .. e : /\ d[n] = got[k]
                                 /\ \A l \in n + 1 .. e : d[l].path # got[k].path
    BY <1>1, <1>6 DEF LastNoted
  <2>1. PICK m \in 1 .. e : /\ deferred[m] = got[k]
                            /\ \A l \in m + 1 .. e : deferred[l].path # got[k].path
    BY <1>1, <1>3, <1>7, <1>11 DEF Noted, LastNoted
  <2>2. PICK n \in 1 .. e : g[n] = m
    BY <1>5
  <2>3. ASSUME NEW l \in n + 1 .. e, d[l].path = got[k].path  PROVE FALSE
    <3>1. l \in 1 .. e /\ n < l /\ g[l] \in 1 .. e
      <4>1. l \in 1 .. e /\ n < l
        BY <2>3
      <4> QED  BY <1>8, <4>1
    <3>2. Depth(deferred[g[n]]) = Depth(deferred[g[l]])
      BY <1>5, <2>1, <2>2, <2>3, <3>1 DEF Depth
    <3>3. Depth(deferred[g[n]]) \in Nat
      BY <1>2, <1>3, <2>2, RowFacts DEF Depth
    <3>4. g[n] < g[l]
      <4> DEFINE a == Depth(deferred[g[n]])
                 b == Depth(deferred[g[l]])
      <4>1. a > b \/ (a = b /\ g[n] < g[l])
        BY <1>5, <3>1
      <4> HIDE DEF a, b
      <4>2. a = b /\ a \in Nat
        BY <3>2, <3>3 DEF a, b
      <4> QED  BY <4>1, <4>2
    <3>5. g[l] \in m + 1 .. e
      BY <2>2, <3>1, <3>4
    <3> QED  BY <1>5, <2>1, <2>3, <3>1, <3>5
  <2> QED  BY <1>5, <2>1, <2>2, <2>3
<1> QED  BY <1>1, <1>7, <1>9, <1>10, <1>11, SpeaksThen, OutcomeThen
         DEF Outcome, Emptied, Noted

\* A directory is stamped for good, or there is a later entry for it that waits.
LEMMA RestampKeeps ==
    ASSUME UInv, Outcome, Restamp
    PROVE  Outcome'
<1> DEFINE h == Head(deferred)
           x == h.path
           old == InodeAt(vol, x)
           node == Node(old.kind, old.data, h.attr, h.labels,
                        IF h.time # 0 THEN h.time ELSE old.time)
           u == [vol EXCEPT !.inodes[vol.names[x]] = node]
<1>1. /\ at = "restamping" /\ at' = at /\ deferred # << >> /\ Exists(vol, x)
      /\ vol' = u /\ deferred' = Tail(deferred) /\ got' = got /\ answer' = answer
  BY Zenon DEF Restamp, Stamp, streamVars, readerVars
<1>2. Settled' = Settled /\ Row(got)
  BY <1>1 DEF Settled, Outcome
<1>3. Lone(vol) /\ Origin /\ (Consistent => Filed /\ Stamped /\ Tidy)
  BY <1>1 DEF Outcome
<1>4. Sound(vol) /\ Row(deferred) /\ \A m \in 1 .. Len(deferred) : deferred[m].path \in Paths
  BY DEF UInv, Deferred
<1>5. PICK n \in Nat : /\ Len(deferred) = n + 1 /\ Len(deferred') = n /\ h = deferred[1]
                       /\ \A m \in 1 .. n : deferred'[m] = deferred[m + 1]
  BY <1>1, <1>4, TailIs
<1>6. /\ x \in Paths /\ Live(old)
      /\ \A m \in 1 .. n : m + 1 \in 1 .. Len(deferred) /\ deferred'[m].path \in Paths
  <2>1. 1 \in 1 .. Len(deferred) /\ \A m \in 1 .. n : m + 1 \in 1 .. Len(deferred)
    BY <1>5
  <2>2. x \in Paths
    BY <1>4, <1>5, <2>1
  <2> QED  BY <1>1, <1>4, <1>5, <2>1, <2>2, ShownIs DEF InodeAt
<1> HIDE DEF h, old
<1>7. /\ node.kind = old.kind /\ node.data = old.data /\ AsSaid(node, h)
      /\ node = Node(node.kind, node.data, node.attr, node.labels, node.time)
  BY DEF Node, AsSaid
<1> HIDE DEF node
<1>8. Live(node)
  BY <1>6, <1>7 DEF Live
<1>9. Shown(vol') = Shown(vol) /\ Sound(vol')
  BY <1>4, RestampedIs DEF UInv
<1>10. /\ u.names = vol.names /\ InodeAt(u, x) = node
       /\ \A q \in Paths : vol.names[q] = vol.names[x] => InodeAt(u, q) = node
       /\ \A q \in Paths : Exists(vol, q) /\ vol.names[q] # vol.names[x] => Stays(vol, u, q)
       /\ NamesOf(vol, vol.names[x]) = {x} => Firm(vol, u, {x})
       /\ IsDir(vol, x) /\ node.kind = "dir" => Firm(vol, u, {})
       /\ Lone(vol) /\ (node.kind = "dir" => IsDir(vol, x)) => Lone(u)
  BY <1>1, <1>4, <1>6, <1>8, RewriteLeaves
<1> HIDE DEF u
<1>11. node.kind = "dir" <=> IsDir(vol, x)
  BY <1>1, <1>6, <1>7, PathLength DEF IsDir, old
<1>12. Lone(vol')
  BY <1>1, <1>3, <1>10, <1>11
<1>13. Origin'
  <2> SUFFICES ASSUME NEW m \in 1 .. n
               PROVE  \E j \in 1 .. Len(got) : got[j].kind = "dir" /\ deferred'[m] = got[j]
    BY <1>1, <1>5 DEF Origin
  <2>1. m + 1 \in 1 .. Len(deferred) /\ deferred'[m] = deferred[m + 1]
    BY <1>5, <1>6
  <2> QED  BY <1>3, <2>1 DEF Origin
<1>14. ASSUME Consistent  PROVE IsDir(vol, x) /\ Firm(vol, vol', {})
  <2>1. 1 \in 1 .. Len(deferred)
    BY <1>5
  <2>2. IsDir(vol, x)
    BY <1>1, <1>3, <1>5, <1>14, <2>1 DEF Tidy
  <2> QED  BY <1>1, <1>10, <1>11, <2>2
<1>15. ASSUME Consistent  PROVE Filed'
  <2> SUFFICES ASSUME NEW k \in 1 .. Settled, Speaks(k), got[k].kind \in {"file", "device"}
               PROVE  Answered(vol', got[k])
    BY <1>1, <1>2, SpeaksThen, OutcomeThen
  <2> DEFINE y == got[k].path
  <2> SUFFICES ASSUME Exists(vol', y), InodeAt(vol', y).kind = got[k].kind
               PROVE  AsSaid(InodeAt(vol', y), got[k])
    BY DEF Answered
  <2>1. y \in Paths /\ Answered(vol, got[k])
    BY <1>3, <1>15 DEF Filed, Speaks
  <2>2. Solid(vol', y)
    BY <2>1, PathLength DEF Solid, IsDir
  <2>3. Solid(vol, y) /\ Stays(vol, vol', y)
    BY <1>14, <1>15, <2>1, <2>2 DEF Firm
  <2> QED  BY <2>1, <2>3 DEF Answered, Stays, Solid
<1>16. ASSUME Consistent  PROVE Stamped'
  <2> SUFFICES ASSUME NEW k \in 1 .. Settled, Speaks(k), got[k].kind = "dir"
               PROVE  \/ LastNoted(k)'
                      \/ /\ Answered(vol', got[k])
                         /\ \A l \in 1 .. n : deferred'[l].path # got[k].path
    BY <1>1, <1>2, <1>5, SpeaksThen, OutcomeThen
  <2> DEFINE y == got[k].path
  <2>1. \/ LastNoted(k)
        \/ Answered(vol, got[k]) /\ \A l \in 1 .. Len(deferred) : deferred[l].path # y
    BY <1>1, <1>3, <1>16 DEF Stamped
  <2>2. CASE LastNoted(k)
    <3>1. PICK m \in 1 .. n + 1 : /\ deferred[m] = got[k]
                                  /\ \A l \in m + 1 .. n + 1 : deferred[l].path # y
      BY <1>5, <2>2 DEF LastNoted
    <3>2. CASE m = 1
      <4>1. got[k] = h /\ y = x
        BY <1>5, <3>1, <3>2
      <4>2. Answered(vol', got[k])
        BY <1>1, <1>7, <1>10, <4>1 DEF Answered
      <4>3. \A l \in 1 .. n : l + 1 \in m + 1 .. n + 1
        BY <3>2
      <4> QED  BY <1>5, <3>1, <4>2, <4>3
    <3>3. CASE m # 1
      <4>1. m - 1 \in 1 .. n /\ (m - 1) + 1 = m
        BY <3>3
      <4>2. deferred'[m - 1] = got[k]
        BY <1>5, <3>1, <4>1
      <4>3. \A l \in (m - 1) + 1 .. n : l \in 1 .. n /\ l + 1 \in m + 1 .. n + 1
        BY <4>1
      <4>4. \A l \in (m - 1) + 1 .. n : deferred'[l].path # y
        BY <1>5, <3>1, <4>3
      <4>5. LastNoted(k)' <=> \E j \in 1 .. n : /\ deferred'[j] = got[k]
                                                /\ \A l \in j + 1 .. n : deferred'[l].path # y
        BY <1>1, <1>5 DEF LastNoted
      <4> QED  BY <4>1, <4>2, <4>4, <4>5
    <3> QED  BY <3>2, <3>3
  <2>3. CASE Answered(vol, got[k]) /\ \A l \in 1 .. Len(deferred) : deferred[l].path # y
    <3>1. \A l \in 1 .. n : deferred'[l].path # y
      BY <1>5, <1>6, <2>3
    <3>2. y # x /\ y \in Paths
      <4>1. 1 \in 1 .. Len(deferred)
        BY <1>5
      <4> QED  BY <1>5, <2>3, <4>1 DEF Speaks
    <3>3. vol.names[y] # vol.names[x]
      BY <1>3, <1>6, <1>14, <1>16, <3>2 DEF Lone
    <3>4. Exists(vol', y) <=> Exists(vol, y)
      BY <1>1, <1>10 DEF Exists
    <3>5. Exists(vol, y) => Stays(vol, vol', y)
      BY <1>1, <1>10, <3>2, <3>3
    <3>6. Answered(vol', got[k])
      BY <2>3, <3>4, <3>5 DEF Answered, Stays
    <3> QED  BY <3>1, <3>6
  <2> QED  BY <2>1, <2>2, <2>3
<1>17. ASSUME Consistent  PROVE Tidy'
  <2> SUFFICES ASSUME NEW m \in 1 .. n, Exists(vol', deferred'[m].path)
               PROVE  IsDir(vol', deferred'[m].path)
    BY <1>5, OutcomeThen
  <2> DEFINE y == deferred'[m].path
  <2>1. y \in Paths /\ m + 1 \in 1 .. Len(deferred) /\ deferred'[m] = deferred[m + 1]
    BY <1>5, <1>6
  <2>2. Exists(vol, y)
    BY <1>1, <1>10 DEF Exists
  <2>3. IsDir(vol, y)
    BY <1>3, <1>17, <2>1, <2>2 DEF Tidy
  <2> QED  BY <1>4, <1>9, <2>1, <2>3, ShownIs
<1> QED  BY <1>1, <1>2, <1>12, <1>13, <1>15, <1>16, <1>17, SpeaksThen, OutcomeThen
         DEF Outcome, Emptied, Noted

\* One step: what is on the volume is still what the entries that are dealt with said.
LEMMA OutcomeGoes ==
    ASSUME Spills = {}, UInv, UInv', Outcome, [Next]_vars
    PROVE  Outcome'
<1>1. Row(got) /\ Inv /\ Inv' /\ Arrived /\ InHandOrBroken
  BY LeftIs DEF Outcome, UInv
<1>2. CASE Packs \/ ToolWrites \/ Breaks \/ UNCHANGED vars
  <2>1. UNCHANGED readerVars /\ UNCHANGED unpackVars
    <3>1. CASE Packs
      BY <3>1, PackWrites DEF Packs
    <3>2. CASE ToolWrites
      <4>1. UNCHANGED unpackVars
        BY <3>2, Zenon DEF ToolWrites
      <4> QED  BY <3>2, <4>1, ToolDoes
    <3>3. CASE Breaks \/ UNCHANGED vars
      BY <3>3 DEF Breaks, Break, vars, streamVars
    <3> QED  BY <1>2, <3>1, <3>2, <3>3
  <2>2. UNCHANGED <<vol, at, deferred>> /\ got' = got /\ Settled' = Settled
    BY <2>1 DEF unpackVars, readerVars, Settled
  <2> QED  BY <2>2, OutcomeStays
<1>3. CASE Reads
  <2>1. /\ answer = "asked" /\ UNCHANGED unpackVars /\ feed' = feed /\ ReaderStep
        /\ at \notin {"restamping", "done"}
    BY <1>1, <1>3, ReaderFrame DEF Reads, InHandOrBroken
  <2>2. UNCHANGED <<vol, at, deferred>> /\ pending' = pending
    BY <2>1 DEF unpackVars
  <2>3. /\ answer' = "entry" => got' = Append(got, Entry')
        /\ answer' # "entry" => got' = got
    BY <1>1, <2>1, <2>2, ReadsArrived
  <2>4. answer' # "entry" => Settled' = Settled
    BY <2>1, <2>3 DEF Settled
  <2> QED  BY <2>1, <2>2, <2>3, <2>4, OutcomeStays
<1>4. CASE Unpacks
  <2>1. CASE SkipRoot \/ Whiteout \/ PlaceDir \/ PlaceSymlink \/ PlaceDevice \/ PlaceLink
    BY <2>1, EntryDealt, DealtKeeps
  <2>2. CASE ClearForFile \/ (\E n \in 1 .. Chunk : ReadContents(n)) \/ CreateEmpty \/ StoreFile
    BY <2>2, FileDealt, DealtKeeps
  <2>3. CASE ArchiveEnds
    BY <2>3, EndsKeep
  <2>4. CASE Restamp
    BY <2>4, RestampKeeps
  <2>5. CASE Done
    <3>1. /\ at = "restamping" /\ at' = "done" /\ deferred = << >> /\ deferred' = deferred
          /\ vol' = vol /\ got' = got /\ answer' = answer
      BY <2>5 DEF Done, streamVars, readerVars
    <3>2. Settled' = Settled /\ Lone(vol) /\ Origin /\ (Consistent => Filed /\ Stamped /\ Tidy)
      BY <3>1 DEF Outcome, Settled
    <3>3. Origin' /\ (Filed => Filed') /\ (Tidy => Tidy')
      BY <3>1, <3>2, SpeaksThen, OutcomeThen DEF Origin, Filed, Tidy
    <3>4. Stamped => Stamped'
      BY <3>1, <3>2, SpeaksThen, OutcomeThen DEF Stamped, LastNoted
    <3> QED  BY <1>1, <3>1, <3>2, <3>3, <3>4, SpeaksThen, OutcomeThen
             DEF Outcome, Emptied, Noted
  <2>6. CASE EntryFails \/ ContentsFail \/ NextFails \/ RestampFails
    <3>1. at' = "failed" /\ got' = got
      BY <2>6 DEF EntryFails, ContentsFail, NextFails, RestampFails, Stops, streamVars, readerVars
    <3> QED  BY <1>1, <3>1 DEF Outcome
  <2> QED  BY <1>4, <2>1, <2>2, <2>3, <2>4, <2>5, <2>6 DEF Unpacks, UnpackStep
<1>5. CASE Finished
  BY <1>2, <1>5 DEF Finished
<1> QED  BY <1>2, <1>3, <1>4, <1>5 DEF Next

\* At first no entry is dealt with and nothing noted.
LEMMA InitOutcome == Init => Outcome
<1> SUFFICES ASSUME Init  PROVE Outcome
  OBVIOUS
<1>1. got = << >> /\ deferred = << >> /\ at = "entries" /\ answer = "asked"
  BY DEF Init, UnpackInit
<1>2. Lone(vol)
  <2>1. vol = EmptyVolume \/ vol \in LowerTrees
    BY DEF Init, UnpackInit
  <2>2. \A p \in Paths : ~IsDir(EmptyVolume, p)
    BY PathLength DEF EmptyVolume, IsDir, Exists
  <2> QED  BY <2>1, <2>2, LowerAssumption DEF Lone, IsVolume
<1>3. Settled = 0 /\ Len(deferred) = 0 /\ Row(got)
  BY <1>1, EmptyRow DEF Settled
<1>4. Filed /\ Noted /\ Stamped /\ Tidy /\ Origin
  BY <1>1, <1>3 DEF Filed, Noted, Stamped, Tidy, Origin
<1> QED  BY <1>1, <1>2, <1>3, <1>4 DEF Outcome, Emptied

\* With nothing left that is noted, every path is as the last entry for it says.
LEMMA LastWordIs == UInv /\ Outcome => LastWord
<1> SUFFICES ASSUME UInv, Outcome, at = "done", Consistent,
                    NEW p \in Paths, Last(p) \notin Markers, EntriesFor(p) # {}, Exists(vol, p)
             PROVE  LET h == got[Max(EntriesFor(p))]
                    IN  h.kind \in {"dir", "file", "device"} /\ InodeAt(vol, p).kind = h.kind =>
                            AsSaid(InodeAt(vol, p), h)
  BY DEF LastWord, LastWordHolds
<1>1. PICK n \in Nat : n = Len(got)
  BY RowFacts DEF Outcome
<1>2. answer = "end" /\ Settled = n
  BY <1>1, LeftIs DEF UInv, InHandOrBroken, Settled
<1> DEFINE k == Max(EntriesFor(p))
<1>3. k \in EntriesFor(p) /\ \A j \in EntriesFor(p) : j <= k
  BY <1>1, MaxIs DEF EntriesFor
<1> HIDE DEF k
<1>4. k \in 1 .. n /\ got[k].path = p
  BY <1>1, <1>3 DEF EntriesFor
<1>5. Speaks(k)
  <2>1. ASSUME NEW j \in k + 1 .. Len(got), got[j].path = p  PROVE FALSE
    <3>1. j \in 1 .. Len(got) /\ j > k
      BY <1>1, <1>4
    <3> QED  BY <1>3, <1>4, <2>1, <3>1 DEF EntriesFor
  <2> QED  BY <1>4, <2>1 DEF Speaks
<1>6. Len(deferred) = 0 /\ Filed /\ Stamped
  BY EmptyRow DEF Outcome, Emptied
<1>7. got[k].kind \in {"dir", "file", "device"} => Answered(vol, got[k])
  BY <1>2, <1>4, <1>5, <1>6 DEF Filed, Stamped, LastNoted
<1> QED  BY <1>4, <1>7 DEF Answered, k

\* What the entries that are dealt with said is still on the volume or noted, always.
THEOREM OutcomeInv ==
    ASSUME Spills = {}
    PROVE  Spec => []Outcome
<1>1. UInv /\ UInv' /\ Outcome /\ [Next]_vars => Outcome'
  BY OutcomeGoes
<1> QED  BY <1>1, InitOutcome, UnpackInv, PTL DEF Spec

\* unpack_tar_layer: mode, owner, extended attributes and time of every path the archive names are
\* in the end those of the last entry for it, also of a directory other entries went into.
THEOREM LastWordStands ==
    ASSUME Spills = {}
    PROVE  Spec => []LastWord
BY OutcomeInv, UnpackInv, LastWordIs, PTL

(***************************************************************************)
(* What an archive of our own says of the tree.                            *)
(***************************************************************************)
\* An entry says of its path what the tree does, a hard link just the path.
Tells(h) ==
    LET n == InodeAt(src, h.path)
    IN  /\ Exists(src, h.path) /\ h.attr = n.attr /\ h.time = n.time
        /\ h.kind # "hardlink" =>
              /\ h.kind = n.kind
              /\ n.kind # "symlink" => h.labels = n.labels
              /\ n.kind = "file" => h.size = Len(n.data)
              /\ n.kind = "symlink" => h.link = n.data

\* Of the names of an inode only the first that is sent is no hard link,
FirstNames ==
    \A j, k \in 1 .. Len(sent) :
        j < k /\ src.names[sent[j].path] = src.names[sent[k].path] => sent[k].kind = "hardlink"
Remembered ==
    \A k \in 1 .. Len(sent) : \/ src.names[sent[k].path] \in DOMAIN seen
                              \/ NamesOf(src, src.names[sent[k].path]) = {sent[k].path}

\* a directory is sent ahead of what is in it, and what is in one that is sent is sent or waits.
ParentsFirst ==
    \A k \in 1 .. Len(sent) :
        Len(sent[k].path) > 1 => \E j \in 1 .. k - 1 : sent[j].path = Parent(sent[k].path)
PathsOf(log) == {log[k].path : k \in 1 .. Len(log)}
ParentsSent == \A p \in Waiting(stack) : Len(p) > 1 => Parent(p) \in PathsOf(sent)
NoneForgotten ==
    \A p \in Paths : Exists(src, p) /\ (Len(p) > 1 => Parent(p) \in PathsOf(sent)) =>
        p \in PathsOf(sent) \cup Waiting(stack)

Told ==
    feed = "pack" =>
        /\ everywhere = {} /\ \A k \in 1 .. Len(sent) : Tells(sent[k])
        /\ FirstNames /\ Remembered /\ ParentsFirst /\ ParentsSent /\ NoneForgotten
        /\ closed /\ ~cut => stack = << >>
        /\ answer = "end" => closed

\* A path does not come before itself.
LEMMA NotBeforeItself == \A p \in Paths : ~Precedes(p, p)
<1> SUFFICES ASSUME NEW p \in Paths, Precedes(p, p)  PROVE FALSE
  OBVIOUS
<1>1. Row(p) /\ Len(p) \in Nat
  BY PathLength
<1>2. PICK k \in 1 .. Len(p) : NamePlace(p[k]) < NamePlace(p[k])
  BY <1>1 DEF Precedes, Above, LeftOf
<1> DEFINE q == UpTo(p, k)
<1>3. q \in Paths
  BY PathsClosed
<1>4. k \in 0 .. Len(p) /\ k \in 1 .. k
  BY <1>1
<1>5. Len(q) = k /\ q[k] = p[k]
  BY <1>1, <1>4, Beginnings
<1> HIDE DEF q
<1>6. Last(q) = p[k]
  BY <1>5 DEF Last
<1>7. NamePlace(p[k]) \in Nat
  BY <1>3, <1>6, PathRow
<1> QED  BY <1>2, <1>7

\* What is known of a tree to pack.
LEMMA SourceIs ==
    ASSUME NEW v \in SourceTrees
    PROVE  /\ Sound(v) /\ Shaped(Shown(v)) /\ Lone(v)
           /\ \A p \in Paths : Exists(v, p) =>
                 LET n == InodeAt(v, p)
                 IN  /\ n.kind \in Kinds \ {"hardlink"}
                     /\ n.kind \in {"dir", "device"} => n.data = << >>
                     /\ n.kind = "file" =>
                            n.data = Contents([attr |-> n.attr, size |-> Len(n.data)])
<1>1. IsVolume(v)
  BY SourcesAssumption
<1>2. Sound(v) /\ Shaped(Shown(v))
  BY <1>1, VolumeIsSound
<1>3. Lone(v)
  BY <1>1 DEF IsVolume, Lone
<1>4. ASSUME NEW p \in Paths, Exists(v, p)
      PROVE  LET n == InodeAt(v, p)
             IN  /\ n.kind \in Kinds \ {"hardlink"}
                 /\ n.kind \in {"dir", "device"} => n.data = << >>
                 /\ n.kind = "file" => n.data = Contents([attr |-> n.attr, size |-> Len(n.data)])
  BY <1>1, <1>4, NamedInode, SourcesAssumption
<1> QED  BY <1>2, <1>3, <1>4

\* The path that goes next is none that is sent.
LEMMA PathIsNew ==
    ASSUME Walk, Ordered, feed = "pack", CanPack
    PROVE  /\ Path \in Paths /\ Exists(src, Path) /\ Path \in Waiting(stack)
           /\ \A k \in 1 .. Len(sent) : sent[k].path \in Paths /\ sent[k].path # Path
<1>1. Path \in Paths /\ Exists(src, Path)
  BY WalkGoesOn
<1>2. Path \in Waiting(stack)
  BY WalkInTurn
<1>3. \A k \in 1 .. Len(sent) : sent[k].path \in Paths /\ Precedes(sent[k].path, Path)
  BY <1>2 DEF Ordered
<1> QED  BY <1>1, <1>2, <1>3, NotBeforeItself

\* Another entry is put in.
LEMMA EntryTold ==
    ASSUME Walk, Ordered, Told, feed = "pack", feed' = feed, src' = src, CanPack, ~closed,
           closed' = closed, answer' = answer, everywhere' = everywhere,
           NEW h, sent' = Append(sent, h), h.path = Path, Tells(h),
           \/ stack' = Walked /\ ~IsDir(src, Path)
           \/ stack' = Append(Walked, SortedChildren(Path)),
           DOMAIN seen \subseteq DOMAIN seen',
           Inode \in DOMAIN seen' \/ NamesOf(src, Inode) = {Path},
           h.kind = "hardlink" \/ \A k \in 1 .. Len(sent) : src.names[sent[k].path] # Inode
    PROVE  Told'
<1>1. /\ everywhere = {}
      /\ \A k \in 1 .. Len(sent) : Tells(sent[k])
      /\ \A j, k \in 1 .. Len(sent) :
            j < k /\ src.names[sent[j].path] = src.names[sent[k].path] => sent[k].kind = "hardlink"
      /\ \A k \in 1 .. Len(sent) :
            \/ src.names[sent[k].path] \in DOMAIN seen
            \/ NamesOf(src, src.names[sent[k].path]) = {sent[k].path}
      /\ \A k \in 1 .. Len(sent) : Len(sent[k].path) > 1 =>
            \E j \in 1 .. k - 1 : sent[j].path = Parent(sent[k].path)
      /\ \A p \in Waiting(stack) : Len(p) > 1 => Parent(p) \in PathsOf(sent)
      /\ \A p \in Paths : Exists(src, p) /\ (Len(p) > 1 => Parent(p) \in PathsOf(sent)) =>
            p \in PathsOf(sent) \cup Waiting(stack)
      /\ answer # "end"
  BY DEF Told, FirstNames, Remembered, ParentsFirst, ParentsSent, NoneForgotten
<1>2. Row(sent)
  BY DEF Ordered
<1>3. PICK n \in Nat : /\ n = Len(sent) /\ Len(sent') = n + 1 /\ sent'[n + 1] = h
                       /\ \A k \in 1 .. n : sent'[k] = sent[k]
  <2>1. Len(sent) \in Nat /\ Append(sent, h)[Len(sent) + 1] = h
    BY <1>2, RowFacts, Appended DEF Last
  <2> QED  BY <1>2, <2>1, Appended
<1>4. /\ Path \in Paths /\ Exists(src, Path) /\ Path \in Waiting(stack)
      /\ \A k \in 1 .. n : sent[k].path # Path
      /\ Inode = src.names[Path]
  BY <1>3, PathIsNew DEF Inode
<1>5. \A k \in 1 .. n + 1 : k \in 1 .. n \/ k = n + 1
  OBVIOUS
<1>6. PathsOf(sent') = PathsOf(sent) \cup {Path}
  <2>1. n + 1 \in 1 .. n + 1 /\ \A k \in 1 .. n : k \in 1 .. n + 1
    OBVIOUS
  <2> QED  BY <1>3, <1>5, <2>1 DEF PathsOf
<1>7. \A k \in 1 .. n + 1 : Tells(sent'[k])
  BY <1>1, <1>3, <1>5
<1>8. \A j, k \in 1 .. n + 1 :
         j < k /\ src.names[sent'[j].path] = src.names[sent'[k].path] =>
             sent'[k].kind = "hardlink"
  <2> SUFFICES ASSUME NEW j \in 1 .. n + 1, NEW k \in 1 .. n + 1, j < k,
                      src.names[sent'[j].path] = src.names[sent'[k].path]
               PROVE  sent'[k].kind = "hardlink"
    OBVIOUS
  <2>1. j \in 1 .. n /\ sent'[j] = sent[j]
    BY <1>3
  <2>2. CASE k \in 1 .. n
    BY <1>1, <1>3, <2>1, <2>2
  <2>3. CASE k = n + 1
    BY <1>3, <1>4, <2>1, <2>3
  <2> QED  BY <1>5, <2>2, <2>3
<1>9. \A k \in 1 .. n + 1 :
         \/ src.names[sent'[k].path] \in DOMAIN seen'
         \/ NamesOf(src, src.names[sent'[k].path]) = {sent'[k].path}
  BY <1>1, <1>3, <1>4, <1>5
<1>10. \A k \in 1 .. n + 1 : Len(sent'[k].path) > 1 =>
         \E j \in 1 .. k - 1 : sent'[j].path = Parent(sent'[k].path)
  <2> SUFFICES ASSUME NEW k \in 1 .. n + 1, Len(sent'[k].path) > 1
               PROVE  \E j \in 1 .. k - 1 : sent'[j].path = Parent(sent'[k].path)
    OBVIOUS
  <2>1. CASE k \in 1 .. n
    <3>1. PICK j \in 1 .. k - 1 : sent[j].path = Parent(sent[k].path)
      BY <1>1, <1>3, <2>1
    <3>2. j \in 1 .. n
      BY <2>1
    <3> QED  BY <1>3, <2>1, <3>1, <3>2
  <2>2. CASE k = n + 1
    <3>1. Parent(Path) \in PathsOf(sent)
      BY <1>1, <1>3, <1>4, <2>2
    <3>2. PICK j \in 1 .. n : sent[j].path = Parent(Path)
      BY <1>3, <3>1 DEF PathsOf
    <3>3. j \in 1 .. k - 1
      BY <2>2
    <3> QED  BY <1>3, <2>2, <3>2, <3>3
  <2> QED  BY <1>5, <2>1, <2>2
<1>11. ASSUME ParentsSent', NoneForgotten'  PROVE Told'
  <2> DEFINE m == n + 1
  <2>1. Len(sent') = m
    BY <1>3
  <2> HIDE DEF m
  <2>2. (\A k \in 1 .. Len(sent) : Tells(sent[k]))'
    <3>1. \A k \in 1 .. m : Tells(sent'[k])
      BY <1>7 DEF m
    <3> QED  BY <2>1, <3>1 DEF Tells
  <2>3. FirstNames'
    <3>1. \A j, k \in 1 .. m :
             j < k /\ src.names[sent'[j].path] = src.names[sent'[k].path] =>
                 sent'[k].kind = "hardlink"
      BY <1>8 DEF m
    <3> QED  BY <2>1, <3>1 DEF FirstNames
  <2>4. Remembered'
    <3>1. \A k \in 1 .. m :
             \/ src.names[sent'[k].path] \in DOMAIN seen'
             \/ NamesOf(src, src.names[sent'[k].path]) = {sent'[k].path}
      BY <1>9 DEF m
    <3> QED  BY <2>1, <3>1 DEF Remembered, NamesOf
  <2>5. ParentsFirst'
    <3>1. \A k \in 1 .. m : Len(sent'[k].path) > 1 =>
             \E j \in 1 .. k - 1 : sent'[j].path = Parent(sent'[k].path)
      BY <1>10 DEF m
    <3> QED  BY <2>1, <3>1 DEF ParentsFirst
  <2> QED  BY <1>1, <1>11, <2>2, <2>3, <2>4, <2>5 DEF Told
<1>12. CASE stack' = Walked /\ ~IsDir(src, Path)
  <2>1. Waiting(stack') \cup {Path} = Waiting(stack)
    BY <1>12, WalkInTurn
  <2>2. \A p \in Waiting(stack') : Len(p) > 1 => Parent(p) \in PathsOf(sent')
    BY <1>1, <1>6, <2>1
  <2>3. ASSUME NEW p \in Paths, Exists(src, p), Len(p) > 1 => Parent(p) \in PathsOf(sent')
        PROVE  p \in PathsOf(sent') \cup Waiting(stack')
    <3>1. Len(p) > 1 => IsDir(src, Parent(p)) /\ Parent(p) # Path
      <4> SUFFICES ASSUME Len(p) > 1  PROVE IsDir(src, Parent(p))
        BY <1>12
      <4>1. Parent(p) \in Ancestors(p) /\ Parent(p) \in Paths
        BY ParentIs
      <4>2. src \in SourceTrees
        BY WalkGoesOn
      <4> QED  BY <2>3, <4>1, <4>2, SourceIs, ShownIs DEF Shaped
    <3>2. p \in PathsOf(sent) \cup Waiting(stack)
      BY <1>1, <1>6, <2>3, <3>1
    <3> QED  BY <1>6, <2>1, <3>2
  <2> QED  BY <1>11, <2>2, <2>3 DEF ParentsSent, NoneForgotten, Exists
<1>13. CASE stack' = Append(Walked, SortedChildren(Path))
  <2>1. Waiting(stack') \cup {Path} = Waiting(stack) \cup Children(src, Path)
    BY <1>13, WalkInTurn
  <2>2. ASSUME NEW p \in Waiting(stack'), Len(p) > 1  PROVE Parent(p) \in PathsOf(sent')
    <3>1. CASE p \in Waiting(stack)
      BY <1>1, <1>6, <2>2, <3>1
    <3>2. CASE p \in Children(src, Path)
      BY <1>6, <3>2 DEF Children
    <3> QED  BY <2>1, <3>1, <3>2
  <2>3. ASSUME NEW p \in Paths, Exists(src, p), Len(p) > 1 => Parent(p) \in PathsOf(sent')
        PROVE  p \in PathsOf(sent') \cup Waiting(stack')
    <3>1. CASE Len(p) > 1 /\ Parent(p) = Path
      BY <1>6, <2>1, <2>3, <3>1 DEF Children
    <3>2. CASE ~(Len(p) > 1 /\ Parent(p) = Path)
      <4>1. p \in PathsOf(sent) \cup Waiting(stack)
        BY <1>1, <1>6, <2>3, <3>2
      <4> QED  BY <1>6, <2>1, <4>1
    <3> QED  BY <3>1, <3>2
  <2> QED  BY <1>11, <2>2, <2>3 DEF ParentsSent, NoneForgotten, Exists
<1> QED  BY <1>12, <1>13

\* What pack_into sends says of the path what the tree does.
LEMMA PackedTells ==
    ASSUME Walk, Told, feed = "pack", CanPack, NEW k, NEW s, NEW l, NEW b,
           Start(PackedAs(k, s, l, b)),
           \/ k = "hardlink"
           \/ /\ k = Stat.kind
              /\ Stat.kind # "symlink" => b = Stat.labels
              /\ Stat.kind = "file" => s = Len(Stat.data)
              /\ Stat.kind = "symlink" => l = Stat.data
    PROVE  /\ ~closed /\ closed' = closed /\ answer' = answer /\ everywhere' = everywhere
           /\ cut' = cut
           /\ \E h : sent' = Append(sent, h) /\ h.path = Path /\ h.kind = k /\ Tells(h)
<1> DEFINE g == PackedAs(k, s, l, b)
           h == [g EXCEPT !.labels = @ \cup everywhere]
<1>1. /\ ~closed /\ closed' = closed /\ answer' = answer /\ everywhere' = everywhere
      /\ cut' = cut /\ sent' = Append(sent, h)
  BY DEF Start, CanWrite, readerVars
<1>2. Exists(src, Path)
  BY WalkGoesOn
<1>3. everywhere = {}
  BY DEF Told
<1>4. /\ h.path = Path /\ h.kind = k /\ h.attr = Stat.attr /\ h.time = Stat.time
      /\ h.size = s /\ h.link = l /\ h.labels = b
  BY <1>3 DEF PackedAs, Header
<1>5. Stat = InodeAt(src, Path)
  BY DEF Stat
<1> HIDE DEF h
<1>6. Tells(h)
  BY <1>2, <1>4, <1>5 DEF Tells
<1> QED  BY <1>1, <1>4, <1>6

\* Nothing is put in, and who reads comes to the end of what is over.
LEMMA ToldStays ==
    ASSUME Told, feed' = feed,
           feed = "pack" => /\ UNCHANGED <<packVars, sent, everywhere>>
                            /\ closed' /\ ~cut' => (closed /\ ~cut) \/ stack = << >>
                            /\ answer' = "end" => closed'
    PROVE  Told'
<1> SUFFICES ASSUME feed = "pack"  PROVE Told'
  BY DEF Told
<1>1. /\ src' = src /\ stack' = stack /\ seen' = seen /\ sent' = sent /\ everywhere' = everywhere
  BY DEF packVars
<1>2. (\A k \in 1 .. Len(sent) : Tells(sent[k]))'
  BY <1>1 DEF Told, Tells, InodeAt, Exists
<1>3. FirstNames' /\ ParentsFirst' /\ ParentsSent'
  BY <1>1 DEF Told, FirstNames, ParentsFirst, ParentsSent
<1>4. Remembered' /\ NoneForgotten'
  BY <1>1 DEF Told, Remembered, NoneForgotten, NamesOf, Exists
<1> QED  BY <1>1, <1>2, <1>3, <1>4 DEF Told

\* Each step of pack_into.
LEMMA PackTold ==
    ASSUME Walk, Ordered, Told, Packs
    PROVE  Told'
<1>1. feed = "pack" /\ feed' = feed /\ PackStep
  BY DEF Packs
<1>2. ASSUME CanPack
      PROVE  /\ src \in SourceTrees /\ Lone(src) /\ Stat = InodeAt(src, Path)
             /\ Inode = src.names[Path] /\ Path \in NamesOf(src, Inode)
             /\ Path \in Paths /\ Exists(src, Path) /\ Path # << >>
             /\ \A k \in 1 .. Len(sent) : sent[k].path \in Paths /\ sent[k].path # Path
             /\ IsDir(src, Path) <=> Stat.kind = "dir"
  <2>1. src \in SourceTrees /\ Path \in Paths /\ Exists(src, Path) /\ Path # << >>
    BY <1>1, <1>2, WalkGoesOn, PathLength
  <2>2. \A k \in 1 .. Len(sent) : sent[k].path \in Paths /\ sent[k].path # Path
    BY <1>1, <1>2, PathIsNew
  <2> QED  BY <2>1, <2>2, SourceIs DEF Stat, Inode, NamesOf, IsDir
<1>3. ASSUME CanPack, IsDir(src, Path), NEW q \in Paths, src.names[q] = Inode  PROVE q = Path
  BY <1>2, <1>3 DEF Lone
<1>4. CASE Up
  <2>1. /\ stack # << >> /\ stack' = Front(stack) /\ src' = src /\ seen' = seen /\ sent' = sent
        /\ closed' = closed /\ cut' = cut /\ answer' = answer /\ everywhere' = everywhere
        /\ Last(stack) = << >>
    BY <1>4 DEF Up, streamVars, writerVars, readerVars, Pending
  <2> DEFINE U == Seq({p \in Paths : Exists(src, p)})
  <2>2. stack \in Seq(U) /\ InTurn(stack)
    BY <1>1 DEF Walk, Ordered
  <2> HIDE DEF U
  <2>3. Waiting(stack') = Waiting(stack)
    BY <2>1, <2>2, LevelDone
  <2>4. (\A k \in 1 .. Len(sent) : Tells(sent[k]))'
    BY <1>1, <2>1 DEF Told, Tells, InodeAt, Exists
  <2>5. FirstNames' /\ ParentsFirst' /\ ParentsSent'
    BY <1>1, <2>1, <2>3 DEF Told, FirstNames, ParentsFirst, ParentsSent
  <2>6. Remembered' /\ NoneForgotten'
    BY <1>1, <2>1, <2>3 DEF Told, Remembered, NoneForgotten, NamesOf, Exists
  <2> QED  BY <1>1, <2>1, <2>4, <2>5, <2>6 DEF Told
<1>5. CASE PackAgain
  <2>1. /\ CanPack /\ Inode \in DOMAIN seen /\ stack' = Walked /\ src' = src /\ seen' = seen
        /\ Start(PackedAs("hardlink", 0, seen[Inode], {}))
    BY <1>5 DEF PackAgain
  <2>2. PICK j \in 1 .. Len(sent) : sent[j].path = seen[Inode] /\ src.names[seen[Inode]] = Inode
    BY <1>1, <2>1 DEF Ordered, Holds
  <2>3. ~IsDir(src, Path)
    BY <1>2, <1>3, <2>1, <2>2
  <2>4. /\ ~closed /\ closed' = closed /\ answer' = answer /\ everywhere' = everywhere
        /\ \E h : sent' = Append(sent, h) /\ h.path = Path /\ h.kind = "hardlink" /\ Tells(h)
    BY <1>1, <2>1, PackedTells
  <2> QED  BY <1>1, <2>1, <2>3, <2>4, EntryTold
<1>6. CASE PackDir
  <2>1. /\ CanPack /\ stack' = Append(Walked, SortedChildren(Path)) /\ src' = src
        /\ seen' = seen /\ Stat.kind = "dir" /\ Start(PackedAs("dir", 0, << >>, Stat.labels))
    BY <1>6 DEF PackDir
  <2>2. NamesOf(src, Inode) = {Path}
    BY <1>2, <1>3, <2>1 DEF NamesOf
  <2>3. /\ ~closed /\ closed' = closed /\ answer' = answer /\ everywhere' = everywhere
        /\ \E h : sent' = Append(sent, h) /\ h.path = Path /\ h.kind = "dir" /\ Tells(h)
    BY <1>1, <2>1, PackedTells
  <2>4. \A k \in 1 .. Len(sent) : src.names[sent[k].path] # Inode
    BY <1>2, <1>3, <2>1
  <2> QED  BY <1>1, <2>1, <2>2, <2>3, <2>4, EntryTold
<1>7. CASE PackLeaf
  <2>1. /\ CanPack /\ Stat.kind # "dir" /\ Inode \notin DOMAIN seen /\ stack' = Walked /\ src' = src
        /\ seen' = IF Cardinality(NamesOf(src, Inode)) > 1
                   THEN [i \in DOMAIN seen \cup {Inode} |-> IF i = Inode THEN Path ELSE seen[i]]
                   ELSE seen
        /\ Start(CASE Stat.kind = "file" -> PackedAs("file", Len(Stat.data), << >>, Stat.labels)
                   [] Stat.kind = "symlink" -> PackedAs("symlink", 0, Stat.data, {})
                   [] OTHER -> PackedAs(Stat.kind, 0, << >>, Stat.labels))
    BY <1>7 DEF PackLeaf
  <2>2. PICK s, l, b :
           /\ Start(PackedAs(Stat.kind, s, l, b))
           /\ Stat.kind # "symlink" => b = Stat.labels
           /\ Stat.kind = "file" => s = Len(Stat.data)
           /\ Stat.kind = "symlink" => l = Stat.data
    BY <2>1
  <2>3. /\ ~closed /\ closed' = closed /\ answer' = answer /\ everywhere' = everywhere
        /\ \E h : sent' = Append(sent, h) /\ h.path = Path /\ Tells(h)
    BY <1>1, <2>1, <2>2, PackedTells
  <2>4. ASSUME NEW k \in 1 .. Len(sent), src.names[sent[k].path] = Inode  PROVE FALSE
    <3>1. NamesOf(src, Inode) = {sent[k].path}
      BY <1>1, <2>1, <2>4 DEF Told, Remembered
    <3> QED  BY <1>2, <2>1, <2>4, <3>1
  <2>5. DOMAIN seen \subseteq DOMAIN seen'
    BY <2>1
  <2>6. Inode \in DOMAIN seen' \/ NamesOf(src, Inode) = {Path}
    <3>1. CASE Cardinality(NamesOf(src, Inode)) > 1
      BY <2>1, <3>1
    <3>2. CASE ~(Cardinality(NamesOf(src, Inode)) > 1)
      <4> DEFINE S == NamesOf(src, Inode)
      <4>1. Path \in S /\ S \subseteq Paths
        BY <1>2, <2>1 DEF NamesOf
      <4> HIDE DEF S
      <4>2. IsFiniteSet(S) /\ Cardinality(S) \in Nat
        BY <4>1, InodeFacts, FS_Subset, FS_CardinalityType
      <4>3. IsFiniteSet(S \ {Path}) /\ Cardinality(S \ {Path}) = Cardinality(S) - 1
        BY <4>1, <4>2, FS_RemoveElement
      <4>4. Cardinality(S \ {Path}) \in Nat
        BY <4>3, FS_CardinalityType
      <4>5. Cardinality(S \ {Path}) = 0
        BY <3>2, <4>2, <4>3, <4>4 DEF S
      <4>6. S \ {Path} = {}
        BY <4>3, <4>5, FS_EmptySet
      <4> QED  BY <4>1, <4>6 DEF S
    <3> QED  BY <3>1, <3>2
  <2>7. ~IsDir(src, Path)
    BY <1>2, <2>1
  <2> QED  BY <1>1, <2>1, <2>3, <2>4, <2>5, <2>6, <2>7, EntryTold
<1>8. CASE PackContents \/ PackEnds
  <2>1. /\ UNCHANGED <<packVars, sent, everywhere>> /\ answer' = answer
        /\ (closed' = closed /\ cut' = cut) \/ (stack = << >> /\ closed')
    BY <1>8 DEF PackContents, PackEnds, Write, Finish, readerVars
  <2> QED  BY <1>1, <2>1, ToldStays DEF Told
<1> QED  BY <1>1, <1>4, <1>5, <1>6, <1>7, <1>8 DEF PackStep

\* An archive of our own is read to its end only once that is written.
LEMMA EndIsWritten ==
    ASSUME Inv, ReaderStep, feed = "pack", answer' = "end"
    PROVE  closed
<1>1. answer = "asked" /\ Stream /\ Tray /\ (StreamEnds \/ ZeroBlock)
  <2>1. answer = "asked" /\ Stream /\ Tray
    BY ReaderFrame DEF Inv, Common
  <2>2. CASE BeginNext \/ Skip
    BY <2>1, <2>2 DEF BeginNext, Skip
  <2>3. CASE LongName \/ LongLink \/ PaxRecords \/ GlobalRecords \/ SkipUnknown
    BY <2>1, <2>3 DEF LongName, LongLink, PaxRecords, GlobalRecords, SkipUnknown, Carry
  <2>4. CASE Deliver \/ Truncated
    BY <2>4 DEF Deliver, Truncated
  <2> QED  BY <2>1, <2>2, <2>3, <2>4 DEF ReaderStep
<1>2. CASE StreamEnds
  BY <1>2 DEF StreamEnds
<1>3. CASE ZeroBlock
  <2>1. carried.scanning /\ carried.zeroes \in Nat /\ carried.zeroes + 1 >= 2
    BY <1>1, <1>3 DEF ZeroBlock, Scanning, Tray
  <2>2. carried.zeroes # 0
    BY <2>1
  <2> QED  BY <1>1, <2>1, <2>2 DEF Stream, BrokenOff, InHand, ReadWhole, Between, Over, Quiet, Coming
<1> QED  BY <1>1, <1>2, <1>3

\* Unpacking does not write, nor end the reading.
LEMMA UnpackOnlyReads ==
    ASSUME UnpackStep  PROVE UNCHANGED writerVars /\ answer' \in {"asked", answer}
BY DEF UnpackStep, SkipRoot, Whiteout, PlaceDir, PlaceSymlink, PlaceDevice, PlaceLink,
       ClearForFile, ReadContents, CreateEmpty, StoreFile, ArchiveEnds, Restamp, Done, EntryFails,
       ContentsFail, NextFails, RestampFails, Stops, Handled, AskNext, streamVars, readerVars

\* Every step.
LEMMA NextTold ==
    ASSUME Inv, Walk, Ordered, Told, [Next]_vars
    PROVE  Told'
<1>1. feed = "pack" /\ answer = "end" => closed
  BY DEF Told
<1>2. CASE Packs
  BY <1>2, PackTold
<1>3. CASE ToolWrites
  <2>1. feed = "tool" /\ feed' = feed
    BY <1>3, Zenon DEF ToolWrites
  <2> QED  BY <2>1, ToldStays
<1>4. CASE Breaks
  <2>1. /\ UNCHANGED <<packVars, sent, everywhere, answer>> /\ feed' = feed /\ closed' /\ cut'
    BY <1>4 DEF Breaks, Break, readerVars
  <2> QED  BY <1>1, <2>1, ToldStays
<1>5. CASE Reads
  <2>1. /\ UNCHANGED packVars /\ feed' = feed /\ sent' = sent /\ everywhere' = everywhere
        /\ closed' = closed /\ cut' = cut /\ ReaderStep
    BY <1>5, ReaderFrame DEF Reads
  <2> QED  BY <2>1, EndIsWritten, ToldStays
<1>6. CASE Unpacks
  <2>1. /\ UNCHANGED packVars /\ feed' = feed /\ UNCHANGED writerVars
        /\ answer' \in {"asked", answer}
    BY <1>6, UnpackOnlyReads DEF Unpacks
  <2> QED  BY <1>1, <2>1, ToldStays DEF writerVars
<1>7. CASE UNCHANGED vars
  <2>1. /\ UNCHANGED packVars /\ feed' = feed /\ UNCHANGED writerVars /\ answer' = answer
    BY <1>7 DEF vars, streamVars, readerVars
  <2> QED  BY <1>1, <2>1, ToldStays DEF writerVars
<1> QED  BY <1>2, <1>3, <1>4, <1>5, <1>6, <1>7 DEF Next, Finished

\* At first what is in the root waits, and nothing is sent.
LEMMA InitTold == Init => Told
<1> SUFFICES ASSUME Init, feed = "pack"  PROVE Told
  BY DEF Told
<1>1. /\ sent = << >> /\ everywhere = {} /\ ~closed /\ answer = "asked" /\ src \in SourceTrees
      /\ stack = <<InOrder(Children(src, << >>))>>
  BY DEF Init, PackFrom
<1>2. Len(sent) = 0 /\ PathsOf(sent) = {}
  BY <1>1, EmptyRow DEF PathsOf
<1>3. Waiting(stack) = Children(src, << >>)
  <2> DEFINE C == Children(src, << >>)
  <2> DEFINE o == InOrder(C)
  <2>1. o \in Seq(C) /\ \A p \in C : \E k \in 1 .. Len(o) : o[k] = p
    BY ChildrenSorted
  <2> HIDE DEF o
  <2>2. ToSet(o) = C
    BY <2>1, LenProperties, ElementOfSeq DEF ToSet
  <2>3. stack = <<o>>
    BY <1>1 DEF o, C
  <2> HIDE DEF C
  <2>4. Len(<<o>>) = 1 /\ <<o>>[1] = o
    OBVIOUS
  <2>5. Waiting(<<o>>) = ToSet(o)
    BY <2>4 DEF Waiting
  <2> QED  BY <2>2, <2>3, <2>5 DEF C
<1>4. \A p \in Paths : p \in Children(src, << >>) <=> Len(p) = 1 /\ Exists(src, p)
  <2> SUFFICES ASSUME NEW p \in Paths  PROVE Parent(p) = << >> <=> Len(p) = 1
    BY DEF Children
  <2>1. Row(Parent(p)) /\ Len(Parent(p)) = Len(p) - 1 /\ Len(p) \in Nat
    BY ParentIs, PathLength
  <2>2. Parent(p) = << >> <=> Len(Parent(p)) = 0
    BY <2>1, EmptyRow, RowFacts
  <2> QED  BY <2>1, <2>2
<1>5. Children(src, << >>) \subseteq Paths
  BY DEF Children
<1>6. ParentsSent
  <2> SUFFICES ASSUME NEW p \in Waiting(stack)  PROVE ~(Len(p) > 1)
    BY DEF ParentsSent
  <2>1. Len(p) = 1
    BY <1>3, <1>4, <1>5
  <2> QED  BY <2>1
<1>7. NoneForgotten
  <2>1. \A p \in Paths : Len(p) \in Nat \ {0}
    BY PathLength
  <2> QED  BY <1>2, <1>3, <1>4, <2>1 DEF NoneForgotten
<1> QED  BY <1>1, <1>2, <1>6, <1>7 DEF Told, FirstNames, Remembered, ParentsFirst

(***************************************************************************)
(* What has come of it.                                                    *)
(***************************************************************************)
\* The paths of the entries that are dealt with, and of a file that is created and not whole.
Came == {got[k].path : k \in 1 .. Settled}
There == Came \cup IF at = "contents" /\ streaming THEN {Entry.path} ELSE {}

\* The inode b stands for a of the tree; a directory's attributes come last of all.
Alike(a, b) ==
    /\ a.kind = b.kind
    /\ a.kind # "dir" => SameNode(a, b)
    /\ a.kind = "dir" => b.time \in {0, a.time}
CopyOf(v, S) ==
    /\ \A p \in S : Alike(InodeAt(src, p), InodeAt(v, p))
    /\ \A p, q \in S : (src.names[p] = src.names[q]) = (v.names[p] = v.names[q])
Copied ==
    feed = "pack" /\ Unmarked(src) /\ at # "failed" =>
        /\ \A p \in Paths : Exists(vol, p) <=> p \in There
        /\ CopyOf(vol, Came)

\* What has come is what was sent.
LEMMA GotTells ==
    ASSUME UInv, Outcome, Ordered, Told, feed = "pack"
    PROVE  /\ Row(got) /\ Len(got) \in Nat /\ Len(sent) \in Nat /\ Len(got) <= Len(sent)
           /\ \A k \in 1 .. Len(got) : /\ k \in 1 .. Len(sent) /\ got[k] = sent[k]
                                       /\ Tells(got[k]) /\ got[k].path \in Paths
<1>1. IsPrefix(got, sent) /\ Row(got) /\ Row(sent)
  BY GotStartsSent DEF UInv, Outcome, Ordered
<1>2. Len(got) <= Len(sent) /\ got = UpTo(sent, Len(got)) /\ Len(sent) \in Nat /\ Len(got) \in Nat
  BY <1>1, PrefixIs, RowFacts
<1>3. Len(got) \in 0 .. Len(sent) /\ \A k \in 1 .. Len(got) : k \in 1 .. Len(sent)
  BY <1>2
<1>4. \A k \in 1 .. Len(got) : got[k] = sent[k]
  BY <1>1, <1>2, <1>3, Beginnings
<1> QED  BY <1>1, <1>2, <1>3, <1>4 DEF Told, Ordered

\* The entry in hand is of a path that has not come, and what it depends on has.
LEMMA InHandIs ==
    ASSUME UInv, Outcome, Ordered, Told, feed = "pack", Unmarked(src), answer = "entry"
    PROVE  /\ Entry.path \in Paths /\ Entry.path \notin Came /\ Entry.path # << >> /\ ~IsMarker
           /\ Tells(Entry) /\ Came \subseteq Paths /\ \A q \in Came : Exists(src, q)
           /\ Len(Entry.path) > 1 => Parent(Entry.path) \in Came
           /\ IF Entry.kind = "hardlink"
              THEN Entry.link \in Came /\ src.names[Entry.link] = src.names[Entry.path]
              ELSE \A q \in Came : src.names[q] # src.names[Entry.path]
           /\ answer' = "asked" /\ got' = got => Came' = Came \cup {Entry.path}
           /\ answer' = answer /\ got' = got => Came' = Came
<1>1. /\ got # << >> /\ Row(got) /\ Len(got) \in Nat /\ Len(sent) \in Nat /\ Len(got) <= Len(sent)
      /\ \A k \in 1 .. Len(got) : got[k] = sent[k]
  BY GotTells DEF UInv, Arrived
<1>2. PICK n \in Nat : n + 1 = Len(got)
  <2>1. Len(got) # 0
    BY <1>1, RowFacts
  <2>2. Len(got) - 1 \in Nat
    BY <1>1, <2>1
  <2> QED  BY <1>1, <2>2
<1>3. n + 1 <= Len(sent) /\ Len(sent) \in Nat /\ \A k \in 1 .. n + 1 : got[k] = sent[k]
  BY <1>1, <1>2
<1>4. Settled = n /\ Entry = sent[n + 1] /\ Came = {sent[k].path : k \in 1 .. n}
  <2>1. Settled = n
    BY <1>2 DEF Settled
  <2>2. \A k \in 1 .. n : k \in 1 .. n + 1
    OBVIOUS
  <2>3. n + 1 \in 1 .. n + 1
    OBVIOUS
  <2> QED  BY <1>2, <1>3, <2>1, <2>2, <2>3 DEF Came, Entry, Last
<1>5. /\ n + 1 \in 1 .. Len(sent)
      /\ \A k \in 1 .. n : k \in 1 .. Len(sent) /\ k < n + 1 /\ k \in 1 .. n + 1 - 1
      /\ \A k \in 1 .. n + 1 - 1 : k \in 1 .. n
  BY <1>3
<1> DEFINE p == Entry.path
<1>6. p \in Paths /\ \A k \in 1 .. n : sent[k].path \in Paths /\ Precedes(sent[k].path, p)
  BY <1>4, <1>5 DEF Ordered
<1>7. p \notin Came /\ Came \subseteq Paths
  BY <1>4, <1>6, NotBeforeItself
<1>8. Tells(Entry) /\ \A q \in Came : Exists(src, q)
  BY <1>4, <1>5 DEF Told, Tells
<1>9. p # << >> /\ ~IsMarker
  BY <1>6, <1>8, PathLength DEF IsMarker, LastName, Unmarked, Tells
<1>10. Len(p) > 1 => Parent(p) \in Came
  <2> SUFFICES ASSUME Len(p) > 1  PROVE Parent(p) \in Came
    OBVIOUS
  <2>1. PICK j \in 1 .. n + 1 - 1 : sent[j].path = Parent(p)
    BY <1>4, <1>5 DEF Told, ParentsFirst
  <2> QED  BY <1>4, <1>5, <2>1
<1>11. ASSUME Entry.kind = "hardlink"
       PROVE  Entry.link \in Came /\ src.names[Entry.link] = src.names[p]
  <2>1. PICK j \in 1 .. n + 1 - 1 :
            /\ sent[j].path = sent[n + 1].link
            /\ src.names[sent[j].path] = src.names[sent[n + 1].path]
    BY <1>4, <1>5, <1>11 DEF Ordered
  <2> QED  BY <1>4, <1>5, <2>1
<1>12. ASSUME Entry.kind # "hardlink", NEW q \in Came  PROVE src.names[q] # src.names[p]
  <2>1. PICK j \in 1 .. n : q = sent[j].path
    BY <1>4, <1>12
  <2> QED  BY <1>4, <1>5, <1>12, <2>1 DEF Told, FirstNames
<1>13. ASSUME answer' = "asked", got' = got  PROVE Came' = Came \cup {p}
  <2>1. Settled' = n + 1
    BY <1>2, <1>13 DEF Settled
  <2>2. Came' = {got[k].path : k \in 1 .. n + 1}
    BY <1>13, <2>1 DEF Came
  <2>3. Came' = {sent[k].path : k \in 1 .. n + 1}
    BY <1>3, <2>2
  <2>4. \A k \in 1 .. n + 1 : k \in 1 .. n \/ k = n + 1
    OBVIOUS
  <2>5. n + 1 \in 1 .. n + 1 /\ \A k \in 1 .. n : k \in 1 .. n + 1
    OBVIOUS
  <2> QED  BY <1>4, <2>3, <2>4, <2>5
<1>14. answer' = answer /\ got' = got => Came' = Came
  BY DEF Came, Settled
<1> QED  BY <1>6, <1>7, <1>8, <1>9, <1>10, <1>11, <1>12, <1>13, <1>14

\* What is above it is there, nothing is under it, and so nothing has to be made or removed.
LEMMA PlaceIsFree ==
    ASSUME UInv, Outcome, Ordered, Walk, Told, Copied, feed = "pack", Unmarked(src), Here
    PROVE  /\ Opened = vol /\ Cleared = vol /\ vol.names[Entry.path] = Absent
           /\ Len(Entry.path) > 1 => IsDir(vol, Parent(Entry.path))
           /\ \A q \in Paths : Exists(vol, q) <=> q \in Came
           /\ CopyOf(vol, Came) /\ Came \subseteq Paths
<1> DEFINE p == Entry.path
<1>1. /\ answer = "entry" /\ at = "entries" /\ src \in SourceTrees
      /\ Sound(vol) /\ Shaped(Shown(vol))
  BY DEF Here, Walk, UInv
<1>2. /\ p \in Paths /\ p \notin Came /\ Tells(Entry) /\ Came \subseteq Paths
      /\ Len(p) > 1 => Parent(p) \in Came
  BY <1>1, InHandIs
<1>3. (\A q \in Paths : Exists(vol, q) <=> q \in Came) /\ CopyOf(vol, Came)
  BY <1>1 DEF Copied, There
<1>4. Len(p) > 1 => IsDir(vol, Parent(p))
  <2> SUFFICES ASSUME Len(p) > 1  PROVE IsDir(vol, Parent(p))
    OBVIOUS
  <2>1. Parent(p) \in Ancestors(p) /\ Parent(p) \in Paths /\ Parent(p) \in Came
    BY <1>2, ParentIs
  <2>2. IsDir(src, Parent(p))
    BY <1>1, <1>2, <2>1, SourceIs, ShownIs DEF Tells, Shaped
  <2>3. Parent(p) # << >> /\ Exists(vol, Parent(p))
    BY <1>3, <2>1, PathLength
  <2> QED  BY <1>3, <2>1, <2>2, <2>3 DEF IsDir, CopyOf, Alike
<1>5. \A q \in Ancestors(p) : Exists(vol, q)
  <2> SUFFICES ASSUME NEW q \in Ancestors(p)  PROVE Exists(vol, q)
    OBVIOUS
  <2> DEFINE d == Parent(p)
  <2>1. Row(d) /\ Len(d) = Len(p) - 1 /\ Len(p) \in Nat \ {0}
    BY <1>2, ParentIs, PathLength
  <2>2. PICK m \in 1 .. Len(d) : q = UpTo(d, m)
    BY <1>2, ParentIs
  <2>3. Len(p) > 1 /\ Len(d) \in Nat
    BY <2>1, <2>2
  <2>4. d \in Paths /\ d \in Came /\ Exists(vol, d)
    BY <1>2, <1>3, <2>3, ParentIs
  <2>5. CASE m = Len(d)
    BY <2>1, <2>2, <2>3, <2>4, <2>5, Beginnings
  <2>6. CASE m # Len(d)
    <3>1. m \in 1 .. Len(d) - 1
      BY <2>2, <2>3, <2>6
    <3> HIDE DEF d
    <3>2. q \in Ancestors(d) /\ q \in Paths
      BY <2>2, <2>4, <3>1, AncestorsAre DEF Ancestors
    <3> QED  BY <1>1, <2>4, <3>2, ShownIs, DirectoryIsThere DEF Shaped
  <2> QED  BY <2>5, <2>6
<1>6. \A q \in Under(p) : ~Exists(vol, q)
  <2> SUFFICES ASSUME NEW q \in Under(p), Exists(vol, q)  PROVE FALSE
    OBVIOUS
  <2>1. q \in Paths /\ (q = p \/ p \in Ancestors(q))
    BY <1>2, UnderIs DEF Under
  <2>2. Exists(vol, p)
    BY <1>1, <1>2, <2>1, ShownIs, DirectoryIsThere DEF Shaped
  <2> QED  BY <1>2, <1>3, <2>2
<1>7. vol.names[p] = Absent
  BY <1>1, <1>2, <1>3, ShownIs
<1>8. Opened = vol /\ Cleared = vol
  BY <1>1, <1>2, <1>5, <1>6, NothingInTheWay
<1> QED  BY <1>2, <1>3, <1>4, <1>7, <1>8

\* One more path comes, and the others stay what they stand for.
LEMMA CopyGrows ==
    ASSUME NEW p \in Paths, NEW w, Exists(w, p), Came \subseteq Paths, CopyOf(vol, Came),
           \A q \in Paths : q # p => (Exists(vol, q) <=> q \in Came),
           \A q \in Paths : q # p => w.names[q] = vol.names[q],
           \A q \in Came : q # p /\ Alike(InodeAt(src, q), InodeAt(w, q)),
           Alike(InodeAt(src, p), InodeAt(w, p)),
           \A q \in Came : src.names[q] = src.names[p] <=> w.names[q] = w.names[p]
    PROVE  /\ \A q \in Paths : Exists(w, q) <=> q \in Came \cup {p}
           /\ CopyOf(w, Came \cup {p})
<1>1. \A q \in Paths : q # p => (Exists(w, q) <=> q \in Came \cup {p})
  BY PathLength DEF Exists
<1>2. \A q, r \in Came \cup {p} : (src.names[q] = src.names[r]) = (w.names[q] = w.names[r])
  BY DEF CopyOf
<1> QED  BY <1>1, <1>2 DEF CopyOf

\* A fresh inode that stands for one of the tree with no name that has come.
LEMMA MakeCopies ==
    ASSUME Sound(vol), NEW p \in Paths, vol.names[p] = Absent, NEW node, Live(node),
           Came \subseteq Paths, \A q \in Paths : Exists(vol, q) <=> q \in Came,
           CopyOf(vol, Came), Alike(InodeAt(src, p), node),
           \A q \in Came : src.names[q] # src.names[p]
    PROVE  /\ \A q \in Paths : Exists(Make(vol, p, node), q) <=> q \in Came \cup {p}
           /\ CopyOf(Make(vol, p, node), Came \cup {p})
<1> DEFINE w == Make(vol, p, node)
<1>1. /\ Firm(vol, w, {p}) /\ InodeAt(w, p) = node /\ Exists(w, p)
      /\ \A q \in Paths : q # p => w.names[q] = vol.names[q] /\ w.names[q] # w.names[p]
      /\ \A q \in Paths : q # p /\ Exists(vol, q) => Stays(vol, w, q)
      /\ Lone(vol) => Lone(w)
  BY MakeLeaves
<1> HIDE DEF w
<1>2. \A q \in Came : q # p /\ InodeAt(w, q) = InodeAt(vol, q)
  BY <1>1 DEF Stays
<1>3. \A q \in Came : Alike(InodeAt(src, q), InodeAt(w, q))
  BY <1>2 DEF CopyOf
<1>4. \A q \in Paths : q # p => w.names[q] = vol.names[q]
  BY <1>1
<1>5. \A q \in Came : src.names[q] = src.names[p] <=> w.names[q] = w.names[p]
  BY <1>1, <1>2
<1>6. Exists(w, p) /\ \A q \in Came : q # p /\ Alike(InodeAt(src, q), InodeAt(w, q))
  BY <1>1, <1>2, <1>3
<1>7. Alike(InodeAt(src, p), InodeAt(w, p))
  BY <1>1
<1>8. (\A q \in Paths : Exists(w, q) <=> q \in Came \cup {p}) /\ CopyOf(w, Came \cup {p})
  BY <1>4, <1>5, <1>6, <1>7, CopyGrows
<1> QED  BY <1>8 DEF w

\* The entries without contents: each brings its path, as the tree has it.
LEMMA EntryCopied ==
    ASSUME UInv, Outcome, Ordered, Walk, Told, Copied, feed = "pack", Unmarked(src),
           SkipRoot \/ Whiteout \/ PlaceDir \/ PlaceSymlink \/ PlaceDevice \/ PlaceLink
    PROVE  /\ \A q \in Paths : Exists(vol', q) <=> q \in Came \cup {Entry.path}
           /\ CopyOf(vol', Came \cup {Entry.path})
<1> DEFINE p == Entry.path
           n == InodeAt(src, p)
<1>1. Here /\ answer = "entry" /\ at = "entries" /\ Sound(vol) /\ src \in SourceTrees
  BY DEF SkipRoot, Whiteout, PlaceDir, PlaceSymlink, PlaceDevice, PlaceLink, IsEntry,
         IsMarked, Here, UInv, Walk
<1>2. /\ p \in Paths /\ p \notin Came /\ p # << >> /\ ~IsMarker /\ Tells(Entry)
      /\ IF Entry.kind = "hardlink"
         THEN Entry.link \in Came /\ src.names[Entry.link] = src.names[p]
         ELSE \A q \in Came : src.names[q] # src.names[p]
  BY <1>1, InHandIs
<1>3. /\ Opened = vol /\ Cleared = vol /\ vol.names[p] = Absent
      /\ Len(p) > 1 => IsDir(vol, Parent(p))
      /\ \A q \in Paths : Exists(vol, q) <=> q \in Came
      /\ CopyOf(vol, Came) /\ Came \subseteq Paths
  BY <1>1, PlaceIsFree
<1>4. /\ n.attr = Entry.attr /\ n.time = Entry.time
      /\ Entry.kind # "hardlink" =>
            /\ n.kind = Entry.kind
            /\ n.kind # "symlink" => n.labels = Entry.labels
            /\ n.kind = "symlink" => n.data = Entry.link
      /\ n.kind \in {"dir", "device"} => n.data = << >>
  <2>1. Exists(src, p) /\ (n.kind \in {"dir", "device"} => n.data = << >>)
    BY <1>1, <1>2, SourceIs DEF Tells
  <2> QED  BY <1>2, <2>1 DEF Tells
<1> HIDE DEF n
<1>5. CASE PlaceDir
  <2> DEFINE w == MakeDir(vol, p, Entry.attr)
  <2>1. Entry.kind = "dir" /\ vol' = w
    BY <1>1, <1>2, <1>3, <1>5 DEF PlaceDir, IsDir
  <2>2. /\ Firm(vol, w, {})
        /\ \A q \in Paths : q # p => w.names[q] = vol.names[q] /\ w.names[q] # w.names[p]
        /\ \A q \in Paths : IsDir(w, q) =>
               InodeAt(w, q).time = 0 \/ (IsDir(vol, q) /\ Stays(vol, w, q))
    BY <1>1, <1>2, <1>3, MakeDirLeaves
  <2>3. Sound(w) /\ Shown(w) = Put(Shown(vol), p, Kept!Directory)
    BY <1>1, <1>2, <1>3, MakeDirIs
  <2> HIDE DEF w
  <2>4. \A q \in Paths : IsDir(w, q) <=> q = p \/ IsDir(vol, q)
    BY <1>1, <1>2, <2>3, ShownIs DEF Put
  <2>5. Exists(w, p) /\ ~IsDir(vol, p)
    BY <1>2, <1>3, <2>4 DEF IsDir
  <2>6. ASSUME NEW q \in Came  PROVE q # p /\ Alike(InodeAt(src, q), InodeAt(w, q))
    <3>1. /\ q \in Paths /\ q # p /\ q # << >> /\ Exists(vol, q)
          /\ Alike(InodeAt(src, q), InodeAt(vol, q))
      BY <1>2, <1>3, <2>6, PathLength DEF CopyOf
    <3>2. CASE IsDir(vol, q)
      <4>1. IsDir(w, q)
        BY <2>4, <3>1, <3>2
      <4>2. InodeAt(w, q).kind = "dir" /\ InodeAt(vol, q).kind = "dir"
        BY <3>1, <3>2, <4>1 DEF IsDir
      <4>3. InodeAt(w, q).time = 0 \/ InodeAt(w, q) = InodeAt(vol, q)
        BY <2>2, <3>1, <4>1 DEF Stays
      <4> QED  BY <3>1, <4>2, <4>3 DEF Alike
    <3>3. CASE ~IsDir(vol, q)
      <4>1. w.names[q] = vol.names[q]
        BY <2>2, <3>1
      <4>2. Solid(w, q)
        BY <2>4, <3>1, <3>3, <4>1 DEF Solid, Exists
      <4>3. InodeAt(w, q) = InodeAt(vol, q)
        BY <2>2, <3>1, <4>2 DEF Firm, Stays
      <4> QED  BY <3>1, <4>3
    <3> QED  BY <3>2, <3>3
  <2>7. Alike(InodeAt(src, p), InodeAt(w, p))
    <3>1. InodeAt(w, p).kind = "dir" /\ InodeAt(w, p).time = 0
      BY <1>2, <2>2, <2>4, <2>5 DEF IsDir
    <3> QED  BY <1>4, <2>1, <3>1 DEF Alike, n
  <2>8. \A q \in Came : src.names[q] = src.names[p] <=> w.names[q] = w.names[p]
    BY <1>2, <1>3, <2>1, <2>2, <2>6
  <2>9. \A q \in Came : q # p /\ Alike(InodeAt(src, q), InodeAt(w, q))
    BY <2>6
  <2>10. \A q \in Paths : q # p => w.names[q] = vol.names[q]
    BY <2>2
  <2>11. /\ \A q \in Paths : Exists(w, q) <=> q \in Came \cup {p}
         /\ CopyOf(w, Came \cup {p})
    BY <1>2, <1>3, <2>5, <2>7, <2>8, <2>9, <2>10, CopyGrows
  <2> QED  BY <2>1, <2>11
<1>6. CASE PlaceSymlink
  <2> DEFINE node == Node("symlink", Entry.link, DefaultAttr, {}, 0)
  <2>1. Entry.kind = "symlink" /\ vol' = Make(vol, p, node)
    BY <1>3, <1>6 DEF PlaceSymlink, Handled
  <2>2. Live(node) /\ Alike(InodeAt(src, p), node)
    BY <1>4, <2>1 DEF Live, Node, Kinds, Alike, SameNode, n
  <2> HIDE DEF node
  <2> QED  BY <1>1, <1>2, <1>3, <2>1, <2>2, MakeCopies
<1>7. CASE PlaceDevice
  <2> DEFINE node == Node("device", << >>, Entry.attr, Entry.labels, Entry.time)
  <2>1. Entry.kind = "device" /\ vol' = Make(vol, p, node)
    BY <1>3, <1>7 DEF PlaceDevice, Handled
  <2>2. Live(node) /\ Alike(InodeAt(src, p), node)
    BY <1>4, <2>1 DEF Live, Node, Kinds, Alike, SameNode, n
  <2> HIDE DEF node
  <2> QED  BY <1>1, <1>2, <1>3, <2>1, <2>2, MakeCopies
<1>8. CASE PlaceLink
  <2> DEFINE t == Entry.link
             w == Link(vol, t, p)
  <2>1. Entry.kind = "hardlink" /\ vol' = w /\ t \in Paths /\ Solid(vol, t)
    BY <1>3, <1>8 DEF PlaceLink, Handled, CanLink, Solid
  <2>2. /\ Firm(vol, w, {p}) /\ w.names[p] = vol.names[t] /\ InodeAt(w, p) = InodeAt(vol, t)
        /\ \A q \in Paths : q # p => Stays(vol, w, q)
        /\ Lone(vol) => Lone(w)
    BY <1>1, <1>2, <1>3, <2>1, LinkLeaves
  <2> HIDE DEF w
  <2>3. t \in Came /\ src.names[t] = src.names[p] /\ InodeAt(src, t) = InodeAt(src, p)
    BY <1>2, <2>1 DEF InodeAt
  <2>4. \A q \in Came : q # p /\ q \in Paths /\ w.names[q] = vol.names[q]
                        /\ InodeAt(w, q) = InodeAt(vol, q)
    BY <1>2, <1>3, <2>2 DEF Stays
  <2>5. (\A q \in Came : Alike(InodeAt(src, q), InodeAt(w, q))) /\ Alike(InodeAt(src, p), InodeAt(w, p))
    BY <1>3, <2>2, <2>3, <2>4 DEF CopyOf
  <2>6. \A q \in Came : src.names[q] = src.names[p] <=> w.names[q] = w.names[p]
    BY <1>3, <2>2, <2>3, <2>4 DEF CopyOf
  <2>7. Exists(w, p) /\ \A q \in Came : q # p /\ Alike(InodeAt(src, q), InodeAt(w, q))
    BY <1>2, <2>1, <2>2, <2>4, <2>5, PathLength DEF Solid, Exists
  <2>8. \A q \in Paths : q # p => w.names[q] = vol.names[q]
    BY <2>2 DEF Stays
  <2>9. /\ \A q \in Paths : Exists(w, q) <=> q \in Came \cup {p}
        /\ CopyOf(w, Came \cup {p})
    BY <1>2, <1>3, <2>5, <2>6, <2>7, <2>8, CopyGrows
  <2> QED  BY <2>1, <2>9
<1>9. CASE SkipRoot \/ Whiteout
  BY <1>2, <1>9 DEF SkipRoot, Whiteout, IsMarked
<1> QED  BY <1>5, <1>6, <1>7, <1>8, <1>9

\* A file's contents come into place: the file empty,
LEMMA EmptyCopied ==
    ASSUME UInv, Copied, feed = "pack", Unmarked(src), CreateEmpty, Came \subseteq Paths,
           Entry.path \notin Came
    PROVE  /\ \A q \in Paths : Exists(vol', q) <=> q \in Came \cup {Entry.path}
           /\ CopyOf(vol', Came)
<1> DEFINE p == Entry.path
           node == Node("file", << >>, Entry.attr, {}, 0)
           w == Make(vol, p, node)
<1>1. at = "contents" /\ ~streaming /\ vol' = w /\ Sound(vol) /\ InPlace
  BY DEF CreateEmpty, EmptyMade, UInv
<1>2. p \in Paths /\ vol.names[p] = Absent
  BY <1>1, ShownIs DEF InPlace
<1>3. Live(node)
  BY DEF Live, Node, Kinds
<1> HIDE DEF node
<1>4. /\ Firm(vol, w, {p}) /\ InodeAt(w, p) = node /\ Exists(w, p)
      /\ \A q \in Paths : q # p => w.names[q] = vol.names[q] /\ w.names[q] # w.names[p]
      /\ \A q \in Paths : q # p /\ Exists(vol, q) => Stays(vol, w, q)
      /\ Lone(vol) => Lone(w)
  BY <1>1, <1>2, <1>3, MakeLeaves
<1> HIDE DEF w
<1>5. (\A q \in Paths : Exists(vol, q) <=> q \in Came) /\ CopyOf(vol, Came)
  BY <1>1 DEF Copied, There
<1>6. \A q \in Came : w.names[q] = vol.names[q] /\ InodeAt(w, q) = InodeAt(vol, q)
  BY <1>4, <1>5 DEF Stays
<1>7. CopyOf(w, Came)
  BY <1>5, <1>6 DEF CopyOf
<1>8. \A q \in Paths : q # p => (Exists(w, q) <=> q \in Came)
  BY <1>4, <1>5, PathLength DEF Exists
<1> QED  BY <1>1, <1>4, <1>7, <1>8

\* and the whole file.
LEMMA FileCopied ==
    ASSUME UInv, Outcome, Ordered, Walk, Told, Copied, feed = "pack", Unmarked(src), StoreFile
    PROVE  /\ \A q \in Paths : Exists(vol', q) <=> q \in Came \cup {Entry.path}
           /\ CopyOf(vol', Came \cup {Entry.path})
<1> DEFINE p == Entry.path
           n == InodeAt(src, p)
           whole == Node("file", pending, Entry.attr, Entry.labels, Entry.time)
<1>1. /\ at = "contents" /\ left = 0 /\ Sound(vol) /\ InPlace /\ Arrived /\ src \in SourceTrees
      /\ vol' = IF streaming THEN [vol EXCEPT !.inodes[vol.names[p]] = whole]
                ELSE Make(vol, p, whole)
  BY DEF StoreFile, ContentsRead, Stored, UInv, Walk
<1>2. answer = "entry" /\ Entry.kind = "file"
  BY <1>1, LeftIs DEF UInv, InHandOrBroken, InPlace
<1>3. pending = Contents(Entry)
  <2>1. Good(Entry) /\ Entry.size \in Nat /\ pending = SubSeq(Contents(Entry), 1, Entry.size - 0)
    BY <1>1, <1>2 DEF Arrived, Good
  <2>2. Row(Contents(Entry)) /\ Len(Contents(Entry)) = Entry.size /\ Entry.size - 0 = Entry.size
    BY <2>1, ContentsRow
  <2> QED  BY <2>1, <2>2, SubSeqFull DEF Row
<1>4. /\ p \in Paths /\ p \notin Came /\ p # << >> /\ Tells(Entry) /\ Came \subseteq Paths
      /\ \A q \in Came : src.names[q] # src.names[p]
  BY <1>2, InHandIs
<1>5. /\ n.attr = Entry.attr /\ n.time = Entry.time /\ n.kind = "file" /\ n.labels = Entry.labels
      /\ Entry.size = Len(n.data) /\ n.data = Contents([attr |-> n.attr, size |-> Len(n.data)])
  <2>1. Exists(src, p) /\ n.kind = "file"
    BY <1>2, <1>4 DEF Tells
  <2>2. n.data = Contents([attr |-> n.attr, size |-> Len(n.data)])
    BY <1>1, <1>4, <2>1, SourceIs
  <2> QED  BY <1>2, <1>4, <2>1, <2>2 DEF Tells
<1>6. n.data = Contents(Entry)
  <2>1. [attr |-> n.attr, size |-> Len(n.data)] = [attr |-> Entry.attr, size |-> Entry.size]
    BY <1>5
  <2>2. Contents([attr |-> Entry.attr, size |-> Entry.size]) = Contents(Entry)
    BY DEF Contents
  <2> QED  BY <1>5, <2>1, <2>2
<1>7. Live(whole) /\ Alike(n, whole)
  BY <1>3, <1>5, <1>6 DEF Live, Node, Kinds, Alike, SameNode
<1> HIDE DEF whole, n
<1>8. CASE ~streaming
  <2>1. vol' = Make(vol, p, whole) /\ vol.names[p] = Absent
    BY <1>1, <1>4, <1>8, ShownIs DEF InPlace
  <2>2. (\A q \in Paths : Exists(vol, q) <=> q \in Came) /\ CopyOf(vol, Came)
    BY <1>1, <1>8 DEF Copied, There
  <2>3. Sound(vol) /\ Live(whole) /\ Alike(InodeAt(src, p), whole)
    BY <1>1, <1>7 DEF n
  <2>4. /\ \A q \in Paths : Exists(Make(vol, p, whole), q) <=> q \in Came \cup {p}
        /\ CopyOf(Make(vol, p, whole), Came \cup {p})
    BY <1>4, <2>1, <2>2, <2>3, MakeCopies
  <2> QED  BY <2>1, <2>4
<1>9. CASE streaming
  <2> DEFINE w == [vol EXCEPT !.inodes[vol.names[p]] = whole]
  <2>1. vol' = w /\ Exists(vol, p) /\ NamesOf(vol, vol.names[p]) = {p}
    BY <1>1, <1>4, <1>9, ShownIs, DirectoryIsThere DEF InPlace
  <2>2. /\ \A q \in Paths : Exists(vol, q) <=> q \in Came \cup {p}
        /\ CopyOf(vol, Came)
    BY <1>1, <1>9 DEF Copied, There
  <2>3. /\ w.names = vol.names /\ InodeAt(w, p) = whole
        /\ \A q \in Paths : vol.names[q] = vol.names[p] => InodeAt(w, q) = whole
        /\ \A q \in Paths : Exists(vol, q) /\ vol.names[q] # vol.names[p] => Stays(vol, w, q)
        /\ NamesOf(vol, vol.names[p]) = {p} => Firm(vol, w, {p})
        /\ IsDir(vol, p) /\ whole.kind = "dir" => Firm(vol, w, {})
        /\ Lone(vol) /\ (whole.kind = "dir" => IsDir(vol, p)) => Lone(w)
    BY <1>1, <1>4, <1>7, <2>1, RewriteLeaves
  <2> HIDE DEF w
  <2>4. \A q \in Came : q # p /\ q \in Paths /\ Exists(vol, q)
    BY <1>4, <2>2
  <2>5. \A q \in Came : vol.names[q] # vol.names[p]
    BY <2>1, <2>4 DEF NamesOf
  <2>6. \A q \in Came : InodeAt(w, q) = InodeAt(vol, q)
    BY <2>3, <2>4, <2>5 DEF Stays
  <2>7. \A q \in Came : q # p /\ Alike(InodeAt(src, q), InodeAt(w, q))
    BY <2>2, <2>4, <2>6 DEF CopyOf
  <2>8. \A q \in Came : src.names[q] = src.names[p] <=> w.names[q] = w.names[p]
    BY <1>4, <2>3, <2>5
  <2>9. Exists(w, p) /\ Alike(InodeAt(src, p), InodeAt(w, p))
    BY <1>4, <1>7, <2>1, <2>3 DEF Exists, n
  <2>10. /\ \A q \in Paths : q # p => w.names[q] = vol.names[q]
         /\ \A q \in Paths : q # p => (Exists(vol, q) <=> q \in Came)
    BY <2>2, <2>3
  <2>11. /\ \A q \in Paths : Exists(w, q) <=> q \in Came \cup {p}
         /\ CopyOf(w, Came \cup {p})
    BY <1>4, <2>2, <2>7, <2>8, <2>9, <2>10, CopyGrows
  <2> QED  BY <2>1, <2>11
<1> QED  BY <1>8, <1>9

\* In the end the directories get their times.
LEMMA RestampCopied ==
    ASSUME UInv, Outcome, Ordered, Told, feed = "pack", Restamp, CopyOf(vol, Came),
           \A q \in Paths : Exists(vol, q) <=> q \in Came, Came \subseteq Paths
    PROVE  /\ \A q \in Paths : Exists(vol', q) <=> q \in Came
           /\ CopyOf(vol', Came)
<1> DEFINE h == Head(deferred)
           x == h.path
           old == InodeAt(vol, x)
           node == Node(old.kind, old.data, h.attr, h.labels,
                        IF h.time # 0 THEN h.time ELSE old.time)
           u == [vol EXCEPT !.inodes[vol.names[x]] = node]
<1>1. at = "restamping" /\ deferred # << >> /\ Exists(vol, x) /\ vol' = u
  BY Zenon DEF Restamp, Stamp
<1>2. /\ Sound(vol) /\ Row(deferred) /\ \A m \in 1 .. Len(deferred) : deferred[m].path \in Paths
      /\ Lone(vol) /\ Origin
  BY <1>1 DEF UInv, Deferred, Outcome
<1>3. h = deferred[1] /\ 1 \in 1 .. Len(deferred)
  <2>1. PICK n \in Nat : Len(deferred) = n + 1 /\ h = deferred[1]
    BY <1>1, <1>2, TailIs
  <2> QED  BY <2>1
<1>4. PICK j \in 1 .. Len(got) : got[j].kind = "dir" /\ h = got[j]
  BY <1>2, <1>3 DEF Origin
<1>5. Tells(h) /\ x \in Paths
  BY <1>4, GotTells
<1>6. h.kind = "dir"
  BY <1>4
<1> HIDE DEF h
<1>7. InodeAt(src, x).kind = "dir" /\ InodeAt(src, x).time = h.time
  BY <1>5, <1>6 DEF Tells
<1>8. x \in Came /\ x # << >> /\ Alike(InodeAt(src, x), old)
  BY <1>1, <1>5, PathLength DEF CopyOf
<1>9. old.kind = "dir" /\ old.time \in {0, h.time} /\ IsDir(vol, x)
  BY <1>1, <1>7, <1>8 DEF Alike, IsDir
<1>10. Live(old)
  BY <1>1, <1>2, <1>5, ShownIs DEF InodeAt
<1> HIDE DEF old
<1>11. Live(node) /\ node.kind = "dir" /\ node.time \in {0, h.time}
  BY <1>9, <1>10 DEF Live, Node, Kinds
<1> HIDE DEF node
<1>12. /\ u.names = vol.names /\ InodeAt(u, x) = node
       /\ \A q \in Paths : vol.names[q] = vol.names[x] => InodeAt(u, q) = node
       /\ \A q \in Paths : Exists(vol, q) /\ vol.names[q] # vol.names[x] => Stays(vol, u, q)
       /\ NamesOf(vol, vol.names[x]) = {x} => Firm(vol, u, {x})
       /\ IsDir(vol, x) /\ node.kind = "dir" => Firm(vol, u, {})
       /\ Lone(vol) /\ (node.kind = "dir" => IsDir(vol, x)) => Lone(u)
  BY <1>1, <1>2, <1>5, <1>11, RewriteLeaves
<1> HIDE DEF u
<1>13. ASSUME NEW q \in Came  PROVE Alike(InodeAt(src, q), InodeAt(u, q))
  <2>1. CASE q = x
    BY <1>7, <1>11, <1>12, <2>1 DEF Alike
  <2>2. CASE q # x
    <3>1. q \in Paths /\ Exists(vol, q) /\ vol.names[q] # vol.names[x]
      BY <1>2, <1>5, <1>9, <1>13, <2>2 DEF Lone
    <3> QED  BY <1>12, <1>13, <3>1 DEF Stays, CopyOf
  <2> QED  BY <2>1, <2>2
<1>14. CopyOf(u, Came)
  BY <1>12, <1>13 DEF CopyOf
<1>15. \A q \in Paths : Exists(u, q) <=> q \in Came
  BY <1>12 DEF Exists
<1> QED  BY <1>1, <1>14, <1>15

\* What is said of the volume after a step is said of what it then is.
LEMMA CopiedThen ==
    ASSUME feed' = feed, src' = src,
           feed = "pack" /\ Unmarked(src) /\ at' # "failed" =>
               /\ \A p \in Paths : Exists(vol', p) <=> p \in There'
               /\ CopyOf(vol', Came')
    PROVE  Copied'
BY DEF Copied, CopyOf, Unmarked, Exists, InodeAt, Alike, SameNode

\* Nobody changes the tree that is packed.
LEMMA SourceStays ==
    ASSUME [Next]_vars
    PROVE  feed' = feed /\ src' = src
<1>1. CASE Packs
  BY <1>1 DEF Packs, PackStep, Up, PackAgain, PackDir, PackLeaf, PackContents, PackEnds, packVars
<1>2. CASE ToolWrites
  BY <1>2, Zenon DEF ToolWrites, packVars
<1>3. CASE Breaks \/ Reads \/ Unpacks \/ UNCHANGED vars
  BY <1>3 DEF Breaks, Reads, Unpacks, vars, packVars
<1> QED  BY <1>1, <1>2, <1>3 DEF Next, Finished

\* Every step.
LEMMA NextCopied ==
    ASSUME Spills = {}, UInv, UInv', Outcome, Walk, Ordered, Told, Copied, [Next]_vars
    PROVE  Copied'
<1>1. feed' = feed /\ src' = src
  BY SourceStays
<1> SUFFICES ASSUME feed = "pack", Unmarked(src)  PROVE Copied'
  BY <1>1, CopiedThen
<1>2. Inv /\ Inv' /\ Arrived /\ InHandOrBroken
  BY LeftIs DEF UInv
<1>3. CASE Packs \/ ToolWrites \/ Breaks \/ UNCHANGED vars
  <2>1. UNCHANGED readerVars /\ UNCHANGED unpackVars
    <3>1. CASE Packs
      BY <3>1, PackWrites DEF Packs
    <3>2. CASE ToolWrites
      <4>1. UNCHANGED unpackVars
        BY <3>2, Zenon DEF ToolWrites
      <4> QED  BY <3>2, <4>1, ToolDoes
    <3>3. CASE Breaks \/ UNCHANGED vars
      BY <3>3 DEF Breaks, Break, vars, streamVars
    <3> QED  BY <1>3, <3>1, <3>2, <3>3
  <2>2. /\ vol' = vol /\ at' = at /\ streaming' = streaming /\ got' = got /\ answer' = answer
    BY <2>1 DEF unpackVars, readerVars
  <2>3. Came' = Came /\ There' = There
    BY <2>2 DEF Came, There, Settled, Entry
  <2> QED  BY <1>1, <2>2, <2>3, CopiedThen DEF Copied
<1>4. CASE Reads
  <2>1. answer = "asked" /\ UNCHANGED unpackVars /\ ReaderStep
    BY <1>4, ReaderFrame DEF Reads
  <2>2. /\ vol' = vol /\ at' = at /\ pending' = pending /\ at # "contents"
    BY <1>2, <2>1 DEF unpackVars, InHandOrBroken
  <2>3. /\ answer' = "entry" => got' = Append(got, Entry')
        /\ answer' # "entry" => got' = got
    BY <1>1, <1>2, <2>1, <2>2, ReadsArrived
  <2>4. Row(got) /\ Len(got) \in Nat
    BY GotTells
  <2>5. /\ Settled = Len(got) /\ Settled' = Len(got)
        /\ \A k \in 1 .. Len(got) : got'[k] = got[k]
    <3>1. CASE answer' = "entry"
      <4>1. got' = Append(got, Entry')
        BY <2>3, <3>1
      <4>2. Len(got') = Len(got) + 1 /\ \A k \in 1 .. Len(got) : got'[k] = got[k]
        BY <2>4, <4>1, Appended
      <4> QED  BY <2>1, <2>4, <3>1, <4>2 DEF Settled
    <3>2. CASE answer' # "entry"
      BY <2>1, <2>3, <3>2 DEF Settled
    <3> QED  BY <3>1, <3>2
  <2>6. Came' = Came
    BY <2>5 DEF Came
  <2>7. There' = There
    BY <2>2, <2>6 DEF There
  <2> QED  BY <1>1, <2>2, <2>6, <2>7, CopiedThen DEF Copied
<1>5. CASE Unpacks
  <2>1. CASE SkipRoot \/ Whiteout \/ PlaceDir \/ PlaceSymlink \/ PlaceDevice \/ PlaceLink
    <3>1. /\ answer = "entry" /\ answer' = "asked" /\ got' = got /\ at' = "entries"
      BY <2>1 DEF SkipRoot, Whiteout, PlaceDir, PlaceSymlink, PlaceDevice, PlaceLink, Handled,
                  IsEntry, IsMarked, Here, AskNext
    <3>2. Came' = Came \cup {Entry.path} /\ There' = Came'
      BY <3>1, InHandIs DEF There
    <3>3. /\ \A q \in Paths : Exists(vol', q) <=> q \in Came \cup {Entry.path}
          /\ CopyOf(vol', Came \cup {Entry.path})
      BY <2>1, EntryCopied
    <3> QED  BY <1>1, <3>2, <3>3, CopiedThen
  <2>2. CASE ClearForFile
    <3>1. /\ Here /\ vol' = Cleared /\ streaming' = FALSE /\ answer = "entry"
          /\ answer' = answer /\ got' = got
      BY <2>2 DEF ClearForFile, IsEntry, Here, streamVars, readerVars
    <3>2. Came' = Came /\ There' = Came'
      BY <3>1, InHandIs DEF There
    <3>3. /\ vol' = vol /\ CopyOf(vol, Came) /\ \A q \in Paths : Exists(vol, q) <=> q \in Came
      BY <3>1, PlaceIsFree
    <3> QED  BY <1>1, <3>2, <3>3, CopiedThen
  <2>3. ASSUME NEW m \in 1 .. Chunk, ReadContents(m)  PROVE Copied'
    <3>1. vol' = vol /\ at' = at /\ streaming' = streaming /\ answer' = answer /\ got' = got
      BY <2>3 DEF ReadContents
    <3>2. Came' = Came /\ There' = There
      BY <3>1 DEF Came, There, Settled, Entry
    <3> QED  BY <1>1, <3>1, <3>2, CopiedThen DEF Copied
  <2>4. CASE CreateEmpty
    <3>1. at = "contents" /\ at' = at /\ streaming' = TRUE /\ answer' = answer /\ got' = got
      BY <2>4 DEF CreateEmpty, streamVars, readerVars
    <3>2. answer = "entry"
      BY <1>2, <3>1 DEF InHandOrBroken
    <3>3. Came' = Came /\ Entry.path \notin Came /\ Came \subseteq Paths
      BY <3>1, <3>2, InHandIs
    <3>4. There' = Came \cup {Entry.path}
      BY <3>1, <3>3 DEF There, Entry
    <3>5. /\ \A q \in Paths : Exists(vol', q) <=> q \in Came \cup {Entry.path}
          /\ CopyOf(vol', Came)
      BY <2>4, <3>3, EmptyCopied
    <3> QED  BY <1>1, <3>3, <3>4, <3>5, CopiedThen
  <2>5. CASE StoreFile
    <3>1. at = "contents" /\ answer' = "asked" /\ got' = got /\ at' = "entries"
      BY <2>5 DEF StoreFile, ContentsRead, AskNext
    <3>2. answer = "entry"
      BY <1>2, <3>1 DEF InHandOrBroken
    <3>3. Came' = Came \cup {Entry.path} /\ There' = Came'
      BY <3>1, <3>2, InHandIs DEF There
    <3>4. /\ \A q \in Paths : Exists(vol', q) <=> q \in Came \cup {Entry.path}
          /\ CopyOf(vol', Came \cup {Entry.path})
      BY <2>5, FileCopied
    <3> QED  BY <1>1, <3>3, <3>4, CopiedThen
  <2>6. CASE ArchiveEnds \/ Done
    <3>1. /\ vol' = vol /\ answer' = answer /\ got' = got /\ at # "failed"
          /\ at # "contents" /\ at' # "contents"
      BY <2>6 DEF ArchiveEnds, Done, streamVars, readerVars
    <3>2. Came' = Came /\ There' = There
      BY <3>1 DEF Came, There, Settled
    <3> QED  BY <1>1, <3>1, <3>2, CopiedThen DEF Copied
  <2>7. CASE Restamp
    <3>1. at = "restamping" /\ at' = at /\ answer' = answer /\ got' = got
      BY <2>7, Zenon DEF Restamp, streamVars, readerVars
    <3>2. Came' = Came /\ There' = Came' /\ There = Came
      BY <3>1 DEF Came, There, Settled
    <3>3. CopyOf(vol, Came) /\ \A q \in Paths : Exists(vol, q) <=> q \in Came
      BY <3>1, <3>2 DEF Copied
    <3>4. Came \subseteq Paths
      <4>1. answer = "end"
        BY <1>2, <3>1 DEF InHandOrBroken
      <4> QED  BY <4>1, GotTells DEF Came, Settled
    <3>5. (\A q \in Paths : Exists(vol', q) <=> q \in Came) /\ CopyOf(vol', Came)
      BY <2>7, <3>3, <3>4, RestampCopied
    <3> QED  BY <1>1, <3>2, <3>5, CopiedThen
  <2>8. CASE EntryFails \/ ContentsFail \/ NextFails \/ RestampFails
    <3>1. at' = "failed"
      BY <2>8 DEF EntryFails, ContentsFail, NextFails, RestampFails, Stops
    <3> QED  BY <1>1, <3>1, CopiedThen
  <2> QED  BY <1>5, <2>1, <2>2, <2>3, <2>4, <2>5, <2>6, <2>7, <2>8 DEF Unpacks, UnpackStep
<1>6. CASE Finished
  BY <1>3, <1>6 DEF Finished
<1> QED  BY <1>3, <1>4, <1>5, <1>6 DEF Next

\* At first nothing is there, and nothing has come.
LEMMA InitCopied == Init => Copied
<1> SUFFICES ASSUME Init, feed = "pack"  PROVE Copied
  BY DEF Copied
<1>1. vol = EmptyVolume /\ at = "entries" /\ got = << >> /\ answer = "asked"
  BY DEF Init, UnpackInit
<1>2. Settled = 0
  BY <1>1, EmptyRow DEF Settled
<1>3. Came = {} /\ There = {}
  BY <1>1, <1>2 DEF Came, There
<1>4. \A p \in Paths : ~Exists(vol, p)
  BY <1>1, PathLength DEF EmptyVolume, Exists
<1> QED  BY <1>3, <1>4 DEF Copied, CopyOf

\* In an archive of our own that is read to its end are all paths of the tree.
LEMMA AllCame ==
    ASSUME UInv, Outcome, Walk, Ordered, Told, feed = "pack", at = "done", ~cut
    PROVE  /\ got = sent /\ Settled = Len(got) /\ There = Came
           /\ \A p \in Paths : Exists(src, p) <=> p \in Came
           /\ Came \subseteq Paths
<1>1. answer = "end"
  BY LeftIs DEF UInv, InHandOrBroken
<1>2. got = sent
  BY <1>1 DEF UInv, Inv, Stream, InHand, Between, ReadWhole
<1>3. Settled = Len(got) /\ Came = PathsOf(sent) /\ There = Came
  BY <1>1, <1>2 DEF Settled, Came, PathsOf, There
<1>4. stack = << >> /\ Waiting(stack) = {}
  <2>1. stack = << >>
    BY <1>1 DEF Told
  <2> QED  BY <2>1, EmptyRow DEF Waiting
<1>5. \A p \in Came : p \in Paths /\ Exists(src, p)
  BY <1>2, <1>3, GotTells DEF PathsOf, Tells
<1>6. ASSUME NEW p \in Paths, Exists(src, p), p \notin Came  PROVE FALSE
  <2> DEFINE B == {q \in Paths : Exists(src, q) /\ q \notin Came}
             T == {Len(q) : q \in B}
  <2>1. T \in SUBSET Nat /\ T # {}
    BY <1>6, PathLength
  <2>2. PICK t \in T : \A y \in T : t <= y
    BY <2>1, LeastNumber
  <2>3. PICK q \in B : \A r \in B : Len(q) <= Len(r)
    BY <2>2
  <2>4. Len(q) > 1 => Parent(q) \in Came
    <3> SUFFICES ASSUME Len(q) > 1  PROVE Parent(q) \in Came
      OBVIOUS
    <3>1. Parent(q) \in Ancestors(q) /\ Parent(q) \in Paths
      BY ParentIs
    <3>2. Exists(src, Parent(q))
      BY <3>1, SourceIs, ShownIs, DirectoryIsThere DEF Walk, Shaped
    <3>3. Len(Parent(q)) = Len(q) - 1 /\ Len(q) \in Nat
      BY ParentIs, PathLength
    <3>4. ~(Len(q) <= Len(Parent(q)))
      BY <3>3
    <3> QED  BY <2>3, <3>1, <3>2, <3>4
  <2>5. q \in PathsOf(sent) \cup Waiting(stack)
    BY <1>3, <2>4 DEF Told, NoneForgotten
  <2> QED  BY <1>3, <1>4, <2>5
<1> QED  BY <1>2, <1>3, <1>5, <1>6

\* They all are what they were.
LEMMA RoundTripIs ==
    ASSUME UInv, Outcome, Walk, Ordered, Told, Copied  PROVE RoundTrip
<1> SUFFICES ASSUME feed = "pack", at = "done", ~cut, Unmarked(src)
             PROVE  \A p \in Paths :
                       /\ Exists(src, p) = Exists(vol, p)
                       /\ Exists(src, p) => SameNode(InodeAt(src, p), InodeAt(vol, p))
                       /\ \A q \in Paths :
                             (src.names[p] = src.names[q]) = (vol.names[p] = vol.names[q])
  BY DEF RoundTrip
<1>1. /\ got = sent /\ Settled = Len(got) /\ There = Came /\ Came \subseteq Paths
      /\ \A p \in Paths : Exists(src, p) <=> p \in Came
  BY AllCame
<1>2. (\A p \in Paths : Exists(vol, p) <=> p \in Came) /\ CopyOf(vol, Came)
  BY <1>1 DEF Copied
<1>3. Sound(vol) /\ Sound(src) /\ src \in SourceTrees /\ Lone(src)
  BY SourceIs DEF UInv, Walk
<1>4. \A p \in Paths : /\ src.names[p] # Absent <=> p \in Came
                       /\ vol.names[p] # Absent <=> p \in Came
  BY <1>1, <1>2, <1>3, ShownIs
<1>5. \A p, q \in Paths : (src.names[p] = src.names[q]) = (vol.names[p] = vol.names[q])
  BY <1>2, <1>4 DEF CopyOf
<1>6. PICK n \in Nat : n = Len(got) /\ n = Len(sent)
  BY <1>1, GotTells
<1>7. \A j, k \in 1 .. n : j < k => got[j].path # got[k].path
  BY <1>1, <1>6, NotBeforeItself DEF Ordered
<1>8. Consistent
  BY <1>6, <1>7 DEF Consistent
<1>9. ASSUME NEW p \in Came  PROVE SameNode(InodeAt(src, p), InodeAt(vol, p))
  <2> DEFINE a == InodeAt(src, p)
             b == InodeAt(vol, p)
  <2>1. Alike(a, b) /\ p \in Paths /\ Exists(src, p) /\ Exists(vol, p)
    BY <1>1, <1>2, <1>9 DEF CopyOf
  <2>2. CASE a.kind # "dir"
    BY <2>1, <2>2 DEF Alike
  <2>3. CASE a.kind = "dir"
    <3> DEFINE k == Max(EntriesFor(p))
               h == got[k]
    <3>1. EntriesFor(p) # {} /\ EntriesFor(p) \in SUBSET (1 .. n)
      BY <1>1, <1>6, <1>9 DEF EntriesFor, Came
    <3>2. k \in 1 .. n /\ h.path = p
      BY <1>6, <3>1, MaxIs DEF EntriesFor
    <3>3. h.kind \in {"dir", "file", "device"} /\ b.kind = h.kind => AsSaid(b, h)
      <4>1. LastWord /\ Last(p) \notin Markers
        BY <2>1, LastWordIs DEF Unmarked
      <4>2. LastWordHolds(p)
        BY <1>8, <2>1, <4>1 DEF LastWord
      <4> QED  BY <2>1, <3>1, <4>2 DEF LastWordHolds
    <3> HIDE DEF k
    <3>4. Tells(h)
      BY <1>6, <3>2, GotTells
    <3>5. h.kind # "hardlink"
      <4> SUFFICES ASSUME h.kind = "hardlink"  PROVE FALSE
        OBVIOUS
      <4>1. PICK j \in 1 .. k - 1 : src.names[sent[j].path] = src.names[sent[k].path]
        BY <1>1, <1>6, <3>2 DEF Ordered
      <4>2. j \in 1 .. n /\ j < k
        BY <3>2, <4>1
      <4>3. got[j].path \in Paths /\ src.names[got[j].path] = src.names[p]
        BY <1>1, <1>6, <3>2, <4>1, <4>2, GotTells
      <4>4. got[j].path = p
        BY <1>3, <2>1, <2>3, <4>3, PathLength DEF Lone, IsDir
      <4> QED  BY <1>7, <3>2, <4>2, <4>4
    <3> HIDE DEF h
    <3>6. a.kind = h.kind /\ a.attr = h.attr /\ a.time = h.time /\ a.labels = h.labels
      BY <2>3, <3>2, <3>4, <3>5 DEF Tells
    <3>7. b.kind = "dir" /\ b.time \in {0, a.time}
      BY <2>1, <2>3 DEF Alike
    <3>8. b.attr = a.attr /\ b.labels = a.labels /\ b.time = a.time
      BY <2>3, <3>3, <3>6, <3>7 DEF AsSaid
    <3>9. a.data = << >> /\ b.data = << >>
      <4>1. Live(b)
        BY <1>3, <2>1, ShownIs DEF InodeAt
      <4> QED  BY <1>3, <2>1, <2>3, <3>7, <4>1, SourceIs DEF Live
    <3> QED  BY <2>3, <3>7, <3>8, <3>9 DEF SameNode
  <2> QED  BY <2>2, <2>3
<1>10. \A p \in Paths : Exists(src, p) = Exists(vol, p)
  BY <1>1, <1>2 DEF Exists
<1> QED  BY <1>1, <1>5, <1>9, <1>10

\* A tree that pack_into writes and unpack_stream reads comes back, if no name of it is a marker's
\* and the stream does not break off: every path, its kind, contents and target, which names
\* share an inode, and but for symlinks mode, owner, extended attributes and time.
THEOREM TreeComesBack ==
    ASSUME Spills = {}
    PROVE  Spec => []RoundTrip
<1>1. /\ UInv /\ Inv /\ Walk /\ Ordered /\ Told /\ [Next]_vars => Told'
      /\ UInv /\ UInv' /\ Outcome /\ Walk /\ Ordered /\ Told /\ Copied /\ [Next]_vars => Copied'
  BY NextTold, NextCopied
<1>2. UInv => Inv
  BY DEF UInv
<1> QED  BY <1>1, <1>2, InitOrdered, NextInOrder, InitTold, InitCopied, UnpackInv, OutcomeInv,
            RoundTripIs, PTL DEF Spec
=============================================================================
