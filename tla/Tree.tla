-------------------------------- MODULE Tree --------------------------------
(***************************************************************************)
(* A volume as archives see it (volume.rs): paths name inodes, an inode    *)
(* may have several names, and every change goes through a path.  How the  *)
(* names and inodes are written is Namespace and FileMap; here each call   *)
(* happens at once, since packing and unpacking own the volume while they  *)
(* run.  A path is a sequence of names; the root is << >> and always there.*)
(***************************************************************************)
EXTENDS Naturals, Sequences, SequencesExt, FiniteSets, FiniteSetsExt

CONSTANTS
    Paths,          \* the paths of the volume, the root left out
    Absent          \* what a path that names nothing names

ASSUME PathsAssumption ==
    /\ IsFiniteSet(Paths)
    /\ \A p \in Paths : p # << >> /\ (Len(p) > 1 => Front(p) \in Paths)
    /\ Absent \notin Nat

Inodes == 1..Cardinality(Paths)

\* An inode: attr is its mode and owner, labels its extended attributes, and
\* time its mtime, 0 standing for the time the volume stamps on a change.
Free == [kind |-> "free", data |-> << >>, attr |-> 0, labels |-> {}, time |-> 0]
Node(kind, data, attr, labels, time) ==
    [kind |-> kind, data |-> data, attr |-> attr, labels |-> labels, time |-> time]

\* Attrs::dir(): what mkdir_all gives the directories it has to make.
DefaultAttr == 0

EmptyVolume ==
    [names |-> [p \in Paths |-> Absent], inodes |-> [i \in Inodes |-> Free]]

Exists(v, p) == IF p = << >> THEN TRUE ELSE v.names[p] # Absent
InodeAt(v, p) == v.inodes[v.names[p]]
IsDir(v, p) == IF p = << >> THEN TRUE ELSE Exists(v, p) /\ InodeAt(v, p).kind = "dir"

Parent(p) == Front(p)
Under(p) == {q \in Paths : IsPrefix(p, q)}
Children(v, p) == {q \in Paths : Parent(q) = p /\ Exists(v, q)}

\* Every directory on the way to p is there and is one, so that p can be
\* looked up and made.
Reachable(v, p) == \A n \in 1..Len(p) - 1 : IsDir(v, SubSeq(p, 1, n))

NamesOf(v, i) == {p \in Paths : v.names[p] = i}

\* unlink and rmdir of every name of gone: an inode is given back with its
\* last name, and the directory a name leaves changes.
Without(v, gone) ==
    LET present == {p \in gone : Exists(v, p)}
        changed == {v.names[Parent(p)] : p \in {q \in present : Len(q) > 1}}
        left(i) == NamesOf(v, i) \ gone
    IN  [names  |-> [p \in Paths |-> IF p \in gone THEN Absent ELSE v.names[p]],
         inodes |-> [i \in Inodes |->
                        IF left(i) = {} THEN Free
                        ELSE IF i \in changed THEN [v.inodes[i] EXCEPT !.time = 0]
                        ELSE v.inodes[i]]]

\* Volume::remove_all.
RemoveAll(v, p) == Without(v, Under(p))

\* Give p a fresh inode: write_with, symlink and mknod on a name that is free.
\* The parent's block has room for the name, so the parent does not change.
Make(v, p, node) ==
    LET i == CHOOSE j \in Inodes : NamesOf(v, j) = {}
    IN  [names |-> [v.names EXCEPT ![p] = i], inodes |-> [v.inodes EXCEPT ![i] = node]]

\* mkdir_with: the parent counts one more '..' and is written again.
MakeDir(v, p, attr) ==
    LET made == Make(v, p, Node("dir", << >>, attr, {}, 0))
    IN  IF Len(p) = 1 THEN made
        ELSE [made EXCEPT !.inodes[v.names[Parent(p)]].time = 0]

\* Volume::mkdir_all: every missing directory along p, the outermost first.
MakeAll(v, p) ==
    FoldLeft(LAMBDA u, n : IF Exists(u, SubSeq(p, 1, n)) THEN u
                           ELSE MakeDir(u, SubSeq(p, 1, n), DefaultAttr),
             v, [n \in 1..Len(p) |-> n])

\* Volume::link.
Link(v, target, p) == [v EXCEPT !.names[p] = v.names[target]]

\* chmod, chown, write_xattrs and, unless the time is unknown, set_times, on
\* whatever inode p names.
Stamp(v, p, attr, labels, time) ==
    LET old == InodeAt(v, p)
    IN  [v EXCEPT !.inodes[v.names[p]] =
            Node(old.kind, old.data, attr, labels, IF time # 0 THEN time ELSE old.time)]
=============================================================================
