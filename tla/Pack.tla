-------------------------------- MODULE Pack --------------------------------
(***************************************************************************)
(* Packing a volume into an archive (volume.rs: pack_into).  A stack of    *)
(* directories, each with the names it has left, walks the tree depth      *)
(* first and in order; the second name of an inode becomes a hard link to  *)
(* the first.                                                              *)
(***************************************************************************)
EXTENDS Tree, TarStream

CONSTANT NameOrder      \* the names of one directory, in order

ASSUME OrderAssumption ==
    /\ NameOrder \in Seq(ToSet(NameOrder)) /\ "." \notin ToSet(NameOrder)
    /\ \A j, k \in 1..Len(NameOrder) : NameOrder[j] = NameOrder[k] => j = k
    /\ Paths \subseteq Seq(ToSet(NameOrder))

VARIABLES
    src,            \* the volume that is packed, which packing does not change
    stack,          \* the directories being walked, each with its paths to come
    seen            \* the first name written for an inode that has several

packVars == <<src, stack, seen>>

NamePlace(n) == CHOOSE k \in 1..Len(NameOrder) : NameOrder[k] = n

\* Paths of one directory by name: a path's place is the number not after it.
InOrder(paths) ==
    LET rank(p) == Cardinality({q \in paths : NamePlace(Last(q)) <= NamePlace(Last(p))})
    IN  [k \in 1..Cardinality(paths) |-> CHOOSE p \in paths : rank(p) = k]

\* Mutant: the names reversed and taken from the front.
ChildrenBackwards(dir) == Reverse(InOrder(Children(src, dir)))

\* sorted_children.
SortedChildren(dir) == InOrder(Children(src, dir))

PackFrom(volume) ==
    /\ src = volume
    /\ stack = <<InOrder(Children(volume, << >>))>>
    /\ seen = << >>

Pending == Last(stack)
Path == Head(Pending)
Stat == InodeAt(src, Path)
Inode == src.names[Path]

\* The walk goes on behind Path.
Walked == [stack EXCEPT ![Len(stack)] = Tail(@)]

CanPack == stack # << >> /\ Pending # << >> /\ owed = 0

PackedAs(kind, size, link, labels) ==
    Header(Path, kind, Stat.attr, Stat.time, size, link, labels)

\* A level that is done.
Up ==
    /\ stack # << >> /\ Pending = << >> /\ owed = 0
    /\ stack' = Front(stack)
    /\ UNCHANGED <<src, seen, streamVars>>

\* A later name of an inode that was written under another.
PackAgain ==
    /\ CanPack /\ Inode \in DOMAIN seen
    /\ Start(PackedAs("hardlink", 0, seen[Inode], {}))
    /\ stack' = Walked
    /\ UNCHANGED <<src, seen>>

\* A directory, its children next.
PackDir ==
    /\ CanPack /\ Stat.kind = "dir"
    /\ Start(PackedAs("dir", 0, << >>, Stat.labels))
    /\ stack' = Append(Walked, SortedChildren(Path))
    /\ UNCHANGED <<src, seen>>

\* Mutant: an inode's first name is not remembered.
PackLeafForgets ==
    /\ CanPack /\ Stat.kind # "dir"
    /\ Start(CASE Stat.kind = "file" -> PackedAs("file", Len(Stat.data), << >>, Stat.labels)
               [] Stat.kind = "symlink" -> PackedAs("symlink", 0, Stat.data, {})
               [] OTHER -> PackedAs(Stat.kind, 0, << >>, Stat.labels))
    /\ stack' = Walked
    /\ UNCHANGED <<src, seen>>

\* The first name of anything else.
PackLeaf ==
    /\ CanPack /\ Stat.kind # "dir" /\ Inode \notin DOMAIN seen
    /\ Start(CASE Stat.kind = "file" -> PackedAs("file", Len(Stat.data), << >>, Stat.labels)
               [] Stat.kind = "symlink" -> PackedAs("symlink", 0, Stat.data, {})
               [] OTHER -> PackedAs(Stat.kind, 0, << >>, Stat.labels))
    /\ seen' = IF Cardinality(NamesOf(src, Inode)) > 1
               THEN [i \in DOMAIN seen \cup {Inode} |-> IF i = Inode THEN Path ELSE seen[i]]
               ELSE seen
    /\ stack' = Walked
    /\ UNCHANGED src

\* append writes the contents in one piece.
PackContents == Write(owed) /\ UNCHANGED packVars

PackEnds == stack = << >> /\ Finish /\ UNCHANGED packVars

PackStep == Up \/ PackAgain \/ PackDir \/ PackLeaf \/ PackContents \/ PackEnds
=============================================================================
