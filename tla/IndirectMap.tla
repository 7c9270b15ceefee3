---------------------------- MODULE IndirectMap ----------------------------
(***************************************************************************)
(* The pointers of a block-mapped file: write_indirect_map (map.rs) builds *)
(* a map for a list of blocks, one map block at a time, and the library    *)
(* walks it back.                                                          *)
(*                                                                         *)
(* FileMap has what a map takes and gives back; this module has where the  *)
(* pointers go.  A block of pointers is written when it is full or the     *)
(* list ends, and only then named by the one above it; the inode gets its  *)
(* pointers last of all.                                                   *)
(***************************************************************************)
EXTENDS IndirectSize, Sequences, FiniteSets, TLC

CONSTANT MaxLength   \* bound: the longest list

ASSUME IndirectAssumption ==
    Direct \in Nat /\ PerBlock \in Nat \ {0} /\ MaxLength \in Nat

VARIABLES
    list,            \* the file's blocks in order, HOLE where it has none
    at,              \* how many of them have been placed
    level,           \* 1 .. 3: the level of indirection being built
    open,            \* the index blocks begun and not written, outermost first:
                     \* the block and the pointers put in it
    roots,           \* the pointers to map blocks the inode will get
    disk,            \* the map blocks written, with their pointers
    taken,           \* the map blocks taken
    outcome          \* "building", "ok", "failed", or "refused": Unsupported

vars == <<list, at, level, open, roots, disk, taken, outcome>>

HOLE == 0

\* Data is in blocks 1 .. MaxLength, and what the allocator hands out behind it.
NewBlock == MaxLength + Cardinality(taken) + 1

Lists == UNION {{[i \in 1 .. n |-> IF i \in {g, h} THEN HOLE ELSE i] :
                    g, h \in 0 .. n} : n \in 0 .. MaxLength}

PutOverFirst(pointers, b) == <<b>>

Put(pointers, b) == Append(pointers, b)

Innermost == open[Len(open)]

Full(pointers) == Len(pointers) = PerBlock

Left == at < Len(list)

\* A block that has been written is named by the one it belongs in, or, the root
\* of its level, by the inode; the next level follows while blocks are left.
Name(b, under) ==
    IF under = <<>>
    THEN /\ roots' = [roots EXCEPT ![level] = b]
         /\ level' = level + 1
         /\ open' = <<>>
    ELSE /\ open' = [under EXCEPT ![Len(under)].pointers = Put(@, b)]
         /\ UNCHANGED <<roots, level>>

Building == outcome = "building" /\ level <= 3

\* dind, tind, and the double indirect blocks under tind.
OpenIndex ==
    /\ Building /\ Left
    /\ Len(open) < level - 1
    /\ open # <<>> => ~ Full(Innermost.pointers)
    /\ open' = Append(open, [block |-> NewBlock, pointers |-> <<>>])
    /\ taken' = taken \cup {NewBlock}
    /\ UNCHANGED <<list, at, level, roots, disk, outcome>>

LeafOneLate(from) == SubSeq(list, from, Smaller(from + PerBlock - 1, Len(list)))

\* The pointers to data in the block that begins after the first so many.
Leaf(from) == SubSeq(list, from + 1, Smaller(from + PerBlock, Len(list)))

WriteLeaf ==
    /\ Building /\ Left
    /\ Len(open) = level - 1
    /\ open # <<>> => ~ Full(Innermost.pointers)
    /\ taken' = taken \cup {NewBlock}
    /\ disk' = disk @@ (NewBlock :> Leaf(at))
    /\ at' = Smaller(at + PerBlock, Len(list))
    /\ Name(NewBlock, open)
    /\ UNCHANGED <<list, outcome>>

CloseIndex ==
    /\ Building
    /\ open # <<>>
    /\ Full(Innermost.pointers) \/ ~ Left
    /\ disk' = disk @@ (Innermost.block :> Innermost.pointers)
    /\ Name(Innermost.block, SubSeq(open, 1, Len(open) - 1))
    /\ UNCHANGED <<list, at, taken, outcome>>

NeverTooLong == FALSE

\* What triple indirection did not reach.
TooLong == Left /\ level > 3

\* set_block_pointers, or an error with the inode as it was.
Finish ==
    /\ outcome = "building" /\ open = <<>>
    /\ ~ Left \/ level > 3
    /\ outcome' = IF TooLong THEN "refused" ELSE "ok"
    /\ UNCHANGED <<list, at, level, open, roots, disk, taken>>

\* alloc_block finds nothing, or the device fails.
Fail ==
    /\ Building /\ (Left \/ open # <<>>)
    /\ outcome' = "failed"
    /\ UNCHANGED <<list, at, level, open, roots, disk, taken>>

Init ==
    /\ list \in Lists
    /\ at = Smaller(Direct, Len(list))
    /\ level = 1
    /\ open = <<>>
    /\ roots = [l \in 1 .. 3 |-> HOLE]
    /\ disk = <<>>
    /\ taken = {}
    /\ outcome = "building"

Next == OpenIndex \/ WriteLeaf \/ CloseIndex \/ Finish \/ Fail

Spec == Init /\ [][Next]_vars

-----------------------------------------------------------------------------
(***************************************************************************)
(* Reading a map: walk_blocks of the library.                              *)
(***************************************************************************)
Pointer(b, i) == IF b = HOLE \/ i >= Len(disk[b]) THEN HOLE ELSE disk[b][i + 1]

\* The block a file has at a place, counted from 0.
BlockAt(k) ==
    LET k1 == k - Direct
        k2 == k1 - PerBlock
        k3 == k2 - PerBlock * PerBlock
    IN  CASE k1 < 0 -> IF k < Len(list) THEN list[k + 1] ELSE HOLE
          [] k1 >= 0 /\ k2 < 0 -> Pointer(roots[1], k1)
          [] k2 >= 0 /\ k3 < 0 ->
                Pointer(Pointer(roots[2], k2 \div PerBlock), k2 % PerBlock)
          [] OTHER ->
                Pointer(Pointer(Pointer(roots[3], k3 \div (PerBlock * PerBlock)),
                                (k3 \div PerBlock) % PerBlock), k3 % PerBlock)

Under(S) == UNION {{disk[b][i] : i \in DOMAIN disk[b]} : b \in S} \ {HOLE}

\* The map blocks the walk meets.
MapBlocks ==
    LET below2 == {roots[2]} \ {HOLE}
        below3 == {roots[3]} \ {HOLE}
    IN  ({roots[1]} \ {HOLE}) \cup below2 \cup Under(below2)
          \cup below3 \cup Under(below3) \cup Under(Under(below3))

-----------------------------------------------------------------------------
(***************************************************************************)
(* Properties.                                                             *)
(***************************************************************************)
\* A map that was built reads back: at every place it reaches, direct or through
\* one, two or three levels, the walk finds the block the list has there, and
\* none past its end.
ReadsBack ==
    outcome = "ok" =>
        \A k \in 0 .. IndirectReach - 1 :
            BlockAt(k) = IF k < Len(list) THEN list[k + 1] ELSE HOLE

\* The walk meets every map block that was taken, and no other: what
\* map_metadata_blocks gives back when the map is replaced is all of it.
MapBlocksFound == outcome = "ok" => MapBlocks = taken

\* FileMap's arithmetic of maps is that of the blocks built here: as many are
\* taken, also by a list that is refused, and a list is refused when it is
\* longer than a map reaches.
SizeForecast ==
    outcome \in {"ok", "refused"} =>
        /\ Cardinality(taken) = IndirectBlocksFor(Len(list))
        /\ outcome = "refused" <=> Len(list) > IndirectReach

=============================================================================
