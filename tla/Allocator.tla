------------------------------ MODULE Allocator ------------------------------
(***************************************************************************)
(* Allocating and freeing blocks and inodes (alloc.rs), and writing the    *)
(* buffered result back (Volume::flush, Drop for Volume in volume.rs).     *)
(*                                                                         *)
(* Four things have to stay in step at every call: the bitmaps, the group  *)
(* descriptors' counters, the superblock's totals and the bitmap           *)
(* checksums.  All of them are held in memory until a flush, which writes  *)
(* them in a fixed order and may fail, or be cancelled, at any write.      *)
(*                                                                         *)
(* A bitmap is the set of its bits that are set.  A checksum is modelled   *)
(* by the bitmap it was computed from: it matches that bitmap and no       *)
(* other.                                                                  *)
(***************************************************************************)
EXTENDS Integers, FiniteSets

CONSTANTS
    GroupCount,        \* block groups in the filesystem
    BlocksPerGroup,
    BlocksCount,       \* s_blocks_count; the last group may be short
    FirstDataBlock,
    InodesPerGroup,
    RootIno,           \* the one directory mkfs makes
    FirstIno,          \* the lowest inode number that is not reserved
    Metadata,          \* Metadata[g]: the bits mkfs sets in group g's bitmap
    Goals,             \* the goals callers pass to alloc_block
    MaxFailures        \* bound: how many flushes may fail in one session

Groups == 0 .. GroupCount - 1

GroupFirstBlock(g) == FirstDataBlock + g * BlocksPerGroup

\* The blocks of a group: the last group ends where the filesystem ends.
GroupBlockCount(g) ==
    IF g = GroupCount - 1 THEN BlocksCount - GroupFirstBlock(g)
                          ELSE BlocksPerGroup

BlockBits(g) == 0 .. GroupBlockCount(g) - 1
InodeBits    == 0 .. InodesPerGroup - 1

InodeNumber(g, i) == g * InodesPerGroup + i + 1

Reserved(g) == {i \in InodeBits : InodeNumber(g, i) < FirstIno}

ASSUME GeometryAssumption ==
    /\ GroupCount \in Nat \ {0}
    /\ BlocksPerGroup \in Nat \ {0}
    /\ InodesPerGroup \in Nat \ {0}
    /\ FirstDataBlock \in Nat
    /\ BlocksCount \in Nat
    /\ RootIno \in Nat \ {0}
    /\ FirstIno \in Nat
    /\ RootIno < FirstIno
    /\ FirstIno <= InodesPerGroup + 1
    /\ BlocksCount > GroupFirstBlock(GroupCount - 1)
    /\ BlocksCount <= GroupFirstBlock(GroupCount)

ASSUME MetadataAssumption ==
    /\ Metadata \in [Groups -> SUBSET Nat]
    /\ \A g \in Groups : Metadata[g] \subseteq BlockBits(g)

ASSUME GoalsAssumption == Goals \subseteq Nat

ASSUME MaxFailuresAssumption == MaxFailures \in Nat

VARIABLES
    warned,        \* the last Drop logged its warning
    blockCache,    \* BitmapCache.block: the block bitmaps read so far
    inodeCache,    \* BitmapCache.inode
    dirtyBlock,    \* BitmapCache.dirty_block
    dirtyInode,    \* BitmapCache.dirty_inode
    desc,          \* the group descriptors in memory
    sb,            \* the superblock's totals in memory
    phase,         \* the step Volume::flush is at; "idle" when none runs,
                   \* "closed" when the Volume has been dropped
    todo,          \* the groups the current flush step has still to write
    failures,      \* how many flushes of this session have failed
    disk,          \* the bitmaps, descriptors and totals on the device
    dirs,          \* which inodes were handed out as directories
    result         \* what the last allocation returned

cacheVars == <<blockCache, inodeCache, dirtyBlock, dirtyInode>>
flushVars == <<phase, todo, failures>>
vars == <<warned, cacheVars, desc, sb, flushVars, disk, dirs, result>>

(***************************************************************************)
(* Bitmaps, as a call sees them: the cached copy once a group's bitmap has *)
(* been read, the device's before that.                                    *)
(***************************************************************************)
BlockBitmap(g) ==
    IF g \in DOMAIN blockCache THEN blockCache[g] ELSE disk.block[g]

InodeBitmap(g) ==
    IF g \in DOMAIN inodeCache THEN inodeCache[g] ELSE disk.inode[g]

FreeBlockBits(g) == BlockBits(g) \ BlockBitmap(g)
FreeInodeBits(g) == InodeBits \ InodeBitmap(g)

\* Every free block and every free inode of the filesystem, as <<group, bit>>.
AllFreeBlocks == UNION {{g} \X FreeBlockBits(g) : g \in Groups}
AllFreeInodes == UNION {{g} \X FreeInodeBits(g) : g \in Groups}

DirsIn(g) == {i \in InodeBits : <<g, i>> \in dirs}

\* block_bitmap / inode_bitmap read the bitmaps of the groups they are asked
\* for and keep them; S is the set of groups a search went through.
KeepBlock(S) ==
    [g \in DOMAIN blockCache \cup S |-> BlockBitmap(g)]
KeepInode(S) ==
    [g \in DOMAIN inodeCache \cup S |-> InodeBitmap(g)]

Decrement(n) == IF n = 0 THEN 0 ELSE n - 1      \* saturating_sub(1)

Idle     == phase = "idle"
Flushing == phase \in {"blocks", "inodes", "descs", "device"}

(***************************************************************************)
(* alloc_block                                                             *)
(***************************************************************************)
GroupOfBlock(b) == (b - FirstDataBlock) \div BlocksPerGroup

StartGroup(goal) ==
    IF goal >= FirstDataBlock /\ goal < BlocksCount THEN GroupOfBlock(goal)
                                                   ELSE 0

GroupAt(start, step) == (start + step) % GroupCount

\* The first bit looked at: the goal's own in the goal's group, else bit 0.
SearchFrom(goal, step, g) ==
    IF /\ step = 0
       /\ goal >= GroupFirstBlock(g)
       /\ goal < GroupFirstBlock(g) + GroupBlockCount(g)
    THEN goal - GroupFirstBlock(g) ELSE 0

NoWrapSearch(from, count) == from .. count - 1

\* The bits the search of one group looks at: from .. end, then 0 .. from.
SearchedBits(from, count) == (from .. count - 1) \cup (0 .. from - 1)

\* i is the bit of S the search meets first.
FirstFrom(S, from, i) ==
    /\ i \in S
    /\ \A j \in S : IF i >= from THEN j >= from => i <= j
                                 ELSE j < from /\ i <= j

FreeIn(goal, step) ==
    LET g == GroupAt(StartGroup(goal), step)
    IN  SearchedBits(SearchFrom(goal, step, g), GroupBlockCount(g))
            \ BlockBitmap(g)

Searched(start, step) == {GroupAt(start, s) : s \in 0 .. step}

TakeBlockKeepFlag(d) == [d EXCEPT !.freeBlocks = Decrement(@)]

\* A group descriptor after a block of the group is taken, and given back.
TakeBlock(d) == [d EXCEPT !.freeBlocks = Decrement(@), !.blockUninit = FALSE]

GiveBlock(d) == [d EXCEPT !.freeBlocks = @ + 1]

AllocBlock(goal) ==
    /\ Idle
    /\ \E step \in 0 .. GroupCount - 1 :
         LET g    == GroupAt(StartGroup(goal), step)
             kept == KeepBlock(Searched(StartGroup(goal), step))
         IN  /\ \A s \in 0 .. step - 1 : FreeIn(goal, s) = {}
             /\ \E i \in FreeIn(goal, step) :
                  /\ FirstFrom(FreeIn(goal, step), SearchFrom(goal, step, g), i)
                  /\ blockCache' = [kept EXCEPT ![g] = @ \cup {i}]
             /\ dirtyBlock' = dirtyBlock \cup {g}
             /\ desc' = [desc EXCEPT ![g] = TakeBlock(@)]
    /\ sb' = [sb EXCEPT !.freeBlocks = Decrement(@)]
    /\ result' = "ok"
    /\ UNCHANGED <<warned, inodeCache, dirtyInode, flushVars, disk, dirs>>

AllocBlockFails(goal) ==
    /\ Idle
    /\ \A step \in 0 .. GroupCount - 1 : FreeIn(goal, step) = {}
    /\ blockCache' = KeepBlock(Groups)
    /\ result' = "NoSpace"
    /\ UNCHANGED <<warned, inodeCache, dirtyBlock, dirtyInode, desc, sb,
                   flushVars, disk, dirs>>

(***************************************************************************)
(* free_block                                                              *)
(*                                                                         *)
(* Callers give back blocks an inode of theirs owned, so never one of the  *)
(* filesystem's own metadata blocks.  A block that is already free is      *)
(* ignored: the call only reads its group's bitmap.                        *)
(***************************************************************************)
NeverFree(g, i) == FALSE

AlreadyFree(g, i) == i \notin BlockBitmap(g)

FreeBlock(g, i) ==
    /\ Idle
    /\ i \in BlockBits(g) \ Metadata[g]
    /\ ~ AlreadyFree(g, i)
    /\ blockCache' = [KeepBlock({g}) EXCEPT ![g] = @ \ {i}]
    /\ dirtyBlock' = dirtyBlock \cup {g}
    /\ desc' = [desc EXCEPT ![g] = GiveBlock(@)]
    /\ sb' = [sb EXCEPT !.freeBlocks = @ + 1]
    /\ result' = "ok"
    /\ UNCHANGED <<warned, inodeCache, dirtyInode, flushVars, disk, dirs>>

FreeBlockAgain(g, i) ==
    /\ Idle
    /\ i \in BlockBits(g) \ Metadata[g]
    /\ AlreadyFree(g, i)
    /\ blockCache' = KeepBlock({g})
    /\ result' = "ok"
    /\ UNCHANGED <<warned, inodeCache, dirtyBlock, dirtyInode, desc, sb,
                   flushVars, disk, dirs>>

(***************************************************************************)
(* alloc_inode, free_inode                                                 *)
(***************************************************************************)
StartGroupOfInode(near) ==
    IF near > 0 /\ near <= GroupCount * InodesPerGroup
    THEN (near - 1) \div InodesPerGroup ELSE 0

\* Reserved inodes are never handed out.
AllocatableInodes(g) == FreeInodeBits(g) \ Reserved(g)

LongTail(old, i) ==
    IF old > InodesPerGroup - (i + 2) THEN InodesPerGroup - (i + 2) ELSE old

TightTail(old, i) ==
    IF old > InodesPerGroup - i THEN InodesPerGroup - i ELSE old

\* itable_unused counts the never-used inodes at the end of the table: taking
\* one from within that tail shortens it.
ShrinkTail(old, i) ==
    IF old > InodesPerGroup - (i + 1) THEN InodesPerGroup - (i + 1) ELSE old

\* The directory tally moves with inodes that are directories.
WithDir(n, isDir)     == IF isDir THEN n + 1 ELSE n
WithoutDir(n, wasDir) == IF wasDir THEN Decrement(n) ELSE n

\* A group descriptor after inode i of the group is taken, and given back.
TakeInode(d, i, isDir) ==
    [d EXCEPT !.freeInodes = Decrement(@),
              !.usedDirs = WithDir(@, isDir),
              !.inodeUninit = FALSE,
              !.itableUnused = ShrinkTail(@, i)]

GiveInode(d, wasDir) ==
    [d EXCEPT !.freeInodes = @ + 1, !.usedDirs = WithoutDir(@, wasDir)]

AllocInode(near, isDir) ==
    /\ Idle
    /\ \E step \in 0 .. GroupCount - 1 :
         LET start == StartGroupOfInode(near)
             g     == GroupAt(start, step)
             kept  == KeepInode(Searched(start, step))
         IN  /\ \A s \in 0 .. step - 1 :
                    AllocatableInodes(GroupAt(start, s)) = {}
             /\ \E i \in AllocatableInodes(g) :
                  /\ \A j \in AllocatableInodes(g) : i <= j
                  /\ inodeCache' = [kept EXCEPT ![g] = @ \cup {i}]
                  /\ desc' = [desc EXCEPT ![g] = TakeInode(@, i, isDir)]
                  /\ dirs' = IF isDir THEN dirs \cup {<<g, i>>} ELSE dirs
             /\ dirtyInode' = dirtyInode \cup {g}
    /\ sb' = [sb EXCEPT !.freeInodes = Decrement(@)]
    /\ result' = "ok"
    /\ UNCHANGED <<warned, blockCache, dirtyBlock, flushVars, disk>>

AllocInodeFails(near) ==
    /\ Idle
    /\ \A step \in 0 .. GroupCount - 1 :
           AllocatableInodes(GroupAt(StartGroupOfInode(near), step)) = {}
    /\ inodeCache' = KeepInode(Groups)
    /\ result' = "NoInodes"
    /\ UNCHANGED <<warned, blockCache, dirtyBlock, dirtyInode, desc, sb,
                   flushVars, disk, dirs>>

\* unlink and rmdir free an inode that was in use, and say whether it was a
\* directory; the double-free return (alloc.rs 254) is never reached by them.
FreeInode(g, i, wasDir) ==
    /\ Idle
    /\ i \in InodeBitmap(g) \ Reserved(g)
    /\ wasDir = (<<g, i>> \in dirs)
    /\ inodeCache' = [KeepInode({g}) EXCEPT ![g] = @ \ {i}]
    /\ dirtyInode' = dirtyInode \cup {g}
    /\ desc' = [desc EXCEPT ![g] = GiveInode(@, wasDir)]
    /\ sb' = [sb EXCEPT !.freeInodes = @ + 1]
    /\ dirs' = dirs \ {<<g, i>>}
    /\ result' = "ok"
    /\ UNCHANGED <<warned, blockCache, dirtyBlock, flushVars, disk>>

(***************************************************************************)
(* Volume::flush: the block bitmaps, the inode bitmaps, the descriptors,   *)
(* the superblock, then the device's own flush.  The dirty marks go only   *)
(* when every bitmap is written.  How the library orders its descriptor    *)
(* writes is its own affair: any order.                                    *)
(***************************************************************************)
FlushBegin ==
    /\ Idle
    /\ phase' = "blocks"
    /\ todo' = dirtyBlock
    /\ result' = "ok"
    /\ UNCHANGED <<warned, cacheVars, desc, sb, failures, disk, dirs>>

NextGroup(g) == g \in todo /\ \A h \in todo : g <= h

\* A descriptor restamped with the checksum of the bitmap just written.
StampBlock(d, bits) == [d EXCEPT !.blockCsum = bits]
StampInode(d, bits) == [d EXCEPT !.inodeCsum = bits]

FlushBlockBitmap(g) ==
    /\ phase = "blocks"
    /\ NextGroup(g)
    /\ disk' = [disk EXCEPT !.block = [@ EXCEPT ![g] = blockCache[g]]]
    /\ desc' = [desc EXCEPT ![g] = StampBlock(@, blockCache[g])]
    /\ todo' = todo \ {g}
    /\ UNCHANGED <<warned, cacheVars, sb, phase, failures, dirs, result>>

FlushBlocksDone ==
    /\ phase = "blocks"
    /\ todo = {}
    /\ phase' = "inodes"
    /\ todo' = dirtyInode
    /\ UNCHANGED <<warned, cacheVars, desc, sb, failures, disk, dirs, result>>

FlushInodeNoCsum(g) ==
    /\ phase = "inodes"
    /\ NextGroup(g)
    /\ disk' = [disk EXCEPT !.inode = [@ EXCEPT ![g] = inodeCache[g]]]
    /\ todo' = todo \ {g}
    /\ UNCHANGED <<warned, cacheVars, desc, sb, phase, failures, dirs,
                   result>>

FlushInodeBitmap(g) ==
    /\ phase = "inodes"
    /\ NextGroup(g)
    /\ disk' = [disk EXCEPT !.inode = [@ EXCEPT ![g] = inodeCache[g]]]
    /\ desc' = [desc EXCEPT ![g] = StampInode(@, inodeCache[g])]
    /\ todo' = todo \ {g}
    /\ UNCHANGED <<warned, cacheVars, sb, phase, failures, dirs, result>>

FlushBitmapsDone ==
    /\ phase = "inodes"
    /\ todo = {}
    /\ dirtyBlock' = {}
    /\ dirtyInode' = {}
    /\ phase' = "descs"
    /\ todo' = Groups
    /\ UNCHANGED <<warned, blockCache, inodeCache, desc, sb, failures, disk,
                   dirs, result>>

FlushDesc(g) ==
    /\ phase = "descs"
    /\ g \in todo
    /\ disk' = [disk EXCEPT !.desc = [@ EXCEPT ![g] = desc[g]]]
    /\ todo' = todo \ {g}
    /\ UNCHANGED <<warned, cacheVars, desc, sb, phase, failures, dirs,
                   result>>

FlushSuperblock ==
    /\ phase = "descs"
    /\ todo = {}
    /\ disk' = [disk EXCEPT !.sb = sb]
    /\ phase' = "device"
    /\ UNCHANGED <<warned, cacheVars, desc, sb, todo, failures, dirs, result>>

FlushDevice ==
    /\ phase = "device"
    /\ phase' = "idle"
    /\ UNCHANGED <<warned, cacheVars, desc, sb, todo, failures, disk, dirs, result>>

ClearedDirty == <<{}, {}>>

\* What a flush that fails leaves marked: a mark goes only with the others.
DirtyAfterFailure == <<dirtyBlock, dirtyInode>>

Abandon ==
    /\ failures < MaxFailures
    /\ failures' = failures + 1
    /\ phase' = "idle"
    /\ todo' = {}
    /\ dirtyBlock' = DirtyAfterFailure[1]
    /\ dirtyInode' = DirtyAfterFailure[2]
    /\ UNCHANGED <<warned, blockCache, inodeCache, desc, sb, dirs, result>>

\* A write returns an error, or the caller drops the future between writes.
FlushFails ==
    /\ Flushing
    /\ Abandon
    /\ UNCHANGED disk

\* A bitmap reaches the device but its write reports an error, or is cancelled
\* before it answers: the descriptor is not restamped.
BlockWriteUnanswered(g) ==
    /\ phase = "blocks"
    /\ NextGroup(g)
    /\ disk' = [disk EXCEPT !.block = [@ EXCEPT ![g] = blockCache[g]]]
    /\ Abandon

InodeWriteUnanswered(g) ==
    /\ phase = "inodes"
    /\ NextGroup(g)
    /\ disk' = [disk EXCEPT !.inode = [@ EXCEPT ![g] = inodeCache[g]]]
    /\ Abandon

(***************************************************************************)
(* The end of a Volume, and the next one.  What the device holds is what   *)
(* flushes wrote, whether the Volume is dropped or its process dies; Drop  *)
(* looks at the dirty marks and warns.  The next session is modelled when  *)
(* nothing was lost; otherwise the device needs a repair no code here does.*)
(***************************************************************************)
BlocksAreDirty == dirtyBlock # {}

IsDirty == dirtyBlock # {} \/ dirtyInode # {}

\* The device holds what memory holds, each bitmap under its checksum.
Saved ==
    /\ \A g \in Groups : /\ disk.block[g] = BlockBitmap(g)
                         /\ disk.inode[g] = InodeBitmap(g)
                         /\ desc[g].blockCsum = disk.block[g]
                         /\ desc[g].inodeCsum = disk.inode[g]
    /\ disk.desc = desc
    /\ disk.sb = sb

Drop ==
    /\ Idle
    /\ phase' = "closed"
    /\ warned' = IsDirty
    /\ UNCHANGED <<cacheVars, desc, sb, todo, failures, disk, dirs, result>>

Open ==
    /\ phase = "closed"
    /\ Saved
    /\ phase' = "idle"
    /\ warned' = FALSE
    /\ blockCache' = [g \in {} |-> {}]
    /\ inodeCache' = [g \in {} |-> {}]
    /\ dirtyBlock' = {}
    /\ dirtyInode' = {}
    /\ desc' = disk.desc
    /\ sb' = disk.sb
    /\ result' = "ok"
    /\ failures' = 0
    /\ UNCHANGED <<todo, disk, dirs>>

(***************************************************************************)
(* A volume just opened on what mkfs wrote: the metadata blocks and the    *)
(* reserved inodes are in use, the root is the one directory, and groups   *)
(* other than the first may still be flagged uninitialised.                *)
(***************************************************************************)
RootBit(g) == {i \in InodeBits : InodeNumber(g, i) = RootIno}

FreshDesc(g) ==
    [freeBlocks   |-> Cardinality(BlockBits(g) \ Metadata[g]),
     freeInodes   |-> Cardinality(InodeBits \ Reserved(g)),
     usedDirs     |-> Cardinality(RootBit(g)),
     itableUnused |-> Cardinality(InodeBits \ Reserved(g)),
     blockUninit  |-> g # 0,
     inodeUninit  |-> g # 0 /\ Reserved(g) = {},
     blockCsum    |-> Metadata[g],
     inodeCsum    |-> Reserved(g)]

Init ==
    /\ warned = FALSE
    /\ blockCache = [g \in {} |-> {}]
    /\ inodeCache = [g \in {} |-> {}]
    /\ dirtyBlock = {}
    /\ dirtyInode = {}
    /\ desc = [g \in Groups |-> FreshDesc(g)]
    /\ sb = [freeBlocks |-> Cardinality(
                 UNION {{g} \X (BlockBits(g) \ Metadata[g]) : g \in Groups}),
             freeInodes |-> Cardinality(
                 UNION {{g} \X (InodeBits \ Reserved(g)) : g \in Groups})]
    /\ phase = "idle"
    /\ todo = {}
    /\ failures = 0
    /\ disk = [block |-> Metadata, inode |-> [g \in Groups |-> Reserved(g)],
               desc |-> desc, sb |-> sb]
    /\ dirs = {p \in Groups \X InodeBits : InodeNumber(p[1], p[2]) = RootIno}
    /\ result = "ok"

FlushStep ==
    \/ \E g \in Groups : FlushBlockBitmap(g) \/ FlushInodeBitmap(g) \/ FlushDesc(g)
    \/ FlushBlocksDone
    \/ FlushBitmapsDone
    \/ FlushSuperblock
    \/ FlushDevice

Next ==
    \/ \E goal \in Goals : AllocBlock(goal) \/ AllocBlockFails(goal)
    \/ \E g \in Groups : \E i \in BlockBits(g) :
           FreeBlock(g, i) \/ FreeBlockAgain(g, i)
    \/ \E near \in 1 .. GroupCount * InodesPerGroup :
           \/ \E isDir \in BOOLEAN : AllocInode(near, isDir)
           \/ AllocInodeFails(near)
    \/ \E g \in Groups, i \in InodeBits, wasDir \in BOOLEAN : FreeInode(g, i, wasDir)
    \/ FlushBegin
    \/ FlushStep
    \/ FlushFails
    \/ \E g \in Groups : BlockWriteUnanswered(g) \/ InodeWriteUnanswered(g)
    \/ Drop
    \/ Open

Spec == Init /\ [][Next]_vars

-----------------------------------------------------------------------------
(***************************************************************************)
(* Properties.                                                             *)
(***************************************************************************)
DescType ==
    [freeBlocks : Nat, freeInodes : Nat, usedDirs : Nat,
     itableUnused : 0 .. InodesPerGroup,
     blockUninit : BOOLEAN, inodeUninit : BOOLEAN,
     blockCsum : SUBSET Nat, inodeCsum : SUBSET InodeBits]

SbType == [freeBlocks : Nat, freeInodes : Nat]

DiskType ==
    [block : [Groups -> SUBSET Nat], inode : [Groups -> SUBSET InodeBits],
     desc : [Groups -> DescType], sb : SbType]

\* The shape of the state: bitmaps stay inside their groups, counters are
\* natural numbers (no subtraction in alloc.rs goes below zero) and only
\* bitmaps that have been read can be dirty.
TypeOK ==
    /\ warned \in BOOLEAN
    /\ DOMAIN blockCache \subseteq Groups /\ DOMAIN inodeCache \subseteq Groups
    /\ dirtyBlock \subseteq DOMAIN blockCache
    /\ dirtyInode \subseteq DOMAIN inodeCache
    /\ \A g \in DOMAIN blockCache : blockCache[g] \subseteq BlockBits(g)
    /\ \A g \in DOMAIN inodeCache : inodeCache[g] \subseteq InodeBits
    /\ desc \in [Groups -> DescType] /\ sb \in SbType
    /\ phase \in {"idle", "blocks", "inodes", "descs", "device", "closed"}
    /\ todo \subseteq Groups
    /\ phase = "blocks" => todo \subseteq dirtyBlock
    /\ phase = "inodes" => todo \subseteq dirtyInode
    /\ phase \in {"idle", "device", "closed"} => todo = {}
    /\ failures \in 0 .. MaxFailures
    /\ disk \in DiskType
    /\ \A g \in Groups : disk.block[g] \subseteq BlockBits(g)
    /\ dirs \subseteq Groups \X InodeBits
    /\ result \in {"ok", "NoSpace", "NoInodes"}

\* The counters of the module's own comment (alloc.rs 3-6): after every call,
\* each descriptor counts exactly the free bits of its group's bitmaps and the
\* directories among its inodes, and the superblock the free bits of them all.
CountersInStep ==
    /\ \A g \in Groups :
         /\ desc[g].freeBlocks = Cardinality(FreeBlockBits(g))
         /\ desc[g].freeInodes = Cardinality(FreeInodeBits(g))
         /\ desc[g].usedDirs = Cardinality(DirsIn(g))
    /\ sb.freeBlocks = Cardinality(AllFreeBlocks)
    /\ sb.freeInodes = Cardinality(AllFreeInodes)

\* A reader that skips the last itable_unused inodes of a group's table, or
\* takes INODE_UNINIT for an empty inode bitmap, skips no inode that alloc_inode
\* ever handed out.
UnusedTailIsUnused ==
    \A g \in Groups :
        /\ \A i \in InodeBitmap(g) : i < InodesPerGroup - desc[g].itableUnused
        /\ desc[g].inodeUninit => InodeBitmap(g) = {}

\* A group still flagged BLOCK_UNINIT, whose bitmap a reader may reconstruct
\* from the metadata alone, has no block handed out to a file.
UninitGroupHasNoData ==
    \A g \in Groups : desc[g].blockUninit => BlockBitmap(g) = Metadata[g]

\* Whatever flushes failed or were cancelled half-way, a bitmap that differs
\* from the device's is marked dirty, so the next flush writes it.
ChangedIsDirty ==
    \A g \in Groups :
        /\ g \notin dirtyBlock => BlockBitmap(g) = disk.block[g]
        /\ g \notin dirtyInode => InodeBitmap(g) = disk.inode[g]

\* A flush that gets to the device's own flush, its last call, has put on the
\* device everything memory holds, with a checksum in every descriptor that
\* matches the bitmap beside it: also after earlier flushes that failed.
FlushedImageExact ==
    phase = "device" => Saved

\* alloc_block gives up only on a full filesystem: the search from the goal
\* visits every block, the ones before the goal and in earlier groups too.
NoSpaceOnlyWhenFull ==
    result = "NoSpace" => sb.freeBlocks = 0

GoalBit(goal) == goal - GroupFirstBlock(GroupOfBlock(goal))

\* A caller streaming a file passes the block after its last one as the goal
\* (alloc.rs 94-100): when that block is free it is the one handed out.
GoalHonoured ==
    [][\A goal \in Goals :
          /\ AllocBlock(goal)
          /\ goal >= FirstDataBlock /\ goal < BlocksCount
          /\ GoalBit(goal) \in FreeBlockBits(GroupOfBlock(goal))
          => GoalBit(goal) \in blockCache'[GroupOfBlock(goal)]]_vars

\* A Volume that is dropped without its warning (volume.rs 1753), after whatever
\* calls, flushes and failed flushes, has all its bitmaps on the device: none of
\* what it handed out is free for the next one.
SilentDropKeepsBitmaps ==
    phase = "closed" /\ ~ warned =>
        \A g \in Groups : /\ disk.block[g] = BlockBitmap(g)
                          /\ disk.inode[g] = InodeBitmap(g)

(***************************************************************************)
(* The inductive invariant: the properties above, and what makes a flush   *)
(* exact.  A clean group's descriptor carries the checksum of the bitmap   *)
(* the device holds, and a flush has written, and stamped, everything it   *)
(* has got past.  Only inodes in use were handed out as directories.       *)
(***************************************************************************)
DirsAreInUse == \A p \in dirs : p[2] \in InodeBitmap(p[1])

CleanIsStamped ==
    \A g \in Groups :
        /\ g \notin dirtyBlock => desc[g].blockCsum = disk.block[g]
        /\ g \notin dirtyInode => desc[g].inodeCsum = disk.inode[g]

BlocksWritten(S) ==
    \A g \in S : disk.block[g] = BlockBitmap(g) /\ desc[g].blockCsum = BlockBitmap(g)
InodesWritten(S) ==
    \A g \in S : disk.inode[g] = InodeBitmap(g) /\ desc[g].inodeCsum = InodeBitmap(g)

FlushProgress ==
    /\ phase = "blocks" => BlocksWritten(dirtyBlock \ todo)
    /\ phase = "inodes" => /\ BlocksWritten(dirtyBlock)
                           /\ InodesWritten(dirtyInode \ todo)
    /\ phase \in {"descs", "device"} => dirtyBlock = {} /\ dirtyInode = {}
    /\ phase = "descs" => \A g \in Groups \ todo : disk.desc[g] = desc[g]
    /\ phase = "device" => disk.desc = desc /\ disk.sb = sb

Inv ==
    /\ TypeOK
    /\ CountersInStep
    /\ DirsAreInUse
    /\ UnusedTailIsUnused
    /\ UninitGroupHasNoData
    /\ ChangedIsDirty
    /\ CleanIsStamped
    /\ FlushProgress
    /\ NoSpaceOnlyWhenFull

==============================================================================
