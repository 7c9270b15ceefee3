------------------------------- MODULE FileMap -------------------------------
(***************************************************************************)
(* A file's blocks: how Volume::write_data, truncate_inode, write_xattrs   *)
(* and free_xattr_block (volume.rs) and write_block_list (map.rs) take,    *)
(* give back and record them.                                              *)
(*                                                                         *)
(* A block belongs to a file as data, as a block of the file's map (extent *)
(* leaves or indirect blocks), or as its extended attributes.  The inode   *)
(* on the device names them all; the bitmap in memory says which are used. *)
(* The two are changed at different moments, with awaits between, and a    *)
(* call may fail at any of them.                                           *)
(*                                                                         *)
(* Allocator is seen through what it promises: alloc_block takes the first *)
(* free block at or after the goal, then the first free block, and fails   *)
(* only when there is none.  Lengths are in blocks.                        *)
(***************************************************************************)
EXTENDS IndirectSize, Integers, FiniteSets, Sequences

CONSTANTS
    Files,
    ExtentFiles,     \* the files mapped by extents; the others are block-mapped
    BlockCount,      \* the blocks files can use are 1 .. BlockCount
    MaxExtent,       \* the longest extent to_extents builds
    InlineMax,       \* extents, or indices, that fit in an inode
    PerLeaf,         \* extents in a leaf block
    Values,          \* what callers write into a block
    Zero,            \* a block of zeroes: what a hole reads as
    Other,           \* what is neither: map blocks, attributes
    InitialLists,    \* the block lists of the files when the volume is opened
    AttributeFiles,  \* the files whose extended attributes callers set
    Lengths,         \* the lengths write_with and unpack_file are called with
    Offsets,         \* the blocks write_at is called with
    MaxLength,       \* bound: the longest file
    MaxFailures,     \* bound: calls that fail
    DeviceFails      \* whether calls also fail for another reason than space

HOLE == 0
Blocks == 1 .. BlockCount

\* The blocks a list of blocks names, and those of an inode.
BlocksOf(list) == {list[i] : i \in DOMAIN list} \ {HOLE}

Refs(nd) == BlocksOf(nd.list) \cup nd.meta \cup ({nd.acl} \ {HOLE})

ASSUME FilesAssumption ==
    /\ IsFiniteSet(Files) /\ Files # {}
    /\ ExtentFiles \subseteq Files /\ AttributeFiles \subseteq Files
    /\ Zero \notin Values /\ Other \notin Values \cup {Zero}

ASSUME SizesAssumption ==
    /\ BlockCount \in Nat /\ MaxLength \in Nat /\ MaxFailures \in Nat
    /\ DeviceFails \in BOOLEAN
    /\ Lengths \subseteq Nat /\ Offsets \subseteq Nat \ {0}
    /\ \A n \in {MaxExtent, InlineMax, PerLeaf, Direct, PerBlock} : n \in Nat \ {0}

ASSUME InitialAssumption ==
    /\ InitialLists \in [Files -> Seq(0 .. BlockCount)]
    /\ \A f, g \in Files : \A i \in DOMAIN InitialLists[f] :
         \A j \in DOMAIN InitialLists[g] :
            <<f, i>> # <<g, j>> /\ InitialLists[f][i] # HOLE
                => InitialLists[f][i] # InitialLists[g][j]

VARIABLES
    used,            \* the block bitmap, as memory has it
    inode,           \* the inodes on the device, with the maps they root
    store,           \* what each block in use holds, and block 0, the
                     \* filesystem's first; a free block holds Other
    pc,              \* the step the running call is at, or "idle"
    call,            \* the running call's arguments and locals
    result,          \* what the last call returned
    failures,        \* calls that have failed
    harm,            \* history: "none"; "leak" once a call has failed; "torn"
                     \* once one failed having given back blocks that the
                     \* inode on the device still names
    undercounted     \* history: files whose contents were replaced while they
                     \* had an attribute block

vars == <<used, inode, store, pc, call, result, failures, harm, undercounted>>

EmptyInode == [list |-> <<>>, meta |-> {}, acl |-> HOLE, blocks |-> 0]

NoCall ==
    [op |-> "none", file |-> CHOOSE f \in Files : TRUE, data |-> <<>>,
     list |-> <<>>, goal |-> HOLE, at |-> 0, meta |-> <<>>, acl |-> HOLE,
     gave |-> FALSE]

Running == inode[call.file]

\* What a file reads as.
Contents(f) ==
    [i \in DOMAIN inode[f].list |->
        IF inode[f].list[i] = HOLE THEN Zero ELSE store[inode[f].list[i]]]

FreeBlocks == Blocks \ used

Least(S) == CHOOSE x \in S : \A y \in S : x <= y

AllocAtGoal(goal) ==
    IF goal \in Blocks THEN goal ELSE Least(FreeBlocks)

\* The block alloc_block hands out: NoSpace is the case of no free block.
AllocFrom(goal) ==
    LET after == {b \in FreeBlocks : b >= goal}
    IN  IF after # {} THEN Least(after) ELSE Least(FreeBlocks)

(***************************************************************************)
(* The size of a map; IndirectSize has that of a block-mapped file's.      *)
(***************************************************************************)

\* to_extents: at each position of a list, the length so far of the extent
\* the position is in; 0 in a hole.
RunLength(list) ==
    LET run[i \in 0 .. Len(list)] ==
            IF i = 0 \/ (i > 0 /\ list[i] = HOLE) THEN 0
            ELSE IF /\ i > 1
                    /\ run[i - 1] \in 1 .. MaxExtent - 1
                    /\ list[i] = list[i - 1] + 1
                 THEN run[i - 1] + 1 ELSE 1
    IN  run

Extents(list) == Cardinality({i \in 1 .. Len(list) : RunLength(list)[i] = 1})

LeavesFor(extents) ==
    IF extents <= InlineMax THEN 0 ELSE CeilDiv(extents, PerLeaf)

MapBlocksFor(f, list) ==
    IF f \in ExtentFiles THEN LeavesFor(Extents(list))
                         ELSE IndirectBlocksFor(Len(list))

\* A map the code refuses to build: too many leaves, before any is taken, or a
\* file past triple indirection, after every map block is.
Unsupported(f, list, taken) ==
    IF f \in ExtentFiles
    THEN MapBlocksFor(f, list) > InlineMax
    ELSE Len(list) > IndirectReach /\ taken = MapBlocksFor(f, list)

(***************************************************************************)
(* The calls.  A call runs to its end before the next starts (every method *)
(* takes &mut self).  Once blocks have been given back that an inode still *)
(* names, what a later call finds in them is whatever was written there    *)
(* since: the model stops.                                                 *)
(***************************************************************************)
Idle == pc = "idle" /\ harm # "torn"

Start(op, f, data, first) ==
    /\ Idle
    /\ Len(data) <= MaxLength
    /\ pc' = first
    /\ call' = [NoCall EXCEPT !.op = op, !.file = f, !.data = data]
    /\ UNCHANGED <<used, inode, store, result, failures, harm, undercounted>>

\* append reads the whole file, adds to its end and writes it all.
AppendTo(f, v) == Start("write", f, Contents(f) \o <<v>>, "excess")

\* write_at does the same, splicing at an offset; a gap is filled with zeroes.
WriteAt(f, at, v) ==
    LET old == Contents(f)
        len == IF at > Len(old) THEN at ELSE Len(old)
    IN  Start("write", f,
              [i \in 1 .. len |-> IF i = at THEN v
                                  ELSE IF i <= Len(old) THEN old[i] ELSE Zero],
              "excess")

\* write_with on a file that exists truncates it, then writes.
Replace(f, n, v) == Start("write", f, [i \in 1 .. n |-> v], "truncate")

\* unpack_file, for a large file of an archive: the file is made empty, then
\* each block is taken and written as the archive delivers it.
Stream(f, n, v) == Start("stream", f, [i \in 1 .. n |-> v], "truncate")

\* unlink of a last name.
Remove(f) == Start("remove", f, <<>>, "truncate")

\* write_xattrs, with attributes that fit in the inode or need a block.
SetXattrs(f, inline) ==
    Start("xattrs", f, <<>>, IF inline THEN "inline" ELSE "spill")

\* free_block.  Nothing reads a free block before it is written again.
Free(S) ==
    /\ used' = used \ S
    /\ store' = [b \in DOMAIN store |-> IF b \in S THEN Other ELSE store[b]]

GiveBack(S) ==
    /\ Free(S)
    /\ call' = [call EXCEPT !.gave = @ \/ S # {}]

(***************************************************************************)
(* truncate_inode                                                          *)
(***************************************************************************)
TruncateFree ==
    /\ pc = "truncate"
    /\ GiveBack(BlocksOf(Running.list) \cup Running.meta)
    /\ pc' = "empty"
    /\ UNCHANGED <<inode, result, failures, harm, undercounted>>

EmptiedKeepsMap(nd) == [nd EXCEPT !.list = <<>>, !.blocks = 0]

\* The inode truncate_inode writes: its attribute block stays.
Emptied(nd) == [nd EXCEPT !.list = <<>>, !.meta = {}, !.blocks = 0]

TruncateWrite ==
    /\ pc = "empty"
    /\ inode' = [inode EXCEPT ![call.file] = Emptied(@)]
    /\ call' = [call EXCEPT !.gave = FALSE]
    /\ undercounted' = IF Running.acl # HOLE
                       THEN undercounted \cup {call.file} ELSE undercounted
    /\ pc' = IF call.op = "remove" THEN "acl" ELSE "excess"
    /\ UNCHANGED <<used, store, result, failures, harm>>

(***************************************************************************)
(* write_data                                                              *)
(***************************************************************************)
Last(list) == IF list = <<>> THEN HOLE ELSE list[Len(list)]

StoreOnlyNew(kept) == kept + 1

\* The first block that is written: the ones the file had are written again.
StoreFrom(kept) == 1

\* Past the new end: given back, and gone from the list.
FreeExcess ==
    /\ pc = "excess"
    /\ LET keep == Smaller(Len(Running.list), Len(call.data))
           list == SubSeq(Running.list, 1, keep)
           past == BlocksOf(SubSeq(Running.list, keep + 1, Len(Running.list)))
       IN  /\ Free(past)
           /\ call' = [call EXCEPT !.list = list, !.goal = Last(list),
                                   !.at = StoreFrom(keep), !.gave = @ \/ past # {}]
           /\ pc' = "take"
    /\ UNCHANGED <<inode, result, failures, harm, undercounted>>

Streaming == call.op = "stream"

\* write_data takes every block it lacks from one goal, then writes; streaming
\* writes what it has taken before it takes more, next to the last.
WantsBlock ==
    /\ pc = "take"
    /\ Len(call.list) < Len(call.data)
    /\ Streaming => call.at > Len(call.list)

DataGoal == IF Streaming THEN Last(call.list) ELSE call.goal

TakeData ==
    /\ WantsBlock
    /\ FreeBlocks # {}
    /\ used' = used \cup {AllocFrom(DataGoal)}
    /\ call' = [call EXCEPT !.list = Append(@, AllocFrom(DataGoal))]
    /\ UNCHANGED <<inode, store, pc, result, failures, harm, undercounted>>

\* Every block of the file is written, old and new, in order.  A hole that was
\* in the map is block 0 of the list, and it is written too.
StoreData ==
    /\ pc = "take"
    /\ Len(call.list) = Len(call.data) \/ Streaming
    /\ call.at <= Len(call.list)
    /\ store' = [store EXCEPT ![call.list[call.at]] = call.data[call.at]]
    /\ call' = [call EXCEPT !.at = @ + 1]
    /\ UNCHANGED <<used, inode, pc, result, failures, harm, undercounted>>

(***************************************************************************)
(* write_block_list                                                        *)
(***************************************************************************)
NoOldMap(nd) == {}

\* What map_metadata_blocks finds: the blocks of the map being replaced.
OldMapOf(nd) == nd.meta

FreeOldMap ==
    /\ pc = "take"
    /\ call.at > Len(call.data)
    /\ GiveBack(OldMapOf(Running))
    /\ pc' = "map"
    /\ UNCHANGED <<inode, result, failures, harm, undercounted>>

Ranged(s) == {s[i] : i \in DOMAIN s}

\* The first block of the file is every map block's goal; alloc_blocks moves on
\* from the leaf it took last.
MapGoal ==
    IF call.file \in ExtentFiles /\ call.meta # <<>> THEN Last(call.meta) + 1
    ELSE IF BlocksOf(call.list) = {} THEN HOLE
    ELSE call.list[Least({i \in DOMAIN call.list : call.list[i] # HOLE})]

TakeMapBlock ==
    /\ pc = "map"
    /\ ~ Unsupported(call.file, call.list, Len(call.meta))
    /\ Len(call.meta) < MapBlocksFor(call.file, call.list)
    /\ FreeBlocks # {}
    /\ LET b == AllocFrom(MapGoal)
       IN  /\ used' = used \cup {b}
           /\ store' = [store EXCEPT ![b] = Other]
           /\ call' = [call EXCEPT !.meta = Append(@, b)]
    /\ UNCHANGED <<inode, pc, result, failures, harm, undercounted>>

CountData(list, meta) == Len(list)

\* i_blocks, in blocks, as write_data sets it: the attribute block is not in it.
CountBlocks(list, meta) == Len(list) + Len(meta)

WriteInode ==
    /\ pc = "map"
    /\ ~ Unsupported(call.file, call.list, Len(call.meta))
    /\ Len(call.meta) = MapBlocksFor(call.file, call.list)
    /\ inode' = [inode EXCEPT ![call.file] =
                    [@ EXCEPT !.list = call.list, !.meta = Ranged(call.meta),
                              !.blocks = CountBlocks(call.list, call.meta)]]
    /\ call' = [call EXCEPT !.gave = FALSE]
    /\ undercounted' = IF Running.acl # HOLE
                       THEN undercounted \cup {call.file} ELSE undercounted
    /\ pc' = "return"
    /\ UNCHANGED <<used, store, result, failures, harm>>

(***************************************************************************)
(* free_xattr_block, then the inode's own release                          *)
(***************************************************************************)
FreeXattrBlock ==
    /\ pc = "acl"
    /\ GiveBack({Running.acl} \ {HOLE})
    /\ pc' = "release"
    /\ UNCHANGED <<inode, result, failures, harm, undercounted>>

ReleaseInode ==
    /\ pc = "release"
    /\ inode' = [inode EXCEPT ![call.file] = EmptyInode]
    /\ call' = [call EXCEPT !.gave = FALSE]
    /\ undercounted' = undercounted \ {call.file}
    /\ pc' = "return"
    /\ UNCHANGED <<used, store, result, failures, harm>>

(***************************************************************************)
(* write_xattrs                                                            *)
(***************************************************************************)

\* The attributes fit in the inode: a block they had goes back.
XattrsInline ==
    /\ pc = "inline"
    /\ GiveBack({Running.acl} \ {HOLE})
    /\ pc' = "attrs"
    /\ UNCHANGED <<inode, result, failures, harm, undercounted>>

\* They do not: the block they had is written again, or a new one is taken.
XattrsSpillAgain ==
    /\ pc = "spill"
    /\ Running.acl # HOLE
    /\ store' = [store EXCEPT ![Running.acl] = Other]
    /\ call' = [call EXCEPT !.acl = Running.acl]
    /\ pc' = "attrs"
    /\ UNCHANGED <<used, inode, result, failures, harm, undercounted>>

XattrsSpill ==
    /\ pc = "spill"
    /\ Running.acl = HOLE
    /\ FreeBlocks # {}
    /\ LET b == AllocFrom(0)
       IN  /\ used' = used \cup {b}
           /\ store' = [store EXCEPT ![b] = Other]
           /\ call' = [call EXCEPT !.acl = b]
    /\ pc' = "attrs"
    /\ UNCHANGED <<inode, result, failures, harm, undercounted>>

CountXattrsBelowZero(nd, acl) ==
    IF nd.acl = HOLE /\ acl # HOLE THEN nd.blocks + 1
    ELSE IF nd.acl # HOLE /\ acl = HOLE THEN nd.blocks - 1
    ELSE nd.blocks

\* i_blocks moves by one when the block comes or goes (saturating_sub).
CountXattrs(nd, acl) ==
    IF nd.acl = HOLE /\ acl # HOLE THEN nd.blocks + 1
    ELSE IF nd.acl # HOLE /\ acl = HOLE THEN Over(nd.blocks, 1)
    ELSE nd.blocks

WriteXattrInode ==
    /\ pc = "attrs"
    /\ inode' = [inode EXCEPT ![call.file] =
                    [@ EXCEPT !.acl = call.acl,
                              !.blocks = CountXattrs(Running, call.acl)]]
    /\ call' = [call EXCEPT !.gave = FALSE]
    /\ pc' = "return"
    /\ UNCHANGED <<used, store, result, failures, harm, undercounted>>

(***************************************************************************)
(* The end of a call.                                                      *)
(***************************************************************************)
Return ==
    /\ pc = "return"
    /\ pc' = "idle"
    /\ call' = NoCall
    /\ result' = "ok"
    /\ UNCHANGED <<used, inode, store, failures, harm, undercounted>>

\* The error is returned as it is: nothing that was taken is given back.
GiveUp ==
    /\ failures < MaxFailures
    /\ failures' = failures + 1
    /\ pc' = "idle"
    /\ call' = NoCall
    /\ result' = "error"
    /\ harm' = IF call.gave THEN "torn" ELSE "leak"
    /\ UNCHANGED <<used, inode, store, undercounted>>

NoSpace ==
    /\ FreeBlocks = {}
    /\ \/ WantsBlock
       \/ /\ pc = "map"
          /\ ~ Unsupported(call.file, call.list, Len(call.meta))
          /\ Len(call.meta) < MapBlocksFor(call.file, call.list)
       \/ pc = "spill" /\ Running.acl = HOLE
    /\ GiveUp

TooFragmented ==
    /\ pc = "map"
    /\ Unsupported(call.file, call.list, Len(call.meta))
    /\ GiveUp

\* A device error, a cancelled future, or attributes too large for a block.
Fault ==
    /\ pc # "idle"
    /\ DeviceFails
    /\ GiveUp

Init ==
    /\ used = UNION {BlocksOf(InitialLists[f]) : f \in Files}
    /\ inode = [f \in Files |->
                   [EmptyInode EXCEPT !.list = InitialLists[f],
                                      !.blocks = Cardinality(BlocksOf(InitialLists[f]))]]
    /\ store = [b \in 0 .. BlockCount |-> Other]
    /\ pc = "idle"
    /\ call = NoCall
    /\ result = "ok"
    /\ failures = 0
    /\ harm = "none"
    /\ undercounted = {}

CallBegins ==
    \E f \in Files :
        \/ \E v \in Values : AppendTo(f, v)
        \/ \E v \in Values, at \in Offsets : WriteAt(f, at, v)
        \/ \E v \in Values, n \in Lengths : Replace(f, n, v) \/ Stream(f, n, v)
        \/ Remove(f)
        \/ \E inline \in BOOLEAN : f \in AttributeFiles /\ SetXattrs(f, inline)

Next ==
    \/ CallBegins
    \/ TruncateFree \/ TruncateWrite
    \/ FreeExcess \/ TakeData \/ StoreData
    \/ FreeOldMap \/ TakeMapBlock \/ WriteInode
    \/ FreeXattrBlock \/ ReleaseInode
    \/ XattrsInline \/ XattrsSpillAgain \/ XattrsSpill \/ WriteXattrInode
    \/ Return \/ NoSpace \/ TooFragmented \/ Fault

Spec == Init /\ [][Next]_vars

-----------------------------------------------------------------------------
(***************************************************************************)
(* Properties.                                                             *)
(***************************************************************************)
ListType == Seq(0 .. BlockCount)

\* The shape of the state: nothing is ever recorded outside the blocks a file
\* may use, and a call's list never outgrows what it was asked to write.
TypeOK ==
    /\ used \subseteq Blocks
    /\ inode \in [Files -> [list : ListType, meta : SUBSET Blocks,
                           acl : 0 .. BlockCount, blocks : Nat]]
    /\ store \in [0 .. BlockCount -> Values \cup {Zero, Other}]
    /\ pc \in {"idle", "truncate", "empty", "excess", "take", "map", "acl",
              "release", "inline", "spill", "attrs", "return"}
    /\ call.file \in Files /\ call.list \in ListType /\ call.meta \in Seq(Blocks)
    /\ Len(call.list) <= Len(call.data) /\ call.gave \in BOOLEAN
    /\ result \in {"ok", "error"} /\ failures \in 0 .. MaxFailures
    /\ harm \in {"none", "leak", "torn"} /\ undercounted \subseteq Files

\* What the running call has taken and not yet recorded, with what it will keep.
InHand == BlocksOf(call.list) \cup Ranged(call.meta) \cup ({call.acl} \ {HOLE})

\* Until a call fails after giving blocks back, no block an inode names can be
\* handed out again: but for the file being changed, every block named by an
\* inode is marked used, between the steps of a call too.
OwnedIsUsed ==
    harm # "torn" =>
        /\ InHand \subseteq used
        /\ \A f \in Files : \/ Refs(inode[f]) \subseteq used
                           \/ (f = call.file /\ call.gave)

NamedOnce(nd) ==
    /\ \A i, j \in DOMAIN nd.list :
           i # j /\ nd.list[i] # HOLE => nd.list[i] # nd.list[j]
    /\ BlocksOf(nd.list) \cap nd.meta = {}
    /\ nd.acl \notin BlocksOf(nd.list) \cup nd.meta

\* No block is named twice: not by two files, not as data and map of one, not
\* by an inode and a call that is changing another.  (e2fsck's multiply-claimed
\* blocks; free_block then alloc_block within one call is where it could go
\* wrong.)
OwnedOnce ==
    harm # "torn" =>
        /\ \A f \in Files : NamedOnce(inode[f])
        /\ \A f, g \in Files : f # g => Refs(inode[f]) \cap Refs(inode[g]) = {}
        /\ \A f \in Files \ {call.file} : Refs(inode[f]) \cap InHand = {}

\* Also once a call has failed between giving blocks back and writing the inode
\* that names them (truncate_inode, write_block_list): the damage is to its own
\* file.  Every block another file's inode names is used, and none is named by
\* two inodes.
DamageIsOwn ==
    /\ \E f \in Files : \A g \in Files \ {f} : Refs(inode[g]) \subseteq used
    /\ \A f, g \in Files : f # g => Refs(inode[f]) \cap Refs(inode[g]) = {}

\* While no call has failed, every used block is named by a file between calls:
\* a rewritten map gives back all of the old one, a removed file all it had.
NothingLeaks ==
    harm = "none" /\ pc = "idle" =>
        used = UNION {Refs(inode[f]) : f \in Files}

BlocksHeld(nd) ==
    Cardinality(BlocksOf(nd.list)) + Cardinality(nd.meta)
        + (IF nd.acl = HOLE THEN 0 ELSE 1)

\* i_blocks counts the data, the map and the attribute block of a file between
\* calls, also after calls that failed, unless its contents were written
\* while it had an attribute block.
BlocksCounted ==
    pc = "idle" =>
        \A f \in Files \ undercounted : inode[f].blocks = BlocksHeld(inode[f])

InitialContents ==
    [f \in Files |-> [i \in DOMAIN InitialLists[f] |->
                        IF InitialLists[f][i] = HOLE THEN Zero ELSE Other]]

Asked == IF call.op \in {"write", "stream", "remove"}
         THEN {[file |-> call.file, data |-> call.data]} ELSE {}

Promise == INSTANCE FileStore WITH
    Values    <- Values \cup {Zero, Other},
    Initially <- InitialContents,
    contents  <- [f \in Files |-> Contents(f)],
    asked     <- Asked

\* The calls keep the promise of FileStore: a call changes only the file it
\* names, an attribute call changes no contents, and a write that returns Ok
\* reads back as what was asked for.
KeepsPromise == Promise!Spec

\* map.rs 3-7: rebuilding the whole map means "no partially-updated tree if a
\* write fails halfway".  Between calls, what a file's map names is the file's.
MapSurvivesFailure ==
    pc = "idle" => \A f \in Files : Refs(inode[f]) \subseteq used

\* lib.rs 36-40: "Every write keeps the things fsck checks in step [...]  A
\* filesystem written through this crate passes e2fsck afterwards".  e2fsck
\* counts an inode's blocks and compares i_blocks.
BlocksInStep ==
    pc = "idle" => \A f \in Files : inode[f].blocks = BlocksHeld(inode[f])

\* volume.rs 684: "Write data at offset, leaving the rest of the file alone."
\* A write that has succeeded reads back.
WriteReadsBack ==
    pc = "return" /\ call.op = "write" => Contents(call.file) = call.data

(***************************************************************************)
(* The inductive invariant.  A running call has given back some of what    *)
(* its file's inode names, by the step it is at: Kept is what is still     *)
(* used.  What it has taken is apart from that, and from the other files.  *)
(***************************************************************************)
Kept ==
    CASE pc \in {"empty", "map"} -> {Running.acl} \ {HOLE}
      [] pc = "take"    -> Running.meta \cup ({Running.acl} \ {HOLE})
      [] pc = "release" -> {}
      [] pc = "attrs"   -> BlocksOf(Running.list) \cup Running.meta
      [] OTHER          -> Refs(Running)

CallType ==
    [op : {"none", "write", "stream", "remove", "xattrs"}, file : Files,
     data : Seq(Values \cup {Zero, Other}), list : ListType, goal : 0 .. BlockCount,
     at : Nat, meta : Seq(Blocks), acl : 0 .. BlockCount, gave : BOOLEAN]

\* What a call has in its locals at each step.
CallFits ==
    /\ call \in CallType
    /\ pc = "take" => call.at # 0
    /\ pc \notin {"take", "map", "return"} => call.list = <<>>
    /\ pc \notin {"map", "return"} => call.meta = <<>>
    /\ pc \notin {"attrs", "return"} => call.acl = HOLE
    /\ pc \notin {"empty", "take", "map", "release", "attrs"} => ~ call.gave
    /\ harm = "torn" => pc = "idle"

TypeInv == TypeOK /\ CallFits

Others == Files \ {call.file}

DistinctBlocks(list) ==
    \A i, j \in DOMAIN list : i # j /\ list[i] # HOLE => list[i] # list[j]

\* Whose blocks are whose and which of them are used.
Owned ==
    /\ InHand \subseteq used
    /\ Kept \subseteq used
    /\ ~ call.gave => Refs(Running) \subseteq used
    /\ \A f \in Others : Refs(inode[f]) \subseteq used
    /\ \A f \in Files : NamedOnce(inode[f])
    /\ \A f, g \in Files : f # g => Refs(inode[f]) \cap Refs(inode[g]) = {}
    /\ \A f \in Others : Refs(inode[f]) \cap InHand = {}
    /\ DistinctBlocks(call.list)
    /\ BlocksOf(call.list) \cap Ranged(call.meta) = {}
    /\ pc \in {"take", "map"} =>
          (BlocksOf(call.list) \cup Ranged(call.meta)) \cap Kept = {}
    /\ pc = "attrs" => call.acl \notin Kept

\* While no call has failed, what is used belongs to someone; a file that is
\* being removed has no contents any more when its attributes go back.
Accounted ==
    /\ used \subseteq (UNION {Refs(inode[f]) : f \in Others}) \cup Kept \cup InHand
    /\ pc = "return" => InHand \subseteq Refs(Running)
    /\ pc = "acl" => BlocksOf(Running.list) \cup Running.meta = {}

Inv ==
    /\ TypeInv
    /\ harm # "torn" => Owned
    /\ harm = "none" => Accounted

==============================================================================
