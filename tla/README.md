# fio.ext4: models, checks and proofs

`fio-ext4` writes ext4 filesystems from user space: files, directories, links,
devices, extended attributes, hash-indexed directories and tar archives, without
mounting anything and without a journal. It sits on `mkfs_ext4`, a library that
reads the structures on disk, keeps the descriptors and the superblock in memory
and is not part of this repository.

This directory holds TLA+ modules for the parts of the crate whose correctness
is a matter of *order and state*, TLC configurations that check them on small
instances, and TLAPS proofs about the allocator, files' blocks, names and links,
directories, and archives.

* [1. The system](#1-the-system)
* [2. Modules](#2-modules)
* [3. Runs](#3-runs-bounds-and-what-they-show)
* [4. Fairness](#4-fairness)
* [5. Proofs](#5-proofs)
* [6. Where the code and its documents disagree](#6-where-the-code-and-its-documents-disagree)
* [7. Not modelled](#7-not-modelled-and-why)
* [8. Plan](#8-plan)

## 1. The system

| component | source | state it keeps | operations |
|---|---|---|---|
| allocator | `src/alloc.rs` | block and inode bitmaps read so far, which are dirty; counters in every group descriptor and in the superblock | `alloc_block(s)`, `free_block`, `alloc_inode`, `free_inode`, `flush` |
| volume: flush, drop, open | `src/volume.rs` | nothing of its own: it drives the allocator and the library | `open`, `flush`, `Drop` |
| volume: file contents | `src/volume.rs` | inodes on the device: block list, map, attribute block, `i_blocks` | `write_with`, `append`, `write_at`, `unpack_file`, `truncate_inode`, `write_xattrs` |
| block maps | `src/map.rs` | extent trees and indirect blocks under an inode | `write_block_list`, `read_block_list`, `map_metadata_blocks`, `indirect_blocks_for` |
| volume: names and links | `src/volume.rs` | directory entries, link counts, `..` | `write_with`, `mknod`, `symlink`, `mkdir`, `link`, `unlink`, `rmdir`, `rename` |
| directory blocks | `src/dir.rs`, `link_into` and `unlink_from` of `volume.rs` | chains of entries that tile a block | `insert_into_block`, `remove_from_block`, `empty_block` |
| hash index | `src/index.rs` | root, interior nodes, leaves in hash order | `indexed_link`, `indexed_unlink`, `leaf_run`, `rebuild_index` |
| tar reader and writer | `src/tar.rs` | position in the stream, contents and padding still owed, pending long names and PAX records | `next`, `read`, `start`, `write`, `append`, `finish` |
| unpacking and packing | `src/volume.rs` | directories whose attributes wait for the end of the archive; inodes already written under a first name | `unpack_stream`, `apply_whiteout`, `unpack_file`, `mkdir_all`, `remove_all`, `pack_into` |
| archive front end, command line | `src/archive.rs`, `src/bin/fio_ext4.rs` | none | open, pick a decompressor, one call, flush |

**How they interact.** A caller holds `&mut Volume`, so calls never overlap. Each
call is an async function made of reads and writes of the device; any of them may
fail and return early with `?`, or never be answered because the caller drops the
future. A call changes three things at different moments: blocks and inodes on
the device *at once*, bitmaps in memory that reach the device only at the next
`flush`, and descriptors and superblock totals in the library's memory, written
last of all. `link_into` may turn into `rebuild_index`, which takes blocks from
the allocator and writes a map; `write_data` takes blocks, writes them, replaces
the map, and writes the inode; `rename` nests an `unlink` or an `rmdir`. Unpacking
is a loop over a `tar::Reader` that calls the volume for every entry; packing is a walk
over the volume that calls a `tar::Writer`. Between the two lies a stream: a file, a
socket, a pipe, which hands over any number of bytes at a time and may stop.

**What is hard.** No thread races another (only a packer and an unpacker at the two ends
of a pipe run at once), so the hazards are the following. They
are listed at their lines in `PROJECT.json`, under `hazards`.

* *Partial failure.* Every call is a script of device writes without a journal.
  What is on the device between two of them is what is left when the second fails.
* *Memory against device.* A block is free in the bitmap while an inode on the
  device still names it, or the reverse. Dirty marks say what the next flush must
  write, and flushes fail half-way too.
* *Counters kept twice and recomputed in several places.* Free counts, tallies of
  directories, `itable_unused`, link counts, `i_blocks`.
* *Long sequences of legal calls.* Splitting and merging entries, moving
  directories, growing an index and inserting between rebuilds.
* *Boundaries.* Extents, leaves, levels of indirection, index nodes, the wrapped
  search of a short last group, the bounded climb of `is_ancestor`, padding, fields of
  fixed width.
* *Streams.* Contents and headers are told apart by sizes alone; names come in four
  ways of which one wins; a stream stops anywhere; entries undo each other, and what a
  directory is to look like is applied long after its entry.

**What makes each part correct.**

* Allocator: counters equal what the bitmaps hold; nothing is lost by a failed
  flush; a search gives up only on a full disk; what a reader may skip
  (`itable_unused`, the UNINIT flags) was never handed out.
* File contents and maps: a block has one owner; an owned block is marked used;
  nothing leaks unless a call fails, and a call that fails harms no file but its own; a map
  reads back as the list it was built from; `i_blocks` counts data, map and attributes; a
  call that returns Ok leaves the contents it was asked for and touches no other file.
* Names: a name points at an inode in use; no name is lost by a call that was not
  asked to remove it; between calls link counts equal names (and `..`), and the
  directories form a tree.
* Directories: entries tile their block; only a rebuild moves an entry; what was
  linked and not unlinked is found, by whatever route the index gives.
* Archives: the reader delivers what the writer was given, or fails; a packed tree comes
  back; an entry has its whole effect on its own path and none on any other; in the end
  a path has the attributes its last entry gave it; unpacking comes to an end.

## 2. Modules

| module | models | states | implements |
|---|---|---|---|
| `Allocator` | `alloc.rs`; `flush`, `Drop`, `open` of `volume.rs` | bitmaps, dirty sets, descriptors, totals, the device's copies | |
| `AllocatorProofs` | theorems about `Allocator` | | |
| `FileMap` | `write_data`, `unpack_file`'s streaming, `truncate_inode`, `write_xattrs`, `free_xattr_block`; `map.rs` | bitmap, block contents, inodes on the device, the running call | `FileStore` |
| `IndirectSize` | how many blocks an indirect map takes, for `FileMap` and `IndirectMap` | none (operators) | |
| `IndirectMap` | `write_indirect_map`, and the library's walk over what it built | the list, the blocks of pointers begun, written and taken | |
| `FileMapProofs` | theorems about `FileMap`: for every volume, and for volumes without holes | | |
| `FileStore` | abstract: the contents of files, one call at a time | | |
| `Namespace` | creation, `mkdir`, `link`, `unlink`, `rmdir`, `rename` write by write | entries, `..`, link counts, inode bitmap, the writes still to make | |
| `NamespaceProofs` | theorems about `Namespace`: names, link counts, the tree, and what leaks | | |
| `Directory` | `dir.rs`, `index.rs`, `link_into`, `unlink_from` | blocks of entries, index nodes | `NameSet` |
| `DirectoryProofs` | theorems about `Directory` | | |
| `Induction` | lemmas: induction over numbers, sums, orders | | |
| `NameSet` | abstract: a set of names | | |
| `Tree` | `lookup`, `exists`, `unlink`, `rmdir`, `mkdir_with`, `mkdir_all`, `link`, `remove_all`, `chmod`, `chown`, `set_times`, each at once, on paths | none (operators) | |
| `TarStream` | `tar.rs`: the writer, what other tools write, the reader | the pipe, `Writer`'s and `Reader`'s fields, what `next` carries | |
| `Pack` | `pack_into` | the stack of the walk, inodes seen | |
| `Unpack` | `unpack_stream`, `apply_whiteout`, `unpack_file` | the volume, the contents in hand, deferred directories | |
| `Archive` | the composition: a packer or another tool, a pipe, an unpacker | who writes | `Layer` |
| `ArchiveProofs` | theorems about `Archive`: the stream, from either writer to the unpacker | | |
| `UnpackProofs` | theorems about `Archive`: the volume that is unpacked onto, and `Layer` | | |
| `OutcomeProofs` | theorems about `Archive`: what an unpacking leaves in the end, and the round trip | | |
| `Layer` | abstract: what each path holds, entry by entry | | |
| `MC*` | the small instances | | |

### Allocator

`blockCache`, `inodeCache`, `dirtyBlock` and `dirtyInode` are the fields of
`BitmapCache`; a bitmap enters the cache when a call first reads it (`KeepBlock`,
`KeepInode`, and `Searched` for the groups a search looks at on its way).
`desc` and `sb` are the library's descriptors and superblock in memory; `disk` is
what the device holds. `AllocBlock(goal)` is the whole search: the groups from the
goal's, wrapping round, and in each the bits from the goal's to the end and then
those before it. `flush` is one action per device write (`FlushBlockBitmap`,
`FlushInodeBitmap`, `FlushDesc`, `FlushSuperblock`, `FlushDevice`) with the moments
between them at which it may fail (`FlushFails`) or be cancelled after a write
reached the device and before the code after the await ran
(`BlockWriteUnanswered`, `InodeWriteUnanswered`). `Drop` and `Open` end and begin
sessions on what the device holds. A checksum is the bitmap it was computed over.

### FileMap and FileStore

A call runs through `pc` one await at a time: take back excess, take data blocks,
write them, free the old map's blocks, take new ones, write the inode.
`used` is the allocator's bitmap, `inode` what the device holds, `call` the
locals of the running call. `Allocator` is seen through what it promises: the
first free block from the goal on, then the first free block, and failure only
when there is none. `NoSpace`, `TooFragmented` and `Fault` are the ways a call
fails.

Abstractions: lengths are in blocks, so the read-modify-write of a partial block
is not modelled; what a free block holds is normalised to `Other`; where the
pointers of a map go is left out, the *number* of its blocks is not.
`FreeExcess` models the branch of `write_data` that shortens a list; no public
call reaches it with a shorter list, because each truncates first or grows.
After a failure that leaves an inode naming free blocks (`harm = "torn"`) the
model makes no further call: what happens then is `MapSurvivesFailure`, below.

`IndirectMap` has where the pointers go, for block-mapped files: `OpenIndex`, `WriteLeaf` and
`CloseIndex` are the three things the loops of `write_indirect_map` do with a block, at whatever
level, in the order the code does them (a block is written after those it names), and
`BlockAt` walks the result as the library does, by division, which shares nothing with how it was built. `SizeForecast` ties it to the count that `FileMap` uses. The layout
of extent trees is not modelled.

`FileStore` says what a caller may rely on: while a call runs its own file may read
as anything, no other file changes, and a call that returns Ok leaves what was
asked. `FileMap` implements it with the contents read through the block lists
(`KeepsPromise`).

### Namespace

Each call is the list of writes it makes (`RmdirWrites`, `RenameWrites`, ...),
made one by one by `Do`; between any two, the call may fail (`NoSpace` when an
inode or a directory block is wanted, `NameRefused` for a name only `link_into`
checks, `PointFails` when `..` cannot be rewritten, `Fault` for the device).
`rename` onto an existing name runs the nested `unlink` or `rmdir` first and then
goes on (`RenameGoesOn`). Calls refused before their first write change nothing and
are not actions. `before` and `gone` are history, for `NoNameLost`; `harm` says
whether a call has failed and left a leak or a torn state, after which no call
starts.

Abstractions: a path is a directory and a name; `.` and `..` as last components
are excluded; a directory becomes indexed when its first block, which holds
`BlockNames` names, is full; `LinkModulus` is 2^16 and out of a run's reach. `Reachable` is what
every set of inodes contains that holds the root and what its members name
(`HoldsTree`): a closure without recursion, which the proofs can use.

### Directory and NameSet

`blocks` are sequences of `[name, span]`; a name is a number in the order in which
the rebuild breaks ties (`InOrder` puts each name at its rank). Blocks are cut at `Limit`, entries need `Need[n]`. `index`
is empty while the directory is a list; afterwards it is a sequence of nodes, each
with the hash the root gives it and its own entries. An index of one level is a
single node, which is what the root then is. `PackLeaves` and `IndexOver` build
leaves and nodes as `pack_leaves`, `plan_index` and `rebuild_index` do, with the
low bit set on a leaf that continues a run of equal hashes; `LeafRun` walks them as
`leaf_run` does. A rebuild is one step. `RefuseNoSpace` stands for `alloc_block`
failing before anything is written.

### Tree, TarStream, Pack, Unpack, Archive and Layer

`Tree` gives a volume as archives see it: paths name inodes, several paths may name one,
and a call changes that at once. (How its writes are ordered is `Namespace`'s business,
and its blocks `FileMap`'s.) An inode has a kind, contents, attributes (mode and owner),
labels (extended attributes) and a time, where 0 is whatever time the volume stamps on
a change.

`TarStream` is `tar.rs`. A stream is a sequence of units, `BLOCK` to a block: a unit is
the fields of a header, a unit of contents, an extension's body, a zero, or the rest of
a block. Only the reader's own arithmetic tells it which it is looking at: contents read
as a header look like one to it, so an error in sizes or padding shows as an entry
nobody sent. `Start`, `Write` and `Finish` are the writer's calls, with
`end_entry`'s padding in them; `GnuHeader`, `Declare`, `StartUnknown`, `LoneZeroes` and
`Leave` are what other tools write and the reader is made to accept; what `StartUnknown`
writes has a name that fits its field. `Reader::next` is a
loop of actions over one header each (`LongName`, `PaxRecords`, `SkipUnknown`, ...) with
its local variables in `carried`; `Deliver` is its return with an entry. `Break` ends the
stream anywhere. The reader takes a whole block or body in one step, since
`fill` loops until it has it, however little each read gives; contents it reads in any
portions. The writer waits until the reader has emptied the pipe: what was written
further ahead cannot be told from what is written later. A break is modelled when it
falls short of what the reader takes next, which is when it shows.

`Pack` walks a tree with the stack of `pack_into`, names in order (`InOrder`, a path's place
being the number of its siblings not after it), and remembers the first name of an
inode that has several. `Unpack` has one action per arm of the `match`
of `unpack_stream`, with `mkdir_all` of the parents and `replace` in it;
`unpack_file` is a state of its own (`at = "contents"`) because reads of the
stream come between clearing the name, creating the file empty and writing its inode.
Directories wait in `deferred` and are stamped one by one at the end, deepest first.
Every call may fail: `EntryFails`, `ContentsFail` and `RestampFails` leave the volume
in any of the states the calls go through. `Archive` composes them: a stream written by
`Pack` from a source tree onto an empty volume, or by another tool onto a lower layer.

`Layer` says what a layer promises, without streams, inodes and shared names: each entry
has its effect on its path and what is under it, and none elsewhere, and when something
fails at most the entry in hand is half done. `KeepsLayer` is the refinement.

Abstractions: whiteouts are always obeyed, which only entries with a marker's name can
tell (`volume.rs:973`; `RoundTrip` is therefore about trees that are `Unmarked`, have no
such name, though a plain `unpack_tar` takes those too); the destination
is the root; paths are resolved without following symlinks, as the library's
`resolve_path` does; a directory's block has room for a new name, so creating a file or
link leaves its parent's time alone (`mkdir`, which rewrites the parent, does not);
a long path is one the name field cannot hold, whatever its length; records in PAX
headers are names, links and labels, and never numbers; sockets, which become pipes,
and the attributes of symlinks, which unpacking does not set, are left out of the
round trip, and a file whose mtime is 0 comes back with the volume's time.

## 3. Runs, bounds and what they show

| run | expects | distinct states | question |
|---|---|---|---|
| `allocator` | pass | 170 856 | Do counters, flags, dirty marks and the flushed image stay exact, with failed and cancelled flushes and several sessions, and is a silent drop harmless to the bitmaps? |
| `filemap` | pass | about 1.04 million | Two files share five blocks and every call may fail anywhere: are blocks owned once, marked, counted, given back, and is `FileStore` implemented? |
| `filemap_torn` | violation | | Does a refused write leave the file mapped by its own blocks? |
| `filemap_count` | violation | | Is `i_blocks` in step after every write? |
| `filemap_hole` | violation | | Does `write_at` on a sparse file read back? |
| `indirect_map` | pass | 31 634 | Does an indirect map read back, is all of it found again, and is `FileMap`'s count of it right, at every length? |
| `namespace` | pass | 250 432 | Do names, link counts and the tree agree between calls, and never lose a name, with failures at any two writes, each of which leaks at most an inode? |
| `namespace_indexed` | violation | | Does `..` follow a moved directory? |
| `directory` | pass | 56 320 | Do the blocks and the index implement a set of names, as a list, one level and two? |
| `directory_nodes` | violation | | Does the index lead to every name when equal hashes cross two nodes? |
| `archive` | pass | 1 298 982 | Does the reader deliver what was written, a packed tree come back, a layer do what it promises, and unpacking end, wherever the stream or a call fails? |
| `archive_link` | violation | | Does an entry with a very long link target keep its path? |

**allocator.** Two groups, one of four blocks and the last of the three that are left,
block 0 outside, one inode each; the first group is full from the start. Two groups are
the least with a wrap to an earlier group and a search that passes a full one; two data
blocks in a group are the least with a goal that is not the first free bit and a search
that wraps inside the group, which is the short one.
Goals include one below `first_data_block` and one in the full group. One flush of a
session may fail (`MaxFailures`, counted from `Open` on), at every write. A second
failure repeats the first: a failure leaves only dirty marks and stale copies, and
both sets take all their values with one. The proofs hold for all bounds.

**filemap.** Five blocks, extents of at most two blocks, one inline extent, two per
leaf, one direct pointer and one pointer per indirect block: files of three blocks go
through every shape of map. The volume fills up, so every allocation also fails.
One call fails for another reason, at any await. `AttributeFiles`, `Lengths` and `Offsets`
choose who has an attribute block and which writes are made; a map of three levels is
`indirect_map`'s.

**indirect_map.** Two direct pointers and two in a block, so that a map reaches 16 blocks
and has all three levels with more than one block in each; every length up to 18, with up to
two holes anywhere. Two holes are the least that make a whole block of pointers empty.

**namespace.** Four inodes, three names of which one is refused by `link_into`, one
name per directory block: two nested directories and a file with two names, or
three directories, are enough for a move that changes parents, for replacing a
directory, for moving into a subtree, and for running out of inodes. With five inodes, five steps of
`is_ancestor` and one failure the same run has 6.95 million states and found nothing else. `AncestorSteps`
is three, so that the deepest move the climb has to refuse is found at its last step; a
climb one step shorter, or a fifth inode, lets a directory be moved into itself
(section 6). Two calls fail, the second among what the first has leaked. The two names that are not refused are
symmetric: no action or property distinguishes them.

**directory.** Six names of lengths 2, 5 and 6 in blocks of 10, so that a block holds
one or two; root and nodes hold two entries. The directory goes from a list to
one level (two leaves), to two (four leaves), and is refused beyond. Two names with
the lowest hash collide and fill a leaf each, two of the highest collide in one leaf.
In `directory_nodes` three names collide and their leaves cross from one node to the
next. Real limits are 507 and 510; the model's arithmetic is the same.

**archive.** Two names, a directory of two more, four inodes; every name called `b` is too
long for the header. Every tree that these allow is packed, with files under no, one or
several names in one directory or two. Another tool writes up to three entries and
records, out of 22 kinds of entry (directories, files of none to three units, symlinks,
hard links, markers, the root), onto an empty volume and onto two lower trees, one with
a hard-linked file. Three entries are what it takes to make a directory, put something
into it and name it again, or to mark, replace and link. A block of two units is the
least in which contents end inside and at its end; three units of contents span two
blocks; `Chunk` and `InlineLimit` of two make a file of three stream and one of one not.
The unknown entries are sized one and two, with padding and without. `archive_link` is
the same with `Spills` not empty, on archives of one entry.

The `archive` run checks for deadlock: neither end of the pipe ever waits for the other
for good, and a finished unpacking stutters by `Finished`. In the other runs it
is not checked: a model stops where the program may, with the volume closed
for good, after a torn failure, or with the bounds used up.

Every property is shown to be able to fail by a mutant: an operator in the module,
named beside the definition it replaces (for instance `NoWrapSearch` for
`SearchedBits`), that changes it as a plausible bug would. They are listed in
`PROJECT.json` and no other definition uses them.

### Properties

* `CountersInStep`, `UnusedTailIsUnused`, `UninitGroupHasNoData`: the descriptors'
  numbers and flags describe the bitmaps.
* `ChangedIsDirty`, `FlushedImageExact`: nothing is forgotten by a failed flush.
  `SilentDropKeepsBitmaps`: when a volume goes without a warning, no block or inode it handed out is free on
  the device. (Counts may be stale, section 6.)
* `NoSpaceOnlyWhenFull`: the search is complete. `GoalHonoured`, that it keeps files contiguous, is a
  theorem and has no run.
* `OwnedIsUsed`, `OwnedOnce`, `NothingLeaks`, `BlocksCounted`: owners, bitmap and
  `i_blocks` of `FileMap`; `KeepsPromise`: the refinement.
  `DamageIsOwn`: what the others leave out, the state a failed call has torn.
* `ReadsBack`, `MapBlocksFound`, `SizeForecast`: what an indirect map says, that all of it can be given back,
  and how large it is.
* `NamesPointAtInodes`, `NoNameLost`: at *every* step of `Namespace`, also when a
  call has failed in the middle. `LinkCountsExact`, `TreeShape`, `NothingLeaks`:
  between calls. `LeaksBounded`: what failed calls leave in use and out of reach is an inode each, at every
  step and whatever they were doing.
* `BlocksAreTiled`: the chain of entries. `NothingMoves`, that only a rebuild moves one, is a theorem and
  has no run. `LeavesInHashOrder`,
  `FoundThroughIndex`: the index. `NodesFresh`: no run of equal hashes crosses from one node
  to the next, which is what the lookup relies on. `KeepsNames`: the refinement of `NameSet`.
* `GotIsSent`, `NothingMissing`: what the reader delivers is a prefix of what was sent, at
  every step and from every tool, and all of it when the stream was whole.
* `PackedInOrder`, `RoundTrip`: an archive is ordered, links go back, and packing and
  unpacking is the identity on kinds, contents, shared names, attributes and times.
* `LastWord`: after the deferred directories, for every path but those of markers, in archives where no
  directory becomes something else. `StampStaysOnPath` is about the others too: a path that does not look as
  its last entry said looks as the directory did whose path it is, or whose path another
  name of the same inode is, and as nothing else.
  `KeepsLayer`: at every step. `Ends`: liveness.

## 4. Fairness

`Archive` states weak fairness of three tasks: whoever writes the stream, the reader, and
the unpacking. Each is a loop that goes on whenever the stream lets it. Nothing is
assumed of `Break`: no stream has to break off. That the writer goes on is
an assumption about the other end, without which a reader waits for ever and rightly so.
`Ends` says that unpacking then comes to an end, done or failed: the reader
makes progress on every read or gives up, also on a stream that stopped. The other modules
are checked for safety only.

## 5. Proofs

`AllocatorProofs` proves, for every number and size of groups, every metadata
layout, every set of goals and every number of failures:

| theorem | states |
|---|---|
| `InvHolds` | the inductive invariant |
| `TypeCorrect` | `TypeOK` |
| `CountersStayInStep` | `CountersInStep` |
| `UnusedTailStaysUnused` | `UnusedTailIsUnused` |
| `UninitGroupsHoldNoData` | `UninitGroupHasNoData` |
| `ChangedStaysDirty` | `ChangedIsDirty` |
| `NoSpaceMeansFullDisk` | `NoSpaceOnlyWhenFull` |
| `GoalsAreHonoured` | `GoalHonoured` |
| `FlushIsExact` | `FlushedImageExact` |
| `SilentDropIsSafe` | `SilentDropKeepsBitmaps` |

**Assumptions.** `GeometryAssumption` (at least one group, block and inode; the root and
the other reserved inodes in group 0; the last
group not empty), `MetadataAssumption` (metadata lies inside its group),
`GoalsAssumption`, `MaxFailuresAssumption`. TLC evaluates them in the runs of `MCAllocator`.

**Argument.** The safety properties are not inductive one by one, so `Inv` is their
conjunction with three facts more.
`DirsAreInUse`: every directory's inode is in the bitmap, or freeing it could not lower
the tally by one. `CleanIsStamped`: the descriptor of a group that is not dirty holds
the checksum of its bitmap, which is what carries `FlushedImageExact` across flushes
that failed. `FlushProgress`: what each phase of a flush has written so far; its last
phase is `FlushedImageExact`. Counters need facts about cardinalities (`CountAdd`,
`CountRemove`, and the four lemmas `BlockTakenCounts` to `InodeGivenCounts`): one
bit moves, one group's count and the total move by one. `NoSpaceOnlyWhenFull` rests on
`SearchIsComplete`: `GroupCount` steps from any start visit every group, and in a group
the two ranges of the search cover every bit. `SilentDropIsSafe` follows from `ChangedIsDirty` at the
moment of the drop (`OnlyDropCloses`, `WarningIsDue`). Each `Inv...` lemma has one step per
action.

`FileMapProofs` proves, for every number of files and blocks,
every size of extents, leaves and indirect blocks, all contents, all the lists the
volume is opened with, and every number of failing calls, also at every await:

| theorem | states |
|---|---|
| `InvInvariant` | the inductive invariant of `FileMap` |
| `TypeInvariant` | `TypeOK` |
| `OwnedBlocksAreUsed` | `OwnedIsUsed` |
| `BlocksHaveOneOwner` | `OwnedOnce` |
| `FailedCallTearsOnlyItsFile` | `DamageIsOwn` |
| `NoBlockLeaks` | `NothingLeaks` |
| `FileMapKeepsPromise` | `KeepsPromise`, which is that `FileMap` implements `FileStore` |
| `BlocksStayCounted` | `BlocksCounted` |

**Assumptions.** `FilesAssumption`, `SizesAssumption`, `InitialAssumption` (no block
is in two places of the lists the volume is opened with). The last two theorems also
assume `InitiallyWhole`: no file has holes at first. Without it they are false, and
`filemap_hole` (section 6) shows the first of them failing.

**Argument.** `Inv` says at each step of a call what the call still keeps of its file's
blocks (`Kept`, by the step), what it holds that no inode names yet (`InHand`), that
the two are apart and used, and that no other file shares either (`Owned`); and, while
no call has failed, that nothing else is used (`Accounted`). `OwnedOnce` alone is not inductive:
it does not say that what a call has given back is no longer in its hand when the
allocator hands it out again. What remains open is a call that fails
after giving back blocks its inode still names: `harm` is then `"torn"`, `Inv` says
nothing of who owns what, and `filemap_torn` shows why. What can be said is `DamageIsOwn`: `Owned` gave it up to the step
that failed, which changes neither bitmap nor inode (`TornBy`), and no step comes after (`TornStops`). Two lemmas carry every step:
`FrameOwned` (a step that gives back only its own file's blocks and records only free
ones leaves the others theirs) and `FrameAccounted`. `AllocIsFree` is what is used of the
allocator: whatever the goal, the block was free. For the refinement, `Written`
adds how much of what was asked for is stored at each step; `SameContents` and
`OthersKept` reduce "no other file changes" to `Owned`. For `i_blocks`, `Counted` adds that the map
blocks in hand are distinct, and `DistinctCount` that a list naming no block twice names as many as
its length.

`NamespaceProofs` proves, for every number of inodes and set of names,
every number of failing calls, failing at every write, with metadata checksums and without:

| theorem | states |
|---|---|
| `TreeInvariant` | the inductive invariant of `Namespace` |
| `TypeCorrect` | `TypeOK` |
| `NamesPoint` | `NamesPointAtInodes` |
| `NamesKept` | `NoNameLost` |
| `CountsExact` | `LinkCountsExact` |
| `AllRooted` | the second layer of the invariant, that everything named is under the root |
| `TreeKeepsShape` | `TreeShape` |
| `NothingLost` | `NothingLeaks` |
| `SmallIsShallow` | `Shallow` and the second layer, if there are at most `AncestorSteps + 1` inodes |
| `SmallIsWhole` | `NamesPointAtInodes`, `NoNameLost`, `LinkCountsExact`, `TreeShape` and `NothingLeaks` with neither hypothesis, if the volume is small |

**Assumptions.** `NamesAssumption`, and two limits of the code that no call looks at,
stated as hypotheses about the execution. `LinksFit`: no link count is asked to be more
than 16 bits hold (`volume.rs:614` adds one without looking). `Shallow`: between calls the climb of
`is_ancestor`, 4096 steps (`volume.rs:714`), gets from any directory to the root or to a directory in it. Without the
first, `LinkCountsExact` is false; without the second, a directory can be moved below
itself and `TreeShape` is false (section 6). Only `AllRooted`, `TreeKeepsShape` and `NothingLost` need `Shallow`, and both
hypotheses are theorems where the volume is small: `SmallIsWhole` asks that
`2 + InodeCount * Cardinality(Names) < LinkModulus` and `InodeCount <= AncestorSteps + 1`.
The run's instance satisfies both, the second with nothing to spare, and it is as weak as
it can be: with one inode more `TreeShape` is false.

**Argument.** The properties say what holds between calls; a call makes up to a dozen
writes, and may stop after each. `Inv` is `Core`, which holds always, and one of `Rest` and
`Working`. `Working` has one disjunct per write that can come next (`AtAllocate`,
`AtMake`, `AtAddName`, `AtTakeName`, `AtPoint`, `AtDropLink`, `AtAddLink`, `AtClear`, `AtFree`):
it names the writes still to make and the inodes whose count they will put right
(`Counted(S)`: exact everywhere but on `S`), so that a step proves the
disjunct of the write after it. While a `rename` clears its destination, what is to follow
(`next`) is kept as `MayMove` or `WillMove`. A name is safe to take because the call
that takes it is either asked to or has made another first, and that is `NoNameLost`.
The second layer, `TreeInv`, is induction over the tree in the only form the prover has
it, a closed set: `Rooted` says every name can be reached, `Apart(i, d)` that some set
closed upwards holds `d` and not `i`, and `MovesApart` that a directory about to
be moved is apart from where it goes. The climb of `is_ancestor` yields such a set, with one step added, when it
ends at the root or just below, which is `Shallow`; a move keeps `Reachable` because the set survives it.

`DirectoryProofs` proves, for every set of names, with every length and hash, every size
of block, root and node, from a list to an index of two levels:

| theorem | states |
|---|---|
| `DirectoryInvariant` | the inductive invariant of `Directory` |
| `TypeCorrect` | `TypeOK` |
| `Tiled` | `BlocksAreTiled` |
| `EntriesStay` | `NothingMoves` |
| `HashOrder` | `LeavesInHashOrder` |
| `NamesFound` | `FoundThroughIndex`, as long as `NodesFresh` |
| `DirectoryIsSet` | `KeepsNames`, that `Directory` implements `NameSet`, as long as `NodesFresh` |
| `OwnHashes` | `NodesFresh`, and so both without a hypothesis, if no two names share a hash |

**Assumptions.** `NamesAssumption` (an entry fits a block, hashes are even as the code
makes them), `LimitsAssumption`. `NamesFound` and `DirectoryIsSet` have the hypothesis
`NodesFresh`, that no interior node begins with a leaf that continues a run of equal
hashes. It is exactly what goes wrong in `directory_nodes` (section 6), so neither
theorem holds without it. The run `directory`, in which names do collide, checks it;
`OwnHashes` proves it for names whose hashes differ.

**Argument.** `Inv` says that every block is a `Block` (its entries are lawful and their
spans sum to its length), that a name lies in one block (`Once`), and that the index is
`Guided`. The index hides hashes: the first leaf of a node has none of its own,
and the one the node has was only written at the rebuild. So `Guided` says that *there are*
hashes `h` of the leaves and first leaves of the nodes of which `index` is what a
rebuild writes (`Over`), that they rise, and that a name lies between its leaf's and the
next one's (`Between`); one too high is allowed, which is the low bit of a continued
leaf. An insertion goes to a leaf that `FindIs` places in `h`, and keeps `h`; a rebuild
chooses it anew. `LeafRunIs` says which leaves a lookup walks, and `Found` that a name is
in one of them unless the walk ended with its node. `OneBlock` is
the frame of `Link` and `Unlink`, `RebuildKeeps` that of a rebuild. What the two folds
compute is proved by induction over the elements taken so far: `Induction` derives from
the library's well-founded induction that a set of numbers holding 0 and, with a number,
its successor holds them all (`NumbersReached`). `Sums` is the sum of spans, and `Packed`
says of the leaves made so far that they hold the names so far, fit, and are in order.
`InOrderIs` says that the ranks of names are a sorting of them.

`ArchiveProofs`, `UnpackProofs` and `OutcomeProofs` prove, for every size of blocks and reads, every set of trees
to pack and of volumes to unpack onto, every archive another tool may write, every point at
which the stream breaks off and every call of the unpacking that fails:

| theorem | states |
|---|---|
| `StreamInv` | the inductive invariant of the stream |
| `DeliveredAsSent` | `GotIsSent` |
| `AllDelivered` | `NothingMissing` |
| `ArchiveInOrder` | `PackedInOrder` |
| `UnpackInv` | the inductive invariant of the whole: the stream and the volume |
| `ArchiveTypes` | `TypeOK` |
| `LayerIsKept` | `KeepsLayer`, that `Archive` implements `Layer` |
| `OutcomeInv` | the inductive invariant of what the entries so far have left behind |
| `LastWordStands` | `LastWord` |
| `TreeComesBack` | `RoundTrip` |

**Assumptions.** `StreamAssumption`, `PathsAssumption`, `OrderAssumption`, `UnpackAssumption`,
`LowerAssumption` (what is unpacked onto is a volume, `IsVolume`: its names name
inodes in use, inodes without a name are free, a directory has one name, and directories lead to
every name), `SourcesAssumption` (what is packed is one too, and a file's units are those
that `Contents` has for a file of its attributes and length, which is how contents are told
apart in the stream)
and `ToolAssumption`, all evaluated by TLC in `archive`. All but `ArchiveInOrder` have the
hypothesis `Spills = {}`: no link target is so long that it is written over the prefix field.
Without it `GotIsSent` is false (`archive_link`, section 6). It leaves long
targets and long names in: those in `Long` travel in PAX or GNU records.

**Argument.** A reader that loses count by one unit takes contents for a header, so the
invariant has to say, unit by unit, what is in the pipe. `Inv` does so by the reader's
position. With an entry in hand (`InHand`) what is left of it is what the pipe holds and what the
writer still owes, and the padding is yet to be written. Otherwise (`Between`) there may be padding, and behind it one of: the end
marker or a part of it (`Over`), something that is no entry (`Quiet`), or the
entry that was put in last (`Coming`). That is in one of five forms, from the first header of
its extensions to its own block, and `Tray` says what `next` carries at each. After the
end the pipe is empty or holds what follows the marker (`ReadWhole`), and once the stream has broken off it
has less than the reader `Needs` (`BrokenOff`). For each form a lemma says what the
reader makes of the head of the pipe (`AtExtension`, `AtEntry`, `AtUnknown`, `AtZeros`), and
`PackedResolves` and `GnuResolves` that the header put together from the block,
what is carried and what is declared for all is the one meant. A writer puts
its next record into a pipe that is empty and finds the reader at a known place
(`MayStart`), so each writer's step makes one of the forms (`StartKeeps` and the like). The
other part of the invariant, `Walk`, is that `pack_into`'s stack holds paths of the tree,
from which comes that what it writes is a header (`PackedIsGood`).

The order of an archive has an invariant of its own, `Ordered`, about what waits on the stack: a
level's paths by name, a deeper level's ahead of those of the levels it is in, and what is written
ahead of all of them. `LeftOf` (two paths part, and the first takes the smaller name) survives
when a path is replaced by what is in it (`ChildWith`), which `Before` does not; so the levels are
ordered by the one, and what is written by the other. `ChildrenSorted` is that
ranks sort. For hard links, `seen` remembers only names that were written with their contents.

For the volume, `UInv` adds that it is `Sound` (an inode has a name or is free, by which
`Make` finds a free one: there are as many inodes as paths) and that what its paths hold,
`Shown`, is `Shaped` like a tree. What each call of `Tree` does to `Shown` is worked out once
(`WithoutIs`, `MakeIs`, `MakeAllIs`, `LinkIs`, `StampIs`), so that an action of `Unpack` becomes a
comparison of functions on paths: opening, clearing and putting is `PlacedIn`, which is
`Layer`'s `Placed`. Three things carry the file in hand. `Arrived` says what of its contents has
been gathered, unit by unit, and that the pipe holds the ones behind, which rests on
the stream invariant. `InPlace` says that its path is free, or names an empty file that no other path
names, for as long as they arrive: nothing else touches the volume between `remove_all` and the
write. `Deferred` says that what is to be stamped is a path of the volume, also after
`sort_by_key`, whose ranks `DeepestFirstIs` shows to be a sorting that keeps the order of equals.
That the tree keeps its shape needs no case of its own: it follows from `Layer`'s steps (`ShapeKept`).

`LastWord` and `RoundTrip` are about whole histories: what all the entries so far add up
to. `Outcome`, over `UInv`, says what is left of them (those that are dealt with,
`Settled`): a path whose last entry was a file or a device holds what that entry said
(`Filed`); one whose last entry was a directory is noted in `deferred`, with that
entry's attributes, and no other note for the path comes after it (`Noted`, `Tidy`,
`Origin`), until it is stamped (`Stamped`). A path that is no directory keeps its inode
until an entry for it comes (`Firm`), since other entries write directories only, and a
directory has one name (`Lone`), so a stamp reaches no other path. That the last note
wins is where `DeepestFirstIs` is needed again: a sorting that keeps the order of
equals. For the round trip there are two more invariants. `Told` is about the packer:
every entry says of its path what the tree does (`Tells`); of the names of an inode all
but the first become hard links (`FirstNames`, `Remembered`); parents go ahead of what
is in them (`ParentsFirst`, `ParentsSent`); and every path whose parent is sent is sent
too or waits on the stack (`NoneForgotten`). `Copied` is about the unpacker: the paths
of the new volume are exactly those that came, no parent needs making, nothing is
replaced, each is `Alike` its original but for a directory's attributes, and two names
share an inode where their originals do. At the end all paths came (`AllCame`, by the
least path that did not), and `LastWord` gives directories their attributes.

**Only model-checked.** `Ends`, since liveness is out of the prover's
reach, `IndirectMap`, `LeaksBounded` and `StampStaysOnPath`. `NodesFresh`, which is false of `Directory` in general (section 6), is a
hypothesis of two theorems, and is proved where no hashes are equal. What `RunLength`
computes is not proved either: the theorems about `FileMap` hold for whatever number of
blocks a map takes.

## 6. Where the code and its documents disagree

Each of these has a run whose counterexample shows it.

* `filemap_torn`: `write_block_list` frees the old map before the new one is known to
  be possible; on an error the inode keeps naming freed blocks (`map.rs:105`).
* `filemap_count`: `write_data` recomputes `i_blocks` without the attribute block
  (`volume.rs:1592`).
* `filemap_hole`: a hole in a list is block 0, and `write_data` writes it
  (`volume.rs:1579`).
* `namespace_indexed`: `..` of an indexed directory cannot be rewritten by
  `repoint_dotdot` with metadata checksums on, and the move fails half-way
  (`volume.rs:744`).
* `directory_nodes`: `leaf_run` stops at the end of an interior node
  (`index.rs:182`).
* `archive_link`: a link target of more than 188 bytes is written over the rest of the
  header into the prefix field, which a short path leaves as it is; the reader
  puts the piece in front of the path (`tar.rs:684`, `tar.rs:369`).

These were met on the way and have no run. The models exclude them where it says so.

* A flush that fails after the bitmaps has cleared the dirty marks, so `Drop` is
  silent although descriptors and superblock are stale (`alloc.rs:301`; the doc at
  `volume.rs:283` promises a warning). `SilentDropKeepsBitmaps` is what is left of the promise.
* `is_ancestor` gives up after 4096 steps and answers no, so a directory can be
  moved into its own subtree far enough down (`volume.rs:714`).
* `write_with`, `mkdir`, `mknod` and `symlink` take and write an inode before `link_into`
  looks at the name; a name it refuses leaves the inode in use and unnamed (`volume.rs:1646`).
  `LeaksBounded` is the limit of that.
* A file's 65536th name makes its link count 0, in a release build, and the next `unlink`
  frees it under the others (`volume.rs:614`).
* Directories are stamped at the end by path. When a later entry has put a file where
  the directory was, the file gets the directory's mode, owner, labels and time, which is not
  what "entries that appear later win" (`volume.rs:898`) says; when it is a symlink, the
  symlink does (`volume.rs:1066`); when it is a hard link, so does the file under all its names.
  `StampStaysOnPath` says it goes no further.
* A long name or PAX header in front of an entry of unknown type goes to the next entry
  (`tar.rs:353`). Tools in the model give such entries names that fit their field.
* When a later marker has removed a directory that waits to be stamped, the whole unpacking fails
  with `NotFound` after its last entry (`volume.rs:1068`); it is `RestampFails`.
* `rename` removes its destination before it knows that the new name can be made (`volume.rs:651`): out of
  space, the destination is lost and nothing has moved. No document says otherwise, and `NoNameLost`
  says that nothing else is lost.
* An opaque marker behind its directory's new contents removes them; the doc
  (`volume.rs:922`) says markers come first. `Layer` says the same as the code.
* A hard link entry for a name that is its target's last one removes it and then fails
  (`volume.rs:1022`). `Layer` counts it as an entry that cannot be applied.
* A second global header replaces the first whole (`tar.rs:337`). Tools in the model
  declare labels only, so nothing else is lost with the first.
* A file over 8 GiB is packed with its size cut (`tar.rs:664`); no size in the model is large.
* `pack_tar`'s doc (`volume.rs:1244`) has ownership and timestamps survive the round trip.
  A symlink comes back as `root` with the time of the unpacking, and an mtime of 0
  likewise; a socket comes back as a pipe. `RoundTrip` leaves these out.

## 7. Not modelled, and why

* Text and numbers of tar headers: octal and base-256 fields, PAX record syntax, numbers
  in PAX records, checksums. They are pure conversions on bytes.
* Progress reports and counts of `UnpackReport` and `PackReport`.
* Rebuilding an index block by block with a failure between: `Directory` takes a
  rebuild as one step. Blocks a directory takes and gives back are not in `FileMap`.
* Reading a failed volume on: after a torn failure no further call is made.
* Archive front end, command line, errors: no state of their own.
* Extended attribute encoding, checksums, timestamps, modes, `chmod`, `chown`,
  `set_times`: layout, or one field of one inode.
* `mkfs_ext4`: external. Where a definition stands for a function of it, the map in
  `PROJECT.json` says so.

## 8. Plan

1. *Done.* `Allocator`, and `FileMap` over `FileStore`, with their proofs; `Namespace`;
   `Directory` over `NameSet`; `TarStream`, `Pack` and `Unpack` composed in `Archive`
   over `Layer`.
2. `Directory`: a rebuild written block by block, on blocks from the allocator, and
   a run for how full a rebuild leaves its leaves.
3. Proofs. *Done*: every safety property that the passing runs check, of `Allocator`, `FileMap`,
   `Namespace`, `Directory` and `Archive`, but for those section 5 lists as only model-checked. Next: those, and what a change of item 2 or 4 calls for.
4. `Namespace` with '.' as a last component and with link counts that reach their modulus.
