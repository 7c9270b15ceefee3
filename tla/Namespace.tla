------------------------------ MODULE Namespace ------------------------------
(***************************************************************************)
(* Names, directories and link counts: write_with, mknod, symlink, mkdir,  *)
(* link, unlink, rmdir and rename of Volume (volume.rs), over link_into    *)
(* and unlink_from.                                                        *)
(*                                                                         *)
(* Each call checks its arguments and then makes a fixed series of writes: *)
(* the inode bitmap, inodes, and directory blocks, one at a time, with no  *)
(* journal.  Nothing else runs meanwhile (every method takes &mut self),   *)
(* so the series is known when the call begins; what is not known is how   *)
(* much of it is done when the call fails.  A call that is refused changes *)
(* nothing and is not an action here.                                      *)
(*                                                                         *)
(* The blocks of files and directories are FileMap's.  A path is a         *)
(* directory that can be reached and a name in it, never "." or "..".      *)
(***************************************************************************)
EXTENDS Integers, FiniteSets, Sequences

CONSTANTS
    Names,           \* the names of directory entries
    BadNames,        \* the ones link_into refuses: empty or too long
    InodeCount,      \* the inodes are 1 .. InodeCount, 1 being the root
    BlockNames,      \* names that fit in the first block of a directory
    MetadataCsum,    \* whether the filesystem has metadata checksums
    AncestorSteps,   \* how far is_ancestor climbs (4096)
    LinkModulus,     \* i_links_count is an integer modulo this (2^16)
    MaxFailures,     \* bound: calls that fail
    DeviceFails      \* whether calls also fail between any two writes

Inodes == 1 .. InodeCount
Root == 1
None == 0

ASSUME NamesAssumption ==
    /\ IsFiniteSet(Names) /\ BadNames \subseteq Names
    /\ InodeCount \in Nat \ {0} /\ BlockNames \in Nat /\ AncestorSteps \in Nat \ {0}
    /\ LinkModulus \in Nat \ (0 .. 2) /\ MaxFailures \in Nat
    /\ MetadataCsum \in BOOLEAN /\ DeviceFails \in BOOLEAN

VARIABLES
    allocated,       \* the inode bitmap
    usedDirs,        \* the descriptors' used_dirs tally
    kind,            \* "dir", "file" or "none": the mode of each inode
    links,           \* i_links_count
    entries,         \* entries[d][n]: the inode directory d names n, or None
    dotdot,          \* where the ".." of each directory points
    indexed,         \* the directories that have become hash-indexed
    todo,            \* the writes the running call has still to make
    next,            \* what rename does once its destination is cleared
    before,          \* history: entries when the running call, or the call
                     \* nested in it, began
    gone,            \* history: the inode that call was asked to unname
    harm,            \* history: "none"; "leak" once a call has failed; "torn"
                     \* once one failed with names changed and writes to make
    failures         \* calls that have failed

inodeVars == <<allocated, usedDirs, kind, links>>
dirVars   == <<entries, dotdot, indexed>>
callVars  == <<before, gone, harm, failures>>
vars == <<inodeVars, dirVars, todo, next, callVars>>

NoNames == [n \in Names |-> None]

IsDir(i)     == kind[i] = "dir"
IsEmpty(d)   == entries[d] = NoNames
NamesOf(i)   == {p \in Inodes \X Names : entries[p[1]][p[2]] = i}
Subdirs(d)   == {n \in Names : entries[d][n] # None /\ IsDir(entries[d][n])}
FreeInodes   == Inodes \ allocated
Least(S)     == CHOOSE x \in S : \A y \in S : x <= y

\* What can be reached from the root: what every set holds that holds the root
\* and, with a directory, all it names.
HoldsTree(S) ==
    Root \in S /\ \A d \in S, n \in Names : entries[d][n] \in S \cup {None}

Reachable == {i \in Inodes : \A S \in SUBSET Inodes : HoldsTree(S) => i \in S}

Dirs == {d \in Reachable : IsDir(d)}

(***************************************************************************)
(* The writes calls are made of, in the order their code makes them.       *)
(***************************************************************************)
Allocate(i, k)     == <<"allocate", i, k>>       \* alloc_inode
Make(i, k, parent) == <<"make", i, k, parent>>   \* write_inode of a new inode
AddName(d, n, i)   == <<"addName", d, n, i>>     \* link_into
TakeName(d, n)     == <<"takeName", d, n>>       \* unlink_from
Point(d, parent)   == <<"point", d, parent>>     \* repoint_dotdot
AddLink(i)         == <<"addLink", i>>
DropLink(i)        == <<"dropLink", i>>
Clear(i)           == <<"clear", i>>             \* truncate, no links, a dtime
Free(i, k)         == <<"free", i, k>>           \* free_inode

CreateWrites(d, n, i) ==
    <<Allocate(i, "file"), Make(i, "file", d), AddName(d, n, i)>>

MkdirWrites(d, n, i) ==
    <<Allocate(i, "dir"), Make(i, "dir", d), AddName(d, n, i), AddLink(d)>>

LinkWrites(d, n, i) == <<AddName(d, n, i), AddLink(i)>>

UnlinkWrites(d, n) ==
    LET i == entries[d][n]
    IN  IF links[i] <= 1 THEN <<TakeName(d, n), Clear(i), Free(i, "file")>>
                         ELSE <<TakeName(d, n), DropLink(i)>>

FreeThenTake(d, n) ==
    LET i == entries[d][n]
    IN  <<Clear(i), Free(i, "dir"), TakeName(d, n), DropLink(d)>>

RmdirWrites(d, n) ==
    LET i == entries[d][n]
    IN  <<TakeName(d, n), Clear(i), Free(i, "dir"), DropLink(d)>>

KeepOldParent(i, from, to) == <<Point(i, to), AddLink(to)>>

\* Between two directories, a directory takes the link of its ".." along.
ParentWrites(i, from, to) == <<Point(i, to), DropLink(from), AddLink(to)>>

TakeThenAdd(fd, fn, td, tn) ==
    LET i == entries[fd][fn]
    IN  <<TakeName(fd, fn), AddName(td, tn, i)>>
        \o (IF IsDir(i) /\ fd # td THEN ParentWrites(i, fd, td) ELSE <<>>)

RenameWrites(fd, fn, td, tn) ==
    LET i == entries[fd][fn]
    IN  <<AddName(td, tn, i), TakeName(fd, fn)>>
        \o (IF IsDir(i) /\ fd # td THEN ParentWrites(i, fd, td) ELSE <<>>)

(***************************************************************************)
(* The calls.  What a call finds in a tree left half changed is not        *)
(* modelled: after that, none begins.                                      *)
(***************************************************************************)
Idle == todo = <<>> /\ next = <<>> /\ harm # "torn"

Begin(writes, after, unnamed) ==
    /\ todo' = writes
    /\ next' = after
    /\ before' = entries
    /\ gone' = unnamed
    /\ UNCHANGED <<inodeVars, dirVars, harm, failures>>

Vacant(d, n) == entries[d][n] = None

\* write_with on a new name, mknod and symlink.
Create(d, n) ==
    /\ Idle /\ Vacant(d, n)
    /\ FreeInodes # {}
    /\ Begin(CreateWrites(d, n, Least(FreeInodes)), <<>>, None)

Mkdir(d, n) ==
    /\ Idle /\ Vacant(d, n)
    /\ FreeInodes # {}
    /\ Begin(MkdirWrites(d, n, Least(FreeInodes)), <<>>, None)

Link(i, d, n) ==
    /\ Idle /\ ~ IsDir(i)
    /\ Vacant(d, n)
    /\ Begin(LinkWrites(d, n, i), <<>>, None)

Unlink(d, n) ==
    /\ Idle /\ entries[d][n] # None /\ ~ IsDir(entries[d][n])
    /\ Begin(UnlinkWrites(d, n), <<>>, entries[d][n])

CanRmdirFull(i) == IsDir(i)

CanRmdir(i) == IsDir(i) /\ IsEmpty(i)

Rmdir(d, n) ==
    /\ Idle /\ entries[d][n] # None
    /\ CanRmdir(entries[d][n])
    /\ Begin(RmdirWrites(d, n), <<>>, entries[d][n])

ClimbsOneShort(i, of) == i = of \/ i = dotdot[of]

\* is_ancestor: climb from a directory by "..", so many steps and no more.
IsAncestor(i, of) ==
    LET climb[k \in 0 .. AncestorSteps] ==
            IF k = 0 THEN of
            ELSE LET at == climb[k - 1] IN IF at = Root THEN Root ELSE dotdot[at]
    IN  \E k \in 0 .. AncestorSteps - 1 : climb[k] = i

\* rename.  A destination that is the same inode is left as it is, which is not
\* an action; any other is first removed, by unlink or rmdir.
Rename(fd, fn, td, tn) ==
    LET i == entries[fd][fn]
        e == entries[td][tn]
    IN  /\ Idle
        /\ i # None /\ e # i
        /\ IsDir(i) => ~ IsAncestor(i, td)
        /\ e # None /\ IsDir(e) => CanRmdir(e)
        /\ IF e = None
           THEN Begin(RenameWrites(fd, fn, td, tn), <<>>, None)
           ELSE Begin(IF IsDir(e) THEN RmdirWrites(td, tn) ELSE UnlinkWrites(td, tn),
                      RenameWrites(fd, fn, td, tn), e)

\* The destination is gone: rename goes on to its own writes.
RenameGoesOn ==
    /\ todo = <<>> /\ next # <<>>
    /\ todo' = next
    /\ next' = <<>>
    /\ before' = entries
    /\ gone' = None
    /\ UNCHANGED <<inodeVars, dirVars, harm, failures>>

(***************************************************************************)
(* The writes, one at a time.                                              *)
(***************************************************************************)
Do(write) ==
    /\ todo # <<>>
    /\ Head(todo) = write
    /\ todo' = Tail(todo)
    /\ UNCHANGED <<next, callVars>>

DoAllocate(i, k) ==
    /\ Do(Allocate(i, k))
    /\ allocated' = allocated \cup {i}
    /\ usedDirs' = IF k = "dir" THEN usedDirs + 1 ELSE usedDirs
    /\ UNCHANGED <<kind, links, dirVars>>

NewLinks(k) == IF k = "dir" THEN 2 ELSE 1

\* A directory is made with its "." and "..", and unindexed.
DoMake(i, k, parent) ==
    /\ Do(Make(i, k, parent))
    /\ kind' = [kind EXCEPT ![i] = k]
    /\ links' = [links EXCEPT ![i] = NewLinks(k)]
    /\ dotdot' = IF k = "dir" THEN [dotdot EXCEPT ![i] = parent] ELSE dotdot
    /\ UNCHANGED <<allocated, usedDirs, entries, indexed>>

\* Whether the next name of a directory may need another block.
Grows(d) == d \in indexed \/ Cardinality({n \in Names : entries[d][n] # None}) >= BlockNames

\* link_into refuses the name before it looks at anything; a directory with no
\* room left in its block becomes indexed, and stays so.
DoAddName(d, n, i) ==
    /\ Do(AddName(d, n, i))
    /\ n \notin BadNames
    /\ entries' = [entries EXCEPT ![d][n] = i]
    /\ indexed' = IF Grows(d) THEN indexed \cup {d} ELSE indexed
    /\ UNCHANGED <<inodeVars, dotdot>>

DoTakeName(d, n) ==
    /\ Do(TakeName(d, n))
    /\ entries' = [entries EXCEPT ![d][n] = None]
    /\ UNCHANGED <<inodeVars, dotdot, indexed>>

\* repoint_dotdot walks blocks as lists of entries, which the root of an index
\* is not when its block ends in a checksum.
CannotPoint(d) == d \in indexed /\ MetadataCsum

DoPoint(d, parent) ==
    /\ Do(Point(d, parent))
    /\ ~ CannotPoint(d)
    /\ dotdot' = [dotdot EXCEPT ![d] = parent]
    /\ UNCHANGED <<inodeVars, entries, indexed>>

DoAddLink(i) ==
    /\ Do(AddLink(i))
    /\ links' = [links EXCEPT ![i] = (@ + 1) % LinkModulus]
    /\ UNCHANGED <<allocated, usedDirs, kind, dirVars>>

DoDropLink(i) ==
    /\ Do(DropLink(i))
    /\ links' = [links EXCEPT ![i] = IF @ = 0 THEN 0 ELSE @ - 1]
    /\ UNCHANGED <<allocated, usedDirs, kind, dirVars>>

DoClear(i) ==
    /\ Do(Clear(i))
    /\ kind' = [kind EXCEPT ![i] = "none"]
    /\ links' = [links EXCEPT ![i] = 0]
    /\ dotdot' = [dotdot EXCEPT ![i] = None]
    /\ indexed' = indexed \ {i}
    /\ UNCHANGED <<allocated, usedDirs, entries>>

TallyUnchanged(k) == usedDirs

TallyOneLess(k) == usedDirs - 1

\* unlink tells free_inode it frees a file, rmdir a directory.
TallyAfterFree(k) == IF k = "dir" THEN usedDirs - 1 ELSE usedDirs

DoFree(i, k) ==
    /\ Do(Free(i, k))
    /\ allocated' = allocated \ {i}
    /\ usedDirs' = TallyAfterFree(k)
    /\ UNCHANGED <<kind, links, dirVars>>

(***************************************************************************)
(* A call that fails returns its error and undoes nothing.                 *)
(***************************************************************************)
Fails ==
    /\ failures < MaxFailures
    /\ failures' = failures + 1
    /\ todo' = <<>>
    /\ next' = <<>>
    /\ harm' = IF entries # before THEN "torn" ELSE "leak"
    /\ UNCHANGED <<inodeVars, dirVars, before, gone>>

AtWrite(what) == todo # <<>> /\ Head(todo)[1] = what

\* No room for the first block of a directory or a long symlink, or for the
\* next block of the directory a name is added to.
NoSpace ==
    /\ AtWrite("make") \/ (AtWrite("addName") /\ Grows(Head(todo)[2]))
    /\ Fails

NameRefused == AtWrite("addName") /\ Head(todo)[3] \in BadNames /\ Fails

PointFails == AtWrite("point") /\ CannotPoint(Head(todo)[2]) /\ Fails

\* A device error, or a future dropped by its owner.
Fault == DeviceFails /\ todo # <<>> /\ Fails

Init ==
    /\ allocated = {Root}
    /\ usedDirs = 1
    /\ kind = [i \in Inodes |-> IF i = Root THEN "dir" ELSE "none"]
    /\ links = [i \in Inodes |-> IF i = Root THEN 2 ELSE 0]
    /\ entries = [i \in Inodes |-> NoNames]
    /\ dotdot = [i \in Inodes |-> IF i = Root THEN Root ELSE None]
    /\ indexed = {}
    /\ todo = <<>>
    /\ next = <<>>
    /\ before = entries
    /\ gone = None
    /\ harm = "none"
    /\ failures = 0

CallBegins ==
    \/ \E d \in Dirs, n \in Names :
          Create(d, n) \/ Mkdir(d, n) \/ Unlink(d, n) \/ Rmdir(d, n)
    \/ \E i \in Reachable, d \in Dirs, n \in Names : Link(i, d, n)
    \/ \E fd, td \in Dirs, fn, tn \in Names : Rename(fd, fn, td, tn)

WriteMade ==
    \/ \E i \in Inodes, k \in {"dir", "file"} : DoAllocate(i, k) \/ DoFree(i, k)
    \/ \E i, parent \in Inodes, k \in {"dir", "file"} : DoMake(i, k, parent)
    \/ \E d, i \in Inodes, n \in Names : DoAddName(d, n, i)
    \/ \E d \in Inodes, n \in Names : DoTakeName(d, n)
    \/ \E d, parent \in Inodes : DoPoint(d, parent)
    \/ \E i \in Inodes : DoAddLink(i) \/ DoDropLink(i) \/ DoClear(i)

Next ==
    \/ CallBegins
    \/ WriteMade
    \/ RenameGoesOn
    \/ NoSpace \/ NameRefused \/ PointFails \/ Fault

Spec == Init /\ [][Next]_vars

-----------------------------------------------------------------------------
(***************************************************************************)
(* Properties.                                                             *)
(***************************************************************************)
\* The shape of the state: no entry names an inode the filesystem has not, and
\* no counter goes negative.
TypeOK ==
    /\ allocated \subseteq Inodes /\ usedDirs \in Nat /\ indexed \subseteq Inodes
    /\ kind \in [Inodes -> {"dir", "file", "none"}]
    /\ links \in [Inodes -> 0 .. LinkModulus - 1]
    /\ entries \in [Inodes -> [Names -> Inodes \cup {None}]]
    /\ dotdot \in [Inodes -> Inodes \cup {None}]
    /\ before \in [Inodes -> [Names -> Inodes \cup {None}]]
    /\ gone \in Inodes \cup {None} /\ harm \in {"none", "leak", "torn"}
    /\ failures \in 0 .. MaxFailures

\* At every moment, between the writes of a call and where one failed, a name
\* in a directory is the name of an inode that is in use and has been written,
\* and only directories in use hold names: link_into comes after write_inode,
\* unlink_from before free_inode, and rmdir takes empty directories only.
NamesPointAtInodes ==
    \A d \in Inodes, n \in Names :
        entries[d][n] # None =>
            /\ entries[d][n] \in allocated /\ kind[entries[d][n]] # "none"
            /\ d \in allocated /\ IsDir(d)

\* At every moment, what had a name when the call began still has one, unless
\* the call was asked to take it: rename adds the new name before it takes the
\* old, so a rename that fails loses nothing but the destination it replaced.
NoNameLost ==
    \A d \in Inodes, n \in Names :
        before[d][n] \notin {None, gone} => NamesOf(before[d][n]) # {}

Whole == todo = <<>> /\ next = <<>> /\ harm # "torn"

\* Between calls, also after calls that failed before they changed a name, a
\* file's link count is the number of its names, and a directory's 2 and one
\* for each subdirectory's "..".
LinkCountsExact ==
    Whole =>
        \A i \in Reachable :
            links[i] = IF IsDir(i) THEN 2 + Cardinality(Subdirs(i))
                                   ELSE Cardinality(NamesOf(i))

\* Between calls a directory has exactly one name, it can be reached from the
\* root, and its ".." is the directory that names it.
TreeShape ==
    Whole =>
        \A i \in Inodes :
            IsDir(i) /\ i # Root /\ NamesOf(i) # {} =>
                /\ \E n \in Names : NamesOf(i) = {<<dotdot[i], n>>}
                /\ i \in Reachable

\* While no call has failed, between calls, an inode in use can be reached and
\* the used_dirs tally is the number of directories.
NothingLeaks ==
    Whole /\ harm = "none" =>
        /\ allocated = Reachable
        /\ usedDirs = Cardinality(Dirs)

\* CHANGELOG: "A directory move carries its .. with it and adjusts both
\* parents' link counts".  Between calls, ".." is the directory's parent.
DotdotFollows ==
    todo = <<>> /\ next = <<>> =>
        \A d \in Inodes : \A n \in Subdirs(d) : dotdot[entries[d][n]] = d

\* At every moment, also in a tree left half changed, the inodes in use that
\* cannot be reached are one for each call that failed and one for the call
\* that runs: creating takes an inode before it names it (volume.rs 1646),
\* removing unnames it before it frees it, and no error path gives it back.
LeaksBounded ==
    Cardinality(allocated \ Reachable) <= failures + (IF todo = <<>> THEN 0 ELSE 1)

==============================================================================
