------------------------------- MODULE Archive -------------------------------
(***************************************************************************)
(* From a volume through a tar stream to another: Pack writes the stream   *)
(* and Unpack reads it, or another tool wrote it.  The writer and the      *)
(* reader are two tasks at the ends of a pipe.                             *)
(***************************************************************************)
EXTENDS Pack, Unpack

CONSTANTS
    SourceTrees,    \* volumes to pack
    LowerTrees,     \* volumes another tool's archive is unpacked onto
    ToolHeaders,    \* entries another tool may write; attr is the place in the archive
    ToolLabels,     \* attributes it may declare for all entries
    UnknownSizes,   \* sizes of its entries of unknown type
    Effort          \* bound: entries and other records it writes

\* What a volume is: its names name inodes, an inode has a name or is free, a
\* directory has just one, and directories lead to every name.
IsVolume(v) ==
    /\ v = [names |-> v.names, inodes |-> v.inodes]
    /\ v.names \in [Paths -> Inodes \cup {Absent}]
    /\ v.inodes = [i \in Inodes |-> v.inodes[i]]
    /\ \A i \in Inodes :
          LET n == v.inodes[i]
          IN  IF NamesOf(v, i) = {} THEN n = Free
              ELSE /\ n = Node(n.kind, n.data, n.attr, n.labels, n.time)
                   /\ n.kind \in Kinds \ {"hardlink"}
                   /\ n.kind \in {"dir", "device"} => n.data = << >>
    /\ \A p, q \in Paths : IsDir(v, p) /\ v.names[p] = v.names[q] => p = q
    /\ \A p \in Paths : Exists(v, p) => Reachable(v, p)

ASSUME LowerAssumption == \A v \in LowerTrees : IsVolume(v)

\* A file to pack has the contents that the entry for it stands for.
ASSUME SourcesAssumption == \A v \in SourceTrees :
    /\ IsVolume(v)
    /\ \A p \in Paths : Exists(v, p) =>
          LET n == InodeAt(v, p)
          IN  /\ n.data \in Seq(ToSet(n.data))
              /\ n.kind = "file" => n.data = Contents([attr |-> n.attr, size |-> Len(n.data)])

\* Another tool's entries are headers, of paths that need no "./" taken off; it
\* puts that in front itself, where a header has room for it.
ASSUME ToolAssumption ==
    /\ UnknownSizes \subseteq Nat
    /\ \A h \in ToolHeaders :
          /\ h = Header(h.path, h.kind, h.attr, h.time, h.size, h.link, h.labels)
          /\ h.kind \in Kinds /\ h.size \in Nat /\ (h.kind # "file" => h.size = 0)
          /\ h.path \in Seq(ToSet(h.path)) /\ "." \notin ToSet(h.path)
    /\ \A p \in Long : p \in Seq(ToSet(p)) /\ "." \notin ToSet(p)

VARIABLES feed, extras  \* who wrote the archive; records other than entries

vars == <<packVars, unpackVars, streamVars, feed, extras>>

Init ==
    /\ wire = << >> /\ closed = FALSE /\ cut = FALSE /\ sent = << >>
    /\ owed = 0 /\ owedPad = 0 /\ everywhere = {}
    /\ answer = "asked" /\ got = << >> /\ left = 0 /\ pad = 0
    /\ global = NoRecords /\ carried = NothingCarried
    /\ extras = 0
    /\ \/ /\ feed = "pack"
          /\ \E s \in SourceTrees : PackFrom(s)
          /\ UnpackInit(EmptyVolume)
       \/ /\ feed = "tool" /\ PackFrom(EmptyVolume)
          /\ \E v \in LowerTrees : UnpackInit(v)

Running == at \notin {"done", "failed"}

Packs == feed = "pack" /\ Running /\ PackStep /\ UNCHANGED <<unpackVars, feed, extras>>

ToolWrites ==
    /\ feed = "tool" /\ Running
    /\ UNCHANGED <<packVars, unpackVars, feed>>
    /\ \/ /\ Len(sent) + extras < Effort
          /\ \/ /\ \E h \in ToolHeaders :
                      StartGnu([h EXCEPT !.attr = Len(sent) + 1,
                                         !.time = IF @ = 0 THEN 0 ELSE Len(sent) + 1])
                /\ UNCHANGED extras
             \/ /\ \/ \E labels \in ToolLabels : Declare(labels)
                   \/ \E size \in UnknownSizes : StartUnknown(size)
                   \/ extras = 0 /\ LoneZeroes
                /\ extras' = extras + 1
       \/ (\E n \in 1..owed : Write(n)) /\ UNCHANGED extras
       \/ (Finish \/ Leave) /\ UNCHANGED extras

Breaks == Running /\ Break /\ UNCHANGED <<packVars, unpackVars, feed, extras>>
Reads == ReaderStep /\ UNCHANGED <<packVars, unpackVars, feed, extras>>
Unpacks == UnpackStep /\ UNCHANGED <<packVars, feed, extras>>
Finished == ~Running /\ UNCHANGED vars

Next == Packs \/ ToolWrites \/ Breaks \/ Reads \/ Unpacks \/ Finished

Spec == Init /\ [][Next]_vars

-----------------------------------------------------------------------------
\* The state stays in range: the reader never looks past an entry, a volume's
\* names and inodes fit each other, and a file in hand is the last entry's.
TypeOK ==
    /\ feed \in {"pack", "tool"} /\ answer \in {"asked", "entry", "end", "error"}
    /\ at \in {"entries", "contents", "restamping", "done", "failed"}
    /\ owed \in Nat /\ owedPad \in 0..BLOCK - 1 /\ pad \in 0..BLOCK - 1
    /\ left \in Nat /\ (left > 0 => got # << >> /\ left <= Last(got).size)
    /\ \A p \in Paths : vol.names[p] \in Inodes \cup {Absent}
    /\ \A i \in Inodes : (vol.inodes[i] = Free) = (NamesOf(vol, i) = {})
    /\ at = "contents" => answer = "entry" /\ Len(pending) + left = Last(got).size

\* What the reader hands over is what was put in, in that order: names and
\* links however long, attributes, records declared for all; and never a
\* header made of contents, padding or an extension's body.
GotIsSent == IsPrefix(got, sent)

\* An archive that did not break off is read to its end; one of our own, whose
\* end marker nothing that looks like one comes before, just to its end.
NothingMissing ==
    at \in {"restamping", "done"} /\ ~cut => got = sent /\ (feed = "pack" => wire = << >>)

Before(p, q) ==
    \/ IsStrictPrefix(p, q)
    \/ \E k \in 1..Len(p) : /\ k <= Len(q) /\ SubSeq(p, 1, k - 1) = SubSeq(q, 1, k - 1)
                            /\ NamePlace(p[k]) < NamePlace(q[k])

\* The archive of a tree is its paths in order, each once, a directory ahead
\* of what is in it; and a hard link goes back to a name already written, of
\* the same inode, that is not a hard link itself.
PackedInOrder ==
    feed = "pack" =>
        /\ \A j, k \in 1..Len(sent) : j < k => Before(sent[j].path, sent[k].path)
        /\ \A k \in 1..Len(sent) : sent[k].kind = "hardlink" =>
              \E j \in 1..k - 1 : /\ sent[j].path = sent[k].link /\ sent[j].kind # "hardlink"
                                  /\ src.names[sent[j].path] = src.names[sent[k].path]

\* A tree that is packed and unpacked comes back: kinds, contents and targets,
\* which names share an inode, and but for symlinks attributes and times; as
\* long as no name of it is one that a layer takes for a marker.
SameNode(a, b) ==
    /\ a.kind = b.kind /\ a.data = b.data
    /\ a.kind # "symlink" => a.attr = b.attr /\ a.labels = b.labels /\ a.time = b.time
Unmarked(v) == \A p \in Paths : Exists(v, p) => Last(p) \notin Markers
RoundTrip ==
    feed = "pack" /\ at = "done" /\ ~cut /\ Unmarked(src) =>
        \A p \in Paths :
            /\ Exists(src, p) = Exists(vol, p)
            /\ Exists(src, p) => SameNode(InodeAt(src, p), InodeAt(vol, p))
            /\ \A q \in Paths : (src.names[p] = src.names[q]) = (vol.names[p] = vol.names[q])

\* The entries of the archive for p, the last of which has the last word.
EntriesFor(p) == {k \in 1..Len(got) : got[k].path = p}
AsSaid(node, h) ==
    /\ node.attr = h.attr /\ node.labels = h.labels
    /\ h.time # 0 => node.time = h.time
LastWordHolds(p) ==
    EntriesFor(p) # {} /\ Exists(vol, p) =>
        LET h == got[Max(EntriesFor(p))]
        IN  h.kind \in {"dir", "file", "device"} /\ InodeAt(vol, p).kind = h.kind =>
                AsSaid(InodeAt(vol, p), h)

\* An archive that names a directory does not give its path to anything else
\* later on.
Consistent ==
    \A j, k \in 1..Len(got) :
        j < k /\ got[j].kind = "dir" /\ got[j].path = got[k].path => got[k].kind = "dir"

\* Mode, owner, extended attributes and time of every path the archive names
\* are in the end those of the last entry for it, whatever was there before
\* and whatever went into a directory after its entry.  (A marker names the
\* path it hides, not its own.)
LastWord ==
    at = "done" /\ Consistent =>
        \A p \in Paths : Last(p) \notin Markers => LastWordHolds(p)

\* Also where an archive does give a directory's path to something else: what
\* does not look as its last entry says looks as the last entry for a directory
\* of that path said, or of another name of the same inode.  What is put off to
\* the end of the archive goes by path (volume.rs 1066) and reaches nothing else.
DirEntriesFor(p) == {k \in EntriesFor(p) : got[k].kind = "dir"}
StampStaysOnPath ==
    at = "done" =>
        \A p \in Paths : Last(p) \notin Markers /\ ~LastWordHolds(p) =>
            \E q \in NamesOf(vol, vol.names[p]) :
                /\ DirEntriesFor(q) # {}
                /\ AsSaid(InodeAt(vol, p), got[Max(DirEntriesFor(q))])

\* Unpacking does to the contents of paths what Layer says: hard links, the
\* reuse of inodes and the way contents arrive do not show.
Kept == INSTANCE Layer WITH
    tree <- [p \in Paths |-> IF Exists(vol, p)
                             THEN [kind |-> InodeAt(vol, p).kind, data |-> InodeAt(vol, p).data]
                             ELSE [kind |-> "nothing", data |-> << >>]],
    entries <- got,
    phase <- IF at = "failed" THEN "stopped" ELSE IF answer = "entry" THEN "busy" ELSE "idle"

KeepsLayer == Kept!Spec

\* Each task goes on while it can; no stream has to break off.
FairSpec == Spec /\ WF_vars(Packs \/ ToolWrites) /\ WF_vars(Reads) /\ WF_vars(Unpacks)

\* Every unpacking comes to an end, wherever the stream breaks off.
Ends == <>(~Running)
=============================================================================
