------------------------------- MODULE Unpack -------------------------------
(***************************************************************************)
(* Unpacking an archive onto a volume (volume.rs: unpack_stream), with     *)
(* layer semantics: an entry replaces what has its name, a marker removes  *)
(* names, and what directories are to look like waits until everything is  *)
(* in them.                                                                *)
(*                                                                         *)
(* unpack_stream asks the reader for an entry, deals with it, and asks     *)
(* again.  Any call on the volume may fail and ends the unpacking where it *)
(* is.                                                                     *)
(***************************************************************************)
EXTENDS Tree, TarStream

CONSTANTS
    Hides,          \* marker names ".wh.<name>", each with the name it hides
    Opaque,         \* the name ".wh..wh..opq"
    Ignored,        \* other names that begin with ".wh..wh."
    InlineLimit     \* contents gathered before a file is streamed

ASSUME UnpackAssumption ==
    /\ InlineLimit \in Nat \ {0}
    /\ Opaque \notin DOMAIN Hides \cup Ignored /\ DOMAIN Hides \cap Ignored = {}

VARIABLES
    vol,            \* the volume
    at,             \* where unpack_stream is
    pending,        \* unpack_file: contents gathered and not yet written
    streaming,      \* unpack_file: the file was created empty, its blocks are
                    \* being written and its inode comes last
    deferred        \* directories to stamp at the end: path and header fields

unpackVars == <<vol, at, pending, streaming, deferred>>

UnpackInit(volume) ==
    /\ vol = volume /\ at = "entries"
    /\ pending = << >> /\ streaming = FALSE /\ deferred = << >>

-----------------------------------------------------------------------------
Entry == Last(got)
Here == at = "entries" /\ answer = "entry"
LastName == Last(Entry.path)
Markers == DOMAIN Hides \cup {Opaque} \cup Ignored
IsMarker == LastName \in Markers
IsEntry == Here /\ Entry.path # << >> /\ ~IsMarker
IsMarked == Here /\ Entry.path # << >> /\ IsMarker

\* The loop goes round: next is called again.
AskNext == answer' = "asked" /\ UNCHANGED <<wire, writerVars, got, left, pad, global, carried>>
Handled(volume) == AskNext /\ vol' = volume /\ UNCHANGED <<at, pending, streaming, deferred>>

\* The volume with everything on the way to the entry made.
Opened == MakeAll(vol, Parent(Entry.path))
\* Mutant: what is under a replaced name stays.
ClearedName == Without(Opened, {Entry.path})

Cleared == RemoveAll(Opened, Entry.path)

Fits == Entry.path \in Paths /\ Reachable(Opened, Entry.path)

\* The root's own entry.
SkipRoot == Here /\ Entry.path = << >> /\ Handled(vol)

\* What a marker takes away (apply_whiteout).
Hidden ==
    LET dir == Parent(Entry.path)
    IN  IF LastName \in DOMAIN Hides THEN Under(Append(dir, Hides[LastName]))
        ELSE IF LastName = Opaque THEN Under(dir) \ {dir}
        ELSE {}

\* To empty what is no directory is an error; under one there is nothing to
\* remove.
Whiteout ==
    /\ IsMarked
    /\ LastName = Opaque /\ Exists(vol, Parent(Entry.path)) => IsDir(vol, Parent(Entry.path))
    /\ Handled(Without(vol, Hidden))

\* Mutant: only directories it makes are stamped at the end.
PlaceDirOnlyNew ==
    /\ IsEntry /\ Entry.kind = "dir" /\ Fits
    /\ vol' = IF IsDir(Opened, Entry.path) THEN Opened
              ELSE MakeDir(Cleared, Entry.path, Entry.attr)
    /\ deferred' = IF IsDir(Opened, Entry.path) THEN deferred ELSE Append(deferred, Entry)
    /\ AskNext /\ UNCHANGED <<at, pending, streaming>>

\* Directory: one that is there stays as it is until the end.
PlaceDir ==
    /\ IsEntry /\ Entry.kind = "dir" /\ Fits
    /\ vol' = IF IsDir(Opened, Entry.path) THEN Opened
              ELSE MakeDir(Cleared, Entry.path, Entry.attr)
    /\ deferred' = Append(deferred, Entry)
    /\ AskNext /\ UNCHANGED <<at, pending, streaming>>

\* Symlink and device: always a fresh inode.  A symlink takes nothing else
\* from its entry.
PlaceSymlink ==
    /\ IsEntry /\ Entry.kind = "symlink" /\ Fits
    /\ Handled(Make(Cleared, Entry.path, Node("symlink", Entry.link, DefaultAttr, {}, 0)))

PlaceDevice ==
    /\ IsEntry /\ Entry.kind = "device" /\ Fits
    /\ Handled(Make(Cleared, Entry.path,
                    Node("device", << >>, Entry.attr, Entry.labels, Entry.time)))

\* HardLink: the name goes first, and the target is looked up after that.
CanLink ==
    Entry.link \in Paths /\ Exists(Cleared, Entry.link) /\ ~IsDir(Cleared, Entry.link)

PlaceLink ==
    /\ IsEntry /\ Entry.kind = "hardlink" /\ Fits /\ CanLink
    /\ Handled(Link(Cleared, Entry.link, Entry.path))

\* File: the name goes first, then the contents are read (unpack_file).
ClearForFile ==
    /\ IsEntry /\ Entry.kind = "file" /\ Fits
    /\ vol' = Cleared
    /\ at' = "contents" /\ pending' = << >> /\ streaming' = FALSE
    /\ UNCHANGED <<deferred, streamVars>>

\* One read of contents, of any length: gathered, or written out as far as
\* they fill blocks.  Only the inode says what of them belongs to the file.
ReadContents(n) ==
    /\ at = "contents" /\ Readable(n) /\ Read(n)
    /\ streaming \/ Len(pending) < InlineLimit
    /\ pending' = pending \o SubSeq(wire, 1, n)
    /\ UNCHANGED <<vol, at, streaming, deferred, writerVars, answer, got, pad, global, carried>>

EmptyMade == Make(vol, Entry.path, Node("file", << >>, Entry.attr, {}, 0))

\* INLINE_LIMIT is reached: create the file empty.
CreateEmpty ==
    /\ at = "contents" /\ ~streaming /\ Len(pending) >= InlineLimit
    /\ vol' = EmptyMade
    /\ streaming' = TRUE
    /\ UNCHANGED <<at, pending, deferred, streamVars>>

\* The file with all its contents, what of its labels and time is set.
Stored(labels, time) ==
    LET whole == Node("file", pending, Entry.attr, labels, time)
    IN  IF streaming THEN [vol EXCEPT !.inodes[vol.names[Entry.path]] = whole]
        ELSE Make(vol, Entry.path, whole)

ContentsRead == at = "contents" /\ left = 0 /\ (streaming \/ Len(pending) < InlineLimit)

\* read returned 0: the file is written whole, or its map and size are.
StoreFile ==
    /\ ContentsRead
    /\ vol' = Stored(Entry.labels, Entry.time)
    /\ at' = "entries" /\ pending' = << >> /\ streaming' = FALSE
    /\ AskNext /\ UNCHANGED deferred

Depth(header) == Len(header.path)
\* Mutant: the order of equals is turned round.
LatestFirst(headers) ==
    LET upTo(j) == {k \in 1..Len(headers) :
                       \/ Depth(headers[k]) > Depth(headers[j])
                       \/ Depth(headers[k]) = Depth(headers[j]) /\ k >= j}
    IN  [n \in 1..Len(headers) |->
            headers[CHOOSE j \in 1..Len(headers) : Cardinality(upTo(j)) = n]]

\* The archive is over: sort_by_key, deepest first, keeps the order of equals.
DeepestFirst(headers) ==
    LET upTo(j) == {k \in 1..Len(headers) :
                       \/ Depth(headers[k]) > Depth(headers[j])
                       \/ Depth(headers[k]) = Depth(headers[j]) /\ k <= j}
    IN  [n \in 1..Len(headers) |->
            headers[CHOOSE j \in 1..Len(headers) : Cardinality(upTo(j)) = n]]

ArchiveEnds ==
    /\ at = "entries" /\ answer = "end"
    /\ at' = "restamping" /\ deferred' = DeepestFirst(deferred)
    /\ UNCHANGED <<vol, pending, streaming, streamVars>>

\* chmod, chown, write_xattrs and set_times, by path.
Restamp ==
    /\ at = "restamping" /\ deferred # << >> /\ Exists(vol, Head(deferred).path)
    /\ LET h == Head(deferred) IN vol' = Stamp(vol, h.path, h.attr, h.labels, h.time)
    /\ deferred' = Tail(deferred)
    /\ UNCHANGED <<at, pending, streaming, streamVars>>

Done ==
    /\ at = "restamping" /\ deferred = << >>
    /\ at' = "done"
    /\ UNCHANGED <<vol, pending, streaming, deferred, streamVars>>

-----------------------------------------------------------------------------
(* Failures *)

\* What the calls for one entry may have done when one of them fails: some of
\* the parents made, some of what is in the way removed, the children first,
\* or the entry itself made and not all that follows done.
Downward(gone) == \A p \in gone : \A q \in Under(p) : Exists(vol, q) => q \in gone
PartlyCleared ==
    LET area == {p \in IF IsMarker THEN Hidden ELSE Under(Entry.path) : Exists(vol, p)}
    IN  {Without(vol, gone) : gone \in {some \in SUBSET area : Downward(some)}}
PartlyOpened == {MakeAll(vol, SubSeq(Entry.path, 1, n)) : n \in 1..Len(Entry.path) - 1}
Unstamped ==
    CASE Entry.kind = "device" ->
            {Make(Cleared, Entry.path, Node("device", << >>, Entry.attr, labels, 0)) :
                labels \in {{}, Entry.labels}}
      [] Entry.kind = "dir" /\ ~IsDir(Opened, Entry.path) ->
            {MakeDir(Cleared, Entry.path, Entry.attr)}
      [] Entry.kind = "hardlink" /\ CanLink -> {Link(Cleared, Entry.link, Entry.path)}
      [] OTHER -> {}

Stops == at' = "failed" /\ UNCHANGED <<pending, streaming, deferred, streamVars>>

EntryFails ==
    /\ Here /\ Entry.path # << >> /\ Stops
    /\ \/ vol' \in PartlyCleared
       \/ IsEntry /\ Fits /\ vol' \in PartlyOpened \cup Unstamped

\* The contents end early, or a call of unpack_file or one after it fails.
ContentsFail ==
    /\ at = "contents" /\ Stops
    /\ \/ UNCHANGED vol
       \/ ~streaming /\ (left = 0 \/ Len(pending) >= InlineLimit) /\ vol' = EmptyMade
       \/ ContentsRead /\ vol' \in {Stored(labels, 0) : labels \in {{}, Entry.labels}}

\* next returns an error.
NextFails == at = "entries" /\ answer = "error" /\ Stops /\ UNCHANGED vol

\* A directory to stamp is gone, or only some of the stamp is applied.
RestampFails ==
    /\ at = "restamping" /\ deferred # << >> /\ Stops
    /\ \/ UNCHANGED vol
       \/ LET h == Head(deferred)
          IN  /\ Exists(vol, h.path)
              /\ vol' \in {Stamp(vol, h.path, h.attr, labels, 0) :
                             labels \in {InodeAt(vol, h.path).labels, h.labels}}

UnpackStep ==
    \/ SkipRoot \/ Whiteout \/ PlaceDir \/ PlaceSymlink \/ PlaceDevice \/ PlaceLink
    \/ ClearForFile \/ (\E n \in 1..Chunk : ReadContents(n)) \/ CreateEmpty \/ StoreFile
    \/ ArchiveEnds \/ Restamp \/ Done
    \/ EntryFails \/ ContentsFail \/ NextFails \/ RestampFails
=============================================================================
