-------------------------------- MODULE Layer --------------------------------
(***************************************************************************)
(* What unpacking a layer promises (volume.rs: unpack_tar_layer), without  *)
(* a stream, inodes or names in common.  A path holds a file, a symlink, a *)
(* device, a directory or nothing.  Each entry of the archive has its full *)
(* effect on its own path and none on any other, except that directories   *)
(* on the way are made and what is under a replaced path goes with it; an  *)
(* unpacking that stops leaves at most the entry in hand half done.        *)
(***************************************************************************)
EXTENDS Naturals, Sequences, SequencesExt

CONSTANTS Paths, Hides, Opaque, Ignored

VARIABLES
    tree,           \* what each path holds
    entries,        \* the archive so far
    phase           \* "idle", "busy" with the last entry, or "stopped"

vars == <<tree, entries, phase>>

Holding(kind, data) == [kind |-> kind, data |-> data]
Nothing == Holding("nothing", << >>)
Directory == Holding("dir", << >>)
EmptyFile == Holding("file", << >>)

Under(p) == {q \in Paths : IsPrefix(p, q)}
Above(p) == {q \in Paths : IsStrictPrefix(q, p)}

\* p holds x, nothing else is left under it, and directories lead to it.
Placed(p, x) ==
    [q \in Paths |-> IF q = p THEN x
                     ELSE IF q \in Under(p) THEN Nothing
                     ELSE IF q \in Above(p) /\ tree[q] = Nothing THEN Directory
                     ELSE tree[q]]

Emptied(gone) == [q \in Paths |-> IF q \in gone THEN Nothing ELSE tree[q]]

Entry == Last(entries)
Marker == Last(Entry.path)
IsMarker == Entry.path # << >> /\ Marker \in DOMAIN Hides \cup {Opaque} \cup Ignored

Hidden ==
    LET dir == Front(Entry.path)
    IN  IF Marker \in DOMAIN Hides THEN Under(Append(dir, Hides[Marker]))
        ELSE IF Marker = Opaque THEN Under(dir) \ {dir}
        ELSE {}

\* What the entry puts in its place.
Contents == [k \in 1..Entry.size |-> [is |-> "data", of |-> Entry.attr, at |-> k]]
Brings ==
    CASE Entry.kind = "file" -> Holding("file", Contents)
      [] Entry.kind = "symlink" -> Holding("symlink", Entry.link)
      [] Entry.kind = "hardlink" -> tree[Entry.link]
      [] OTHER -> Holding(Entry.kind, << >>)

CanApply ==
    /\ Entry.path \in Paths
    /\ \A q \in Above(Entry.path) : tree[q] \in {Nothing, Directory}
    /\ Entry.kind = "hardlink" =>
          /\ Entry.link \in Paths \ Under(Entry.path)
          /\ tree[Entry.link] \notin {Nothing, Directory}

\* An archive may be unpacked onto any tree.
Init ==
    /\ \A q \in Paths : tree[q] # Nothing => \A r \in Above(q) : tree[r] = Directory
    /\ entries = << >> /\ phase = "idle"

Read ==
    /\ phase = "idle" /\ phase' = "busy"
    /\ Len(entries') = Len(entries) + 1 /\ IsPrefix(entries, entries')
    /\ UNCHANGED tree

\* The tree with the entry in hand dealt with.
IsNewPlace == ~IsMarker /\ Entry.path # << >>
Applied ==
    IF Entry.path = << >> THEN tree
    ELSE IF IsMarker THEN Emptied(Hidden)
    ELSE IF Entry.kind = "dir" /\ tree[Entry.path] = Directory THEN tree
    ELSE Placed(Entry.path, Brings)

Apply ==
    /\ phase = "busy" /\ phase' = "idle" /\ UNCHANGED entries
    /\ IsNewPlace => CanApply
    /\ tree' = Applied

\* While a file's contents arrive its name is gone, or names an empty file.
HalfApplied ==
    /\ phase = "busy" /\ IsNewPlace /\ Entry.kind = "file" /\ CanApply
    /\ tree' \in {Placed(Entry.path, Nothing), Placed(Entry.path, EmptyFile)}

Begin == HalfApplied /\ UNCHANGED <<entries, phase>>

\* Something failed: the entry in hand is dealt with, or half, or not at all,
\* or of what it touches some is removed and nothing made but directories on
\* the way.
Stop ==
    /\ phase' = "stopped" /\ UNCHANGED entries
    /\ \/ UNCHANGED tree
       \/ HalfApplied
       \/ phase = "busy" /\ IsNewPlace /\ CanApply /\ tree' = Applied
       \/ /\ phase = "busy"
          /\ \A q \in Paths :
                \/ tree'[q] = tree[q]
                \/ /\ q \in IF IsMarker THEN Hidden ELSE Under(Entry.path)
                   /\ tree'[q] = Nothing
                \/ ~IsMarker /\ q \in Above(Entry.path) /\ tree[q] = Nothing
                   /\ tree'[q] = Directory
          /\ \A q \in Paths : tree'[q] # Nothing => \A r \in Above(q) : tree'[r] = Directory

Next == Read \/ Apply \/ Begin \/ Stop

Spec == Init /\ [][Next]_vars
=============================================================================
