------------------------------ MODULE NameSet ------------------------------
(***************************************************************************)
(* What a directory promises (volume.rs: link_into, unlink_from), without  *)
(* blocks, entries or hashes.  It is a set of names.  Adding a name may be *)
(* refused and then changes nothing; removing a name that is there never   *)
(* misses it, and removing one that is not says so.                        *)
(***************************************************************************)
CONSTANT Names

VARIABLES
    names,          \* the names in the directory
    missing         \* the name the last call did not find, if any

vars == <<names, missing>>

Init ==
    /\ names = {}
    /\ missing = {}

Add(n) ==
    /\ n \notin names
    /\ names' = names \cup {n}
    /\ missing' = {}

Refuse(n) ==
    /\ n \notin names
    /\ missing' = {}
    /\ UNCHANGED names

Remove(n) ==
    /\ n \in names
    /\ names' = names \ {n}
    /\ missing' = {}

Miss(n) ==
    /\ n \notin names
    /\ missing' = {n}
    /\ UNCHANGED names

Next == \E n \in Names : Add(n) \/ Refuse(n) \/ Remove(n) \/ Miss(n)

Spec == Init /\ [][Next]_vars
=============================================================================
