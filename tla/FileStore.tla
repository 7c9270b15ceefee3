------------------------------ MODULE FileStore ------------------------------
(***************************************************************************)
(* What a volume promises about file contents (volume.rs: write_with,      *)
(* append, write_at, unlink), without blocks or maps.  A call names one    *)
(* file and the contents it asks for.  While the call runs that file may   *)
(* hold anything, because its blocks are rewritten in place; no other file *)
(* changes.  A call that returns Ok leaves exactly what was asked for.     *)
(***************************************************************************)
EXTENDS Sequences

CONSTANTS
    Files,
    Values,         \* what one block of a file may hold
    Initially       \* what the files hold when the volume is opened

VARIABLES
    contents,       \* what each file reads as
    asked,          \* the running call's request: a set of at most one
    result          \* "ok" or "error", of the last call

vars == <<contents, asked, result>>

Requests == [file : Files, data : Seq(Values)]

Init ==
    /\ contents = Initially
    /\ asked = {}
    /\ result = "ok"

Call(r) ==
    /\ asked = {}
    /\ r \in Requests
    /\ asked' = {r}
    /\ UNCHANGED <<contents, result>>

Rewrite(r) ==
    /\ asked = {r}
    /\ contents' \in [Files -> Seq(Values)]
    /\ \A f \in Files \ {r.file} : contents'[f] = contents[f]
    /\ UNCHANGED <<asked, result>>

Return(r) ==
    /\ asked = {r}
    /\ contents' = [contents EXCEPT ![r.file] = r.data]
    /\ asked' = {}
    /\ result' = "ok"

Fail(r) ==
    /\ asked = {r}
    /\ asked' = {}
    /\ result' = "error"
    /\ UNCHANGED contents

\* Calls that leave contents alone: extended attributes are set and removed.
OtherCall ==
    /\ asked = {}
    /\ result' \in {"ok", "error"}
    /\ UNCHANGED <<contents, asked>>

Next ==
    \/ \E r \in asked' : Call(r)
    \/ \E r \in asked : Rewrite(r) \/ Return(r) \/ Fail(r)
    \/ OtherCall

Spec == Init /\ [][Next]_vars

==============================================================================
