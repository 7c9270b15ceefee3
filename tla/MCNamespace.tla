---------------------------- MODULE MCNamespace ----------------------------
(***************************************************************************)
(* A root and a few more inodes, and three names: a and b, and one more    *)
(* that link_into refuses (MCBadNames) where a run says so.  Where a       *)
(* directory's first block holds one name, the second makes it             *)
(* hash-indexed.                                                           *)
(***************************************************************************)
EXTENDS Namespace, TLC

CONSTANTS a, b, c

MCNames == {a, b, c}
MCBadNames == {c}

\* The two names that are never refused play the same part everywhere.
NamesAlike == Permutations({a, b})

=============================================================================
