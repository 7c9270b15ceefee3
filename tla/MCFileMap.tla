----------------------------- MODULE MCFileMap -----------------------------
(***************************************************************************)
(* Two files on five or six blocks, one mapped by extents and one by       *)
(* blocks.  The numbers are small so that files of three blocks go through *)
(* every shape of extent map (inline, a leaf, one extent too many) and     *)
(* through direct pointers and two levels of indirect blocks, and the      *)
(* volume fills up.  All three levels, and what lies past them, are        *)
(* MCIndirectMap's.                                                        *)
(***************************************************************************)
EXTENDS FileMap, TLC

CONSTANTS extentFile, blockFile

MCFiles == {extentFile, blockFile}
MCExtentFiles == {extentFile}

NoBlocks == [f \in MCFiles |-> <<>>]

\* A file another program left sparse: a hole, then a block.
SparseFile == [f \in MCFiles |-> IF f = extentFile THEN <<0, 2>> ELSE <<>>]

=============================================================================
