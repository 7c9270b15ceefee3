---------------------------- MODULE MCIndirectMap ----------------------------
(***************************************************************************)
(* Two direct pointers and two in a block: a map reaches 16 blocks, and    *)
(* lists of up to 18, with up to two holes anywhere, end before, at and    *)
(* behind every boundary between its levels and between its blocks.        *)
(***************************************************************************)
EXTENDS IndirectMap

=============================================================================
