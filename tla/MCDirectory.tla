---------------------------- MODULE MCDirectory ----------------------------
(***************************************************************************)
(* Six names in blocks of ten bytes: two to a leaf at most, so that a      *)
(* directory grows from a list to one level of index, to two levels, and   *)
(* past what two levels hold.                                              *)
(***************************************************************************)
EXTENDS Directory, TLC

MCNames == 1 .. 6

MCNeed == <<6, 5, 6, 5, 6, 2>>

\* The two names with the lowest hash collide; a node holds both their leaves.
PairCollides == <<2, 2, 4, 6, 8, 8>>

\* Three names collide, and their leaves may straddle two nodes.
ThreeCollide == <<2, 4, 6, 6, 6, 8>>
=============================================================================
