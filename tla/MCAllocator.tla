---------------------------- MODULE MCAllocator ----------------------------
(***************************************************************************)
(* The allocator on a filesystem of two groups: one of four blocks, and    *)
(* the last one of the three that are left.  Group 0 is all metadata, so   *)
(* every search that starts there moves on to group 1, whose two data      *)
(* blocks lie in front of and behind each other's goal.  A group has one   *)
(* inode, of which group 0's is the root's.  One flush of a session may    *)
(* fail, at any write, between any calls.                                  *)
(***************************************************************************)
EXTENDS Allocator, TLC

MCMetadata == (0 :> 0 .. 3) @@ (1 :> {0})

\* Block 0 is outside the filesystem (first_data_block is 1): the goal mkdir
\* passes.  2 is in the full group; 6 and 7 are the data blocks of group 1.
MCGoals == {0, 2, 6, 7}

=============================================================================
