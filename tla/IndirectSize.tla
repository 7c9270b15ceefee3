---------------------------- MODULE IndirectSize ----------------------------
(***************************************************************************)
(* How many blocks write_indirect_map (map.rs) takes for a map, in closed  *)
(* form: what FileMap counts with, and IndirectMap builds block by block.  *)
(***************************************************************************)
EXTENDS Integers

CONSTANTS
    Direct,          \* NDIR_BLOCKS
    PerBlock         \* pointers in an indirect block

Smaller(a, b) == IF a < b THEN a ELSE b
Over(a, b)    == IF a > b THEN a - b ELSE 0
CeilDiv(a, b) == (a + b - 1) \div b

\* The blocks of an indirect map for n blocks, and how many it can reach.
IndirectBlocksFor(n) ==
    LET past1 == Over(n, Direct)
        past2 == Over(past1, PerBlock)
        past3 == Over(past2, PerBlock * PerBlock)
        in2   == Smaller(past2, PerBlock * PerBlock)
        in3   == Smaller(past3, PerBlock * PerBlock * PerBlock)
    IN  Smaller(past1, 1)
        + Smaller(past2, 1) + CeilDiv(in2, PerBlock)
        + Smaller(past3, 1) + CeilDiv(in3, PerBlock * PerBlock)
        + CeilDiv(in3, PerBlock)

IndirectReach ==
    Direct + PerBlock + PerBlock * PerBlock + PerBlock * PerBlock * PerBlock

=============================================================================
