----------------------------- MODULE Directory -----------------------------
(***************************************************************************)
(* The blocks of one directory (dir.rs, index.rs; link_into and            *)
(* unlink_from of volume.rs): entries that tile each block, and, once the  *)
(* blocks are full on a filesystem with dir_index, leaves under a hash     *)
(* index that is rebuilt whenever a leaf will not take another name.       *)
(*                                                                         *)
(* A name is a number, in the order the rebuild breaks ties between equal  *)
(* hashes: minor hash, then text.  Sizes are in units of a block's length. *)
(* The index is a sequence of nodes; a tree of one level, where the root   *)
(* points at the leaves, is a single node.  A call either completes or is  *)
(* refused before it writes an entry; a write that fails in the middle of  *)
(* a rebuild is not modelled.                                              *)
(***************************************************************************)
EXTENDS Integers, SequencesExt, FiniteSetsExt

CONSTANTS
    Names,
    Need,           \* bytes the entry of a name takes
    Hash,           \* of a name; the low bit is never set
    Limit,          \* bytes of a block that entries may use
    Smallest,       \* bytes the entry of a one-letter name takes
    DotsNeed,       \* bytes "." and ".." take together
    RootLimit,      \* index entries the root block holds
    NodeLimit       \* index entries an interior node holds

ASSUME NamesAssumption ==
    /\ IsFiniteSet(Names) /\ Names \subseteq Nat \ {0}
    /\ Smallest \in Nat \ {0}
    /\ Need \in [Names -> Smallest .. Limit]
    /\ \A n \in Names : Hash[n] \in Nat /\ Hash[n] % 2 = 0
    /\ Limit \in Nat /\ DotsNeed \in 1 .. Limit

ASSUME LimitsAssumption == {RootLimit, NodeLimit} \subseteq Nat \ {0}

VARIABLES
    dirIndex,       \* does the superblock allow indexed directories?
    blocks,         \* the blocks of entries, in the order they are read
    index,          \* the nodes over them; empty while the directory is a list
    missing         \* the name the last call did not find, if any

vars == <<dirIndex, blocks, index, missing>>

Dead == 0           \* the name of an entry whose inode is zero
Dots == -1          \* the entries "." and "..", which no call touches

Size(x) == CASE x = Dead -> 0 [] x = Dots -> DotsNeed [] OTHER -> Need[x]

-----------------------------------------------------------------------------
(* One block: insert_into_block, remove_from_block, empty_block *)

Total(seq) == FoldLeft(LAMBDA sum, x : sum + Size(x), 0, seq)

EntryNames(block) == {block[i].name : i \in DOMAIN block}

EmptyBlock == <<[name |-> Dead, span |-> Limit]>>

\* The entries with room for another name beside their own.
Gaps(block, n) == {i \in DOMAIN block : block[i].span - Size(block[i].name) >= Need[n]}

\* A dead entry gives up its whole span, a live one what it does not need.
AddEntry(block, n) ==
    LET i == Min(Gaps(block, n))
        used == Size(block[i].name)
    IN  IF used = 0
        THEN [block EXCEPT ![i].name = n]
        ELSE InsertAt([block EXCEPT ![i].span = used], i + 1,
                      [name |-> n, span |-> block[i].span - used])

CutEntryInPlace(block, n) ==
    [i \in DOMAIN block |-> IF block[i].name = n THEN [block[i] EXCEPT !.name = Dead] ELSE block[i]]

CutEntryLosesSpan(block, n) ==
    LET i == Min({j \in DOMAIN block : block[j].name = n})
    IN  IF i = 1 THEN [block EXCEPT ![1].name = Dead] ELSE RemoveAt(block, i)

CutEntry(block, n) ==
    LET i == Min({j \in DOMAIN block : block[j].name = n})
    IN  IF i = 1
        THEN [block EXCEPT ![1].name = Dead]
        ELSE RemoveAt([block EXCEPT ![i - 1].span = @ + block[i].span], i)

\* build_block: entries back to back, the last one reaching to the limit.
PackedBlock(names) ==
    [i \in DOMAIN names |->
        [name |-> names[i],
         span |-> IF i = Len(names) THEN Limit - Total(Front(names)) ELSE Need[names[i]]]]

-----------------------------------------------------------------------------
(* The index: pack_leaves, plan_index, leaf_run *)

Slack == Max({(Limit * 20) \div 100, Smallest})

Before(m, n) == Hash[m] < Hash[n] \/ (Hash[m] = Hash[n] /\ m < n)

\* A leaf is closed once less than the slack is free, or the name is too long.
Accepts(leaf, n) ==
    /\ Limit - Total(leaf.names) >= Slack
    /\ Total(leaf.names) + Need[n] <= Limit

PlainHash(leaves, n) == Hash[n]

EveryLeafGoesOn(leaves, n) == IF leaves # <<>> THEN Hash[n] + 1 ELSE Hash[n]

\* The low bit says that a leaf goes on with the hash the one before ended on.
StartHash(leaves, n) ==
    IF leaves # <<>> /\ Hash[Last(Last(leaves).names)] = Hash[n] THEN Hash[n] + 1 ELSE Hash[n]

PackOne(leaves, n) ==
    IF leaves # <<>> /\ Accepts(Last(leaves), n)
    THEN [leaves EXCEPT ![Len(leaves)].names = Append(@, n)]
    ELSE Append(leaves, [hash |-> StartHash(leaves, n), names |-> <<n>>])

\* A name's place in hash order is the number of names not after it.
InOrder(names) ==
    LET rank(n) == Cardinality({m \in names : m = n \/ Before(m, n)})
    IN  [i \in 1 .. Cardinality(names) |-> CHOOSE n \in names : rank(n) = i]

PackLeaves(names) == FoldLeft(PackOne, <<>>, InOrder(names))

NodesFor(leafCount, perNode) == (leafCount + perNode - 1) \div perNode

PerNode(leafCount) == IF leafCount <= RootLimit THEN leafCount ELSE NodeLimit

CanPlan(leafCount) == leafCount <= RootLimit \/ NodesFor(leafCount, NodeLimit) <= RootLimit

\* The first entry of every index block carries no hash.
IndexHash(leaves, first, at) == IF at = first THEN 0 ELSE leaves[at].hash

IndexOver(leaves) ==
    LET per == PerNode(Len(leaves))
        first(k) == (k - 1) * per + 1
        last(k) == Min({k * per, Len(leaves)})
    IN  [k \in 1 .. NodesFor(Len(leaves), per) |->
            [hash |-> IF k = 1 THEN 0 ELSE leaves[first(k)].hash,
             entries |-> [j \in 1 .. last(k) - first(k) + 1 |->
                 [hash |-> IndexHash(leaves, first(k), first(k) + j - 1),
                  leaf |-> first(k) + j - 1]]]]

\* htree::find: the last entry whose hash is not above the one looked for.
Find(entries, hash) == Max({i \in DOMAIN entries : i = 1 \/ entries[i].hash <= hash})

FirstLeafOnly(hash) ==
    LET entries == index[Find(index, hash)].entries
    IN  {entries[Find(entries, hash)].leaf}

\* The leaf a hash leads to, and those of the same node that continue it.
LeafRun(hash) ==
    LET entries == index[Find(index, hash)].entries
        at == Find(entries, hash)
    IN  {entries[i].leaf : i \in {j \in at .. Len(entries) :
            \A k \in at + 1 .. j : entries[k].hash % 2 = 1}}

-----------------------------------------------------------------------------
(* The calls *)

Indexed == index # <<>>

Stored == (UNION {EntryNames(blocks[b]) : b \in DOMAIN blocks}) \ {Dead, Dots}

\* The blocks a call on this name reads.
Searched(n) == IF Indexed THEN LeafRun(Hash[n]) ELSE DOMAIN blocks

OpenAnywhere(n) == {b \in DOMAIN blocks : Gaps(blocks[b], n) # {}}

\* Where a new name may go: any block of a list, the first leaf of a run.
Open(n) == {b \in IF Indexed THEN {Min(Searched(n))} ELSE Searched(n) : Gaps(blocks[b], n) # {}}

Rebuilds(n) == n \notin Stored /\ Open(n) = {} /\ (Indexed \/ dirIndex)

Init ==
    /\ dirIndex \in BOOLEAN
    /\ blocks = << <<[name |-> Dots, span |-> Limit]>> >>
    /\ index = <<>>
    /\ missing = {}

\* Callers have looked the name up and not found it.
Link(n) ==
    /\ n \notin Stored
    /\ Open(n) # {}
    /\ blocks' = [blocks EXCEPT ![Min(Open(n))] = AddEntry(@, n)]
    /\ missing' = {}
    /\ UNCHANGED <<dirIndex, index>>

LinkInNewBlock(n) ==
    /\ n \notin Stored
    /\ Open(n) = {} /\ ~Indexed /\ ~dirIndex
    /\ blocks' = Append(blocks, AddEntry(EmptyBlock, n))
    /\ missing' = {}
    /\ UNCHANGED <<dirIndex, index>>

\* rebuild_index: every name, the new one included, in fresh leaves.
RebuildIndex(n) ==
    LET leaves == PackLeaves(Stored \cup {n})
    IN  /\ Rebuilds(n)
        /\ CanPlan(Len(leaves))
        /\ blocks' = [b \in DOMAIN leaves |-> PackedBlock(leaves[b].names)]
        /\ index' = IndexOver(leaves)
        /\ missing' = {}
        /\ UNCHANGED dirIndex

\* The tree would need another level.
RefuseTooLarge(n) ==
    /\ Rebuilds(n)
    /\ ~CanPlan(Len(PackLeaves(Stored \cup {n})))
    /\ missing' = {}
    /\ UNCHANGED <<dirIndex, blocks, index>>

\* The blocks the directory has, and those it would have after a rebuild.
Held(leafCount) ==
    1 + leafCount + IF leafCount <= RootLimit THEN 0 ELSE NodesFor(leafCount, NodeLimit)

\* The directory has to grow and the disk is full.
RefuseNoSpace(n) ==
    LET leafCount == Len(PackLeaves(Stored \cup {n}))
    IN  /\ n \notin Stored
        /\ Open(n) = {}
        /\ Rebuilds(n) =>
            /\ CanPlan(leafCount)
            /\ Held(leafCount) > IF Indexed THEN Held(Len(blocks)) ELSE Len(blocks)
        /\ missing' = {}
        /\ UNCHANGED <<dirIndex, blocks, index>>

Holding(n) == {b \in Searched(n) : n \in EntryNames(blocks[b])}

Unlink(n) ==
    /\ Holding(n) # {}
    /\ blocks' = [blocks EXCEPT ![Min(Holding(n))] = CutEntry(@, n)]
    /\ missing' = {}
    /\ UNCHANGED <<dirIndex, index>>

UnlinkMisses(n) ==
    /\ Holding(n) = {}
    /\ missing' = {n}
    /\ UNCHANGED <<dirIndex, blocks, index>>

Next == \E n \in Names :
    \/ Link(n) \/ LinkInNewBlock(n) \/ RebuildIndex(n)
    \/ RefuseTooLarge(n) \/ RefuseNoSpace(n)
    \/ Unlink(n) \/ UnlinkMisses(n)

Spec == Init /\ [][Next]_vars

-----------------------------------------------------------------------------
(* Properties *)

Entries == [name : Names \cup {Dead, Dots}, span : 1 .. Limit]

\* Blocks are sequences of entries, and only a first entry is ever dead.
TypeOK ==
    /\ dirIndex \in BOOLEAN
    /\ \A b \in DOMAIN blocks : \A i \in DOMAIN blocks[b] :
        /\ blocks[b][i] \in Entries
        /\ blocks[b][i].name = Dead => i = 1
    /\ missing \subseteq Names

Spans(block) == FoldLeft(LAMBDA sum, e : sum + e.span, 0, block)

\* The entries of a block lie end to end from its start to the limit, and each
\* holds its own name: a split or a merge that gets one length wrong makes every
\* later entry of the block unreadable.
BlocksAreTiled == \A b \in DOMAIN blocks :
    /\ Spans(blocks[b]) = Limit
    /\ \A i \in DOMAIN blocks[b] : blocks[b][i].span >= Size(blocks[b][i].name)

\* No node begins in the middle of a run of equal hashes: leaf_run, which stops at
\* the end of a node, would miss the rest.  Names that share a hash can make it
\* untrue; that no others do is for pack_leaves to see to.
NodesFresh == \A k \in DOMAIN index : index[k].hash % 2 = 0

\* "Every logical block a name with this hash could be in" (leaf_run): a name
\* that is stored is stored in a block the index leads to.
FoundThroughIndex == \A n \in Stored : Holding(n) # {}

\* Leaves are in hash order, whatever was inserted since the last rebuild: what
\* a leaf holds lies between its own hash and that of the next.
LeavesInHashOrder == \A k \in DOMAIN index : \A j \in DOMAIN index[k].entries :
    LET entry == index[k].entries[j]
    IN  \A n \in EntryNames(blocks[entry.leaf]) \ {Dead} :
        /\ entry.hash <= Hash[n] + 1
        /\ j < Len(index[k].entries) => Hash[n] <= index[k].entries[j + 1].hash
        /\ k < Len(index) => Hash[n] <= index[k + 1].hash

Offset(b, i) == Spans(SubSeq(blocks[b], 1, i - 1))

Places(n) ==
    UNION {{<<b, Offset(b, i)>> : i \in {j \in DOMAIN blocks[b] : blocks[b][j].name = n}} :
              b \in DOMAIN blocks}

\* "Nothing is ever moved" (dir.rs): only a rebuild changes where a name lies.
NothingMoves == [][
    \/ \E n \in Names : RebuildIndex(n)
    \/ \A n \in Stored \cap Stored' : Places(n)' = Places(n)]_vars

\* The blocks and the index implement a set of names: a name that was added
\* and not removed is found and can be removed, through any rebuilds between.
Abstract == INSTANCE NameSet WITH names <- Stored
KeepsNames == Abstract!Spec
=============================================================================
