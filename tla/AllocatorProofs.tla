-------------------------- MODULE AllocatorProofs --------------------------
(***************************************************************************)
(* Proofs about the allocator, for every geometry, metadata layout, set of *)
(* goals and number of failed flushes.                                     *)
(***************************************************************************)
EXTENDS Allocator, FiniteSetTheorems, TLAPS

(***************************************************************************)
(* Lemmas about counting.                                                  *)
(***************************************************************************)

\* A counter that counts a set still counts it after a saturating decrement
\* and the removal of one member: the decrement never saturates.
LEMMA CountRemove ==
    ASSUME NEW S, NEW x \in S, IsFiniteSet(S)
    PROVE  /\ Cardinality(S \ {x}) = Decrement(Cardinality(S))
           /\ IsFiniteSet(S \ {x})
<1>1. Cardinality(S) \in Nat /\ Cardinality(S) # 0
  BY FS_CardinalityType, FS_EmptySet
<1> QED  BY <1>1, FS_RemoveElement DEF Decrement

\* The same for a member added.
LEMMA CountAdd ==
    ASSUME NEW S, NEW x, x \notin S, IsFiniteSet(S)
    PROVE  /\ Cardinality(S \cup {x}) = Cardinality(S) + 1
           /\ IsFiniteSet(S \cup {x})
BY FS_AddElement

(***************************************************************************)
(* Lemmas about the geometry and the search order.                         *)
(***************************************************************************)
LEMMA GeometryFacts ==
    /\ IsFiniteSet(Groups) /\ IsFiniteSet(InodeBits)
    /\ \A g \in Groups : /\ g \in Nat
                         /\ GroupFirstBlock(g) \in Nat
                         /\ GroupBlockCount(g) \in 1 .. BlocksPerGroup
                         /\ IsFiniteSet(BlockBits(g))
<1>1. IsFiniteSet(Groups) /\ IsFiniteSet(InodeBits)
  BY FS_Interval, GeometryAssumption DEF Groups, InodeBits
<1>2. ASSUME NEW g \in Groups
      PROVE  g \in Nat /\ GroupFirstBlock(g) \in Nat
  <2>1. g \in Nat  BY GeometryAssumption DEF Groups
  <2>2. g * BlocksPerGroup \in Nat  BY <2>1, GeometryAssumption
  <2> QED  BY <2>1, <2>2, GeometryAssumption DEF GroupFirstBlock
<1>3. ASSUME NEW g \in Groups  PROVE  GroupBlockCount(g) \in 1 .. BlocksPerGroup
  <2>1. GroupCount - 1 \in Groups  BY GeometryAssumption DEF Groups
  <2>2. GroupFirstBlock(GroupCount - 1) \in Nat  BY <1>2, <2>1
  <2>3. \A n, m \in Nat : n # 0 => n * m = (n - 1) * m + m  BY SMT
  <2>4. GroupFirstBlock(GroupCount) = GroupFirstBlock(GroupCount - 1) + BlocksPerGroup
    <3>1. (GroupCount - 1) * BlocksPerGroup \in Int  BY GeometryAssumption
    <3> QED  BY <2>3, <3>1, GeometryAssumption DEF GroupFirstBlock
  <2> QED  BY <2>2, <2>4, GeometryAssumption DEF GroupBlockCount
<1>4. ASSUME NEW g \in Groups  PROVE  IsFiniteSet(BlockBits(g))
  <2>1. GroupBlockCount(g) - 1 \in Int  BY <1>3
  <2> QED  BY <2>1, FS_Interval DEF BlockBits
<1> QED  BY <1>1, <1>2, <1>3, <1>4

\* The group a step looks at is a group.
LEMMA GroupAtIsGroup ==
    ASSUME NEW start \in Nat, NEW step \in Nat
    PROVE  GroupAt(start, step) \in Groups
<1>1. start + step \in Nat  OBVIOUS
<1>2. \A n \in Nat, m \in Nat \ {0} : n % m \in 0 .. m - 1  BY SMT
<1> QED  BY <1>1, <1>2, GeometryAssumption DEF GroupAt, Groups

\* Dividing a number below n * m by m gives a number below n.
LEMMA Quotient ==
    ASSUME NEW a \in Nat, NEW m \in Nat \ {0}, NEW n \in Nat, a < n * m
    PROVE  a \div m \in 0 .. n - 1
<1>1. a \div m \in Nat /\ (a \div m) * m <= a  BY SMT
<1>2. (a \div m) * m < n * m  BY <1>1
<1>3. a \div m < n  BY <1>1, <1>2, SMT
<1> QED  BY <1>1, <1>3

\* A search starts in a group, whatever the goal.
LEMMA StartIsGroup ==
    ASSUME NEW goal \in Nat  PROVE  StartGroup(goal) \in Groups
<1>1. CASE goal >= FirstDataBlock /\ goal < BlocksCount
  <2>1. goal - FirstDataBlock \in Nat  BY <1>1, GeometryAssumption
  <2>2. goal - FirstDataBlock < GroupCount * BlocksPerGroup
    BY <1>1, GeometryAssumption DEF GroupFirstBlock
  <2>3. (goal - FirstDataBlock) \div BlocksPerGroup \in 0 .. GroupCount - 1
    BY <2>1, <2>2, Quotient, GeometryAssumption
  <2> QED  BY <1>1, <2>3 DEF StartGroup, GroupOfBlock, Groups
<1>2. CASE ~ (goal >= FirstDataBlock /\ goal < BlocksCount)
  BY <1>2, GeometryAssumption DEF StartGroup, Groups
<1> QED  BY <1>1, <1>2

\* From any group, the steps of a search reach every group.
LEMMA StepsReachEveryGroup ==
    ASSUME NEW start \in Groups, NEW g \in Groups
    PROVE  \E step \in 0 .. GroupCount - 1 : GroupAt(start, step) = g
<1>1. \A n \in Nat, m \in Nat \ {0} : n < m => n % m = n /\ (n + m) % m = n
  BY SMT
<1>2. GroupCount \in Nat \ {0} /\ start \in Nat /\ g \in Nat
      /\ start < GroupCount /\ g < GroupCount
  BY GeometryAssumption DEF Groups
<1>3. CASE start <= g
  <2>1. g - start \in 0 .. GroupCount - 1 /\ start + (g - start) = g  BY <1>2, <1>3
  <2> QED  BY <2>1, <1>1, <1>2 DEF GroupAt
<1>4. CASE g < start
  <2>1. /\ g + GroupCount - start \in 0 .. GroupCount - 1
        /\ start + (g + GroupCount - start) = g + GroupCount
    BY <1>2, <1>4
  <2> QED  BY <2>1, <1>1, <1>2 DEF GroupAt
<1> QED  BY <1>2, <1>3, <1>4

\* The search of one group looks at every bit of it, wherever it starts.
LEMMA SearchIsComplete ==
    ASSUME NEW goal \in Nat, NEW step \in Nat, NEW g \in Groups
    PROVE  /\ SearchFrom(goal, step, g) \in 0 .. GroupBlockCount(g) - 1
           /\ SearchedBits(SearchFrom(goal, step, g), GroupBlockCount(g)) = BlockBits(g)
<1>1. GroupFirstBlock(g) \in Nat /\ GroupBlockCount(g) \in Nat \ {0}
  BY GeometryFacts, GeometryAssumption
<1>2. SearchFrom(goal, step, g) \in 0 .. GroupBlockCount(g) - 1
  BY <1>1 DEF SearchFrom
<1> QED  BY <1>1, <1>2 DEF SearchedBits, BlockBits

(***************************************************************************)
(* How a call changes the bitmaps, as seen through the cache: reading more *)
(* bitmaps changes nothing, and a bit set or cleared is the only change.   *)
(***************************************************************************)
BlockBitmapSame == \A h \in Groups : BlockBitmap(h)' = BlockBitmap(h)
InodeBitmapSame == \A h \in Groups : InodeBitmap(h)' = InodeBitmap(h)

BlockTaken(g, i) ==
    \A h \in Groups :
        BlockBitmap(h)' = IF h = g THEN BlockBitmap(g) \cup {i} ELSE BlockBitmap(h)
BlockGiven(g, i) ==
    \A h \in Groups :
        BlockBitmap(h)' = IF h = g THEN BlockBitmap(g) \ {i} ELSE BlockBitmap(h)
InodeTaken(g, i) ==
    \A h \in Groups :
        InodeBitmap(h)' = IF h = g THEN InodeBitmap(g) \cup {i} ELSE InodeBitmap(h)
InodeGiven(g, i) ==
    \A h \in Groups :
        InodeBitmap(h)' = IF h = g THEN InodeBitmap(g) \ {i} ELSE InodeBitmap(h)

\* The bitmaps a call sees are bitmaps of their groups.
LEMMA BitmapType ==
    ASSUME TypeOK
    PROVE  \A g \in Groups : /\ BlockBitmap(g) \subseteq BlockBits(g)
                             /\ InodeBitmap(g) \subseteq InodeBits
BY DEF TypeOK, DiskType, BlockBitmap, InodeBitmap

\* The sets the counters count are finite.
LEMMA CountedSetsFinite ==
    /\ \A g \in Groups : /\ IsFiniteSet(FreeBlockBits(g))
                         /\ IsFiniteSet(FreeInodeBits(g))
                         /\ IsFiniteSet(DirsIn(g))
    /\ IsFiniteSet(AllFreeBlocks) /\ IsFiniteSet(AllFreeInodes)
<1>1. ASSUME NEW g \in Groups
      PROVE  /\ IsFiniteSet(FreeBlockBits(g))
             /\ IsFiniteSet(FreeInodeBits(g))
             /\ IsFiniteSet(DirsIn(g))
  <2>1. FreeBlockBits(g) \in SUBSET BlockBits(g)  BY DEF FreeBlockBits
  <2>2. FreeInodeBits(g) \in SUBSET InodeBits  BY DEF FreeInodeBits
  <2>3. DirsIn(g) \in SUBSET InodeBits  BY DEF DirsIn
  <2> QED  BY <2>1, <2>2, <2>3, FS_Subset, GeometryFacts
<1>2. IsFiniteSet(AllFreeBlocks)
  <2>1. IsFiniteSet(0 .. BlocksPerGroup - 1)
    BY FS_Interval, GeometryAssumption
  <2>2. IsFiniteSet(Groups \X (0 .. BlocksPerGroup - 1))
    BY <2>1, FS_Product, GeometryFacts
  <2>3. \A g \in Groups : BlockBits(g) \subseteq 0 .. BlocksPerGroup - 1
    BY GeometryFacts, GeometryAssumption DEF BlockBits
  <2>4. AllFreeBlocks \in SUBSET (Groups \X (0 .. BlocksPerGroup - 1))
    BY <2>3 DEF AllFreeBlocks, FreeBlockBits
  <2> QED  BY <2>2, <2>4, FS_Subset
<1>3. IsFiniteSet(AllFreeInodes)
  <2>1. IsFiniteSet(Groups \X InodeBits)  BY FS_Product, GeometryFacts
  <2>2. AllFreeInodes \in SUBSET (Groups \X InodeBits)
    BY DEF AllFreeInodes, FreeInodeBits
  <2> QED  BY <2>1, <2>2, FS_Subset
<1> QED  BY <1>1, <1>2, <1>3

(***************************************************************************)
(* What each call does, its search opened: the group and bit it found.     *)
(***************************************************************************)
LEMMA AllocBlockFinds ==
    ASSUME TypeOK, NEW goal \in Goals, AllocBlock(goal)
    PROVE  \E g \in Groups : \E i \in FreeBlockBits(g) :
             /\ g \in DOMAIN blockCache'
             /\ DOMAIN blockCache' \subseteq Groups
             /\ DOMAIN blockCache \subseteq DOMAIN blockCache'
             /\ BlockTaken(g, i)
             /\ dirtyBlock' = dirtyBlock \cup {g}
             /\ desc' = [desc EXCEPT ![g] = TakeBlock(@)]
<1> DEFINE start == StartGroup(goal)
<1>1. goal \in Nat /\ start \in Groups /\ start \in Nat
  BY StartIsGroup, GoalsAssumption, GeometryFacts
<1>2. PICK step \in 0 .. GroupCount - 1 :
        LET g    == GroupAt(start, step)
            kept == KeepBlock(Searched(start, step))
        IN  /\ \E i \in FreeIn(goal, step) :
                 blockCache' = [kept EXCEPT ![g] = @ \cup {i}]
            /\ dirtyBlock' = dirtyBlock \cup {g}
            /\ desc' = [desc EXCEPT ![g] = TakeBlock(@)]
  BY DEF AllocBlock
<1> DEFINE g    == GroupAt(start, step)
           kept == KeepBlock(Searched(start, step))
<1>3. step \in Nat /\ g \in Groups  BY <1>1, GroupAtIsGroup
<1>4. Searched(start, step) \subseteq Groups /\ g \in Searched(start, step)
  <2>1. \A s \in 0 .. step : GroupAt(start, s) \in Groups
    BY <1>1, GroupAtIsGroup
  <2> QED  BY <1>3, <2>1 DEF Searched
<1>5. PICK i \in FreeIn(goal, step) : blockCache' = [kept EXCEPT ![g] = @ \cup {i}]
  BY <1>2
<1>6. i \in FreeBlockBits(g)
  BY <1>1, <1>3, SearchIsComplete DEF FreeIn, FreeBlockBits
<1>7. DOMAIN kept = DOMAIN blockCache \cup Searched(start, step)
      /\ \A h \in DOMAIN kept : kept[h] = BlockBitmap(h)
  BY DEF KeepBlock
<1>8. DOMAIN blockCache' = DOMAIN kept
      /\ \A h \in DOMAIN kept :
           blockCache'[h] = IF h = g THEN BlockBitmap(g) \cup {i} ELSE BlockBitmap(h)
  BY <1>4, <1>5, <1>7
<1>9. BlockTaken(g, i)
  BY <1>4, <1>7, <1>8 DEF BlockTaken, BlockBitmap, AllocBlock
<1> HIDE DEF kept
<1> QED  BY <1>2, <1>3, <1>4, <1>6, <1>7, <1>8, <1>9 DEF TypeOK

LEMMA AllocInodeFinds ==
    ASSUME TypeOK, NEW near \in Nat, NEW isDir \in BOOLEAN, AllocInode(near, isDir),
           StartGroupOfInode(near) \in Groups
    PROVE  \E g \in Groups : \E i \in FreeInodeBits(g) \ Reserved(g) :
             /\ g \in DOMAIN inodeCache'
             /\ DOMAIN inodeCache' \subseteq Groups
             /\ DOMAIN inodeCache \subseteq DOMAIN inodeCache'
             /\ InodeTaken(g, i)
             /\ dirtyInode' = dirtyInode \cup {g}
             /\ desc' = [desc EXCEPT ![g] = TakeInode(@, i, isDir)]
             /\ dirs' = IF isDir THEN dirs \cup {<<g, i>>} ELSE dirs
<1> DEFINE start == StartGroupOfInode(near)
<1>1. start \in Nat  BY GeometryFacts
<1>2. PICK step \in 0 .. GroupCount - 1 :
        LET g    == GroupAt(start, step)
            kept == KeepInode(Searched(start, step))
        IN  /\ \E i \in AllocatableInodes(g) :
                 /\ inodeCache' = [kept EXCEPT ![g] = @ \cup {i}]
                 /\ desc' = [desc EXCEPT ![g] = TakeInode(@, i, isDir)]
                 /\ dirs' = IF isDir THEN dirs \cup {<<g, i>>} ELSE dirs
            /\ dirtyInode' = dirtyInode \cup {g}
  BY DEF AllocInode
<1> DEFINE g    == GroupAt(start, step)
           kept == KeepInode(Searched(start, step))
<1>3. step \in Nat /\ g \in Groups  BY <1>1, GroupAtIsGroup
<1>4. Searched(start, step) \subseteq Groups /\ g \in Searched(start, step)
  <2>1. \A s \in 0 .. step : GroupAt(start, s) \in Groups
    BY <1>1, GroupAtIsGroup
  <2> QED  BY <1>3, <2>1 DEF Searched
<1>5. PICK i \in AllocatableInodes(g) :
        /\ inodeCache' = [kept EXCEPT ![g] = @ \cup {i}]
        /\ desc' = [desc EXCEPT ![g] = TakeInode(@, i, isDir)]
        /\ dirs' = IF isDir THEN dirs \cup {<<g, i>>} ELSE dirs
  BY <1>2
<1>6. i \in FreeInodeBits(g) \ Reserved(g)  BY DEF AllocatableInodes
<1>7. DOMAIN kept = DOMAIN inodeCache \cup Searched(start, step)
      /\ \A h \in DOMAIN kept : kept[h] = InodeBitmap(h)
  BY DEF KeepInode
<1>8. DOMAIN inodeCache' = DOMAIN kept
      /\ \A h \in DOMAIN kept :
           inodeCache'[h] = IF h = g THEN InodeBitmap(g) \cup {i} ELSE InodeBitmap(h)
  BY <1>4, <1>5, <1>7
<1>9. InodeTaken(g, i)
  BY <1>4, <1>7, <1>8 DEF InodeTaken, InodeBitmap, AllocInode
<1> HIDE DEF kept
<1> QED  BY <1>2, <1>3, <1>4, <1>5, <1>6, <1>7, <1>8, <1>9 DEF TypeOK

\* near is an inode's number, so the search starts in a group.
LEMMA StartInodeIsGroup ==
    ASSUME NEW near \in Nat  PROVE  StartGroupOfInode(near) \in Groups
<1>1. CASE near > 0 /\ near <= GroupCount * InodesPerGroup
  <2>1. near - 1 \in Nat /\ near - 1 < GroupCount * InodesPerGroup
    BY <1>1, GeometryAssumption
  <2> QED  BY <1>1, <2>1, Quotient, GeometryAssumption DEF StartGroupOfInode, Groups
<1>2. CASE ~ (near > 0 /\ near <= GroupCount * InodesPerGroup)
  BY <1>2, GeometryAssumption DEF StartGroupOfInode, Groups
<1> QED  BY <1>1, <1>2

\* The cached bitmaps are bitmaps of their groups when what a call sees is.
LEMMA BitmapTypeNext ==
    ASSUME TypeOK, DOMAIN blockCache' \subseteq Groups,
           DOMAIN inodeCache' \subseteq Groups,
           \A h \in Groups : /\ BlockBitmap(h)' \subseteq BlockBits(h)
                             /\ InodeBitmap(h)' \subseteq InodeBits
    PROVE  /\ \A h \in DOMAIN blockCache' : blockCache'[h] \subseteq BlockBits(h)
           /\ \A h \in DOMAIN inodeCache' : inodeCache'[h] \subseteq InodeBits
BY DEF BlockBitmap, InodeBitmap

(***************************************************************************)
(* Type correctness.                                                       *)
(***************************************************************************)

\* The freshly made volume is well typed.
LEMMA TypeInit == Init => TypeOK
<1> SUFFICES ASSUME Init PROVE TypeOK  OBVIOUS
<1>1. \A g \in Groups :
        /\ IsFiniteSet(BlockBits(g) \ Metadata[g])
        /\ IsFiniteSet(InodeBits \ Reserved(g))
        /\ IsFiniteSet(RootBit(g))
        /\ Cardinality(InodeBits \ Reserved(g)) <= InodesPerGroup
        /\ Reserved(g) \subseteq InodeBits
  <2> TAKE g \in Groups
  <2>1. BlockBits(g) \ Metadata[g] \in SUBSET BlockBits(g)  OBVIOUS
  <2>2. InodeBits \ Reserved(g) \in SUBSET InodeBits  OBVIOUS
  <2>3. RootBit(g) \in SUBSET InodeBits  BY DEF RootBit
  <2>4. Cardinality(InodeBits) = InodesPerGroup
    BY FS_Interval, GeometryAssumption DEF InodeBits
  <2> QED  BY <2>1, <2>2, <2>3, <2>4, FS_Subset, GeometryFacts DEF Reserved
<1>2. \A g \in Groups : FreshDesc(g) \in DescType
  <2> TAKE g \in Groups
  <2>1. /\ Cardinality(BlockBits(g) \ Metadata[g]) \in Nat
        /\ Cardinality(InodeBits \ Reserved(g)) \in Nat
        /\ Cardinality(RootBit(g)) \in Nat
    BY <1>1, FS_CardinalityType
  <2>2. Metadata[g] \in SUBSET Nat /\ Reserved(g) \in SUBSET InodeBits
    BY <1>1, MetadataAssumption
  <2>3. (g # 0 /\ Reserved(g) = {}) \in BOOLEAN  OBVIOUS
  <2>4. Cardinality(InodeBits \ Reserved(g)) \in 0 .. InodesPerGroup
    <3>1. Cardinality(InodeBits \ Reserved(g)) <= InodesPerGroup  BY <1>1
    <3> QED  BY <2>1, <3>1, GeometryAssumption
  <2> QED  BY <2>1, <2>2, <2>3, <2>4 DEF FreshDesc, DescType
<1>3. desc \in [Groups -> DescType]
  BY <1>2 DEF Init
<1>4. AllFreeBlocks = UNION {{g} \X (BlockBits(g) \ Metadata[g]) : g \in Groups}
      /\ AllFreeInodes = UNION {{g} \X (InodeBits \ Reserved(g)) : g \in Groups}
  BY DEF AllFreeBlocks, AllFreeInodes, FreeBlockBits, FreeInodeBits,
         BlockBitmap, InodeBitmap, Init
<1>5. sb \in SbType
  BY <1>4, CountedSetsFinite, FS_CardinalityType DEF Init, SbType
<1>6. /\ disk.block = Metadata /\ disk.inode = [g \in Groups |-> Reserved(g)]
      /\ disk.desc = desc /\ disk.sb = sb
      /\ disk \in DiskType
  BY <1>1, <1>3, <1>5, MetadataAssumption DEF Init, DiskType
<1>7. dirs \subseteq Groups \X InodeBits  BY DEF Init
<1>8. /\ DOMAIN blockCache = {} /\ DOMAIN inodeCache = {}
      /\ dirtyBlock = {} /\ dirtyInode = {} /\ todo = {} /\ phase = "idle"
      /\ failures = 0 /\ result = "ok" /\ warned = FALSE
  BY DEF Init
<1>9. \A g \in Groups : disk.block[g] \subseteq BlockBits(g)
  BY <1>6, MetadataAssumption
<1>10. failures \in 0 .. MaxFailures  BY <1>8, MaxFailuresAssumption
<1>11. /\ DOMAIN blockCache \subseteq Groups /\ DOMAIN inodeCache \subseteq Groups
       /\ \A g \in DOMAIN blockCache : blockCache[g] \subseteq BlockBits(g)
       /\ \A g \in DOMAIN inodeCache : inodeCache[g] \subseteq InodeBits
  BY <1>8
<1> QED
  BY <1>3, <1>5, <1>6, <1>7, <1>8, <1>9, <1>10, <1>11 DEF TypeOK

\* Every update of a descriptor is a descriptor.
LEMMA DescUpdates ==
    ASSUME NEW d \in DescType
    PROVE  /\ TakeBlock(d) \in DescType /\ GiveBlock(d) \in DescType
           /\ \A i \in InodeBits, b \in BOOLEAN : TakeInode(d, i, b) \in DescType
           /\ \A b \in BOOLEAN : GiveInode(d, b) \in DescType
           /\ \A bits \in SUBSET Nat : StampBlock(d, bits) \in DescType
           /\ \A bits \in SUBSET InodeBits : StampInode(d, bits) \in DescType
<1>0. \A n \in Nat : Decrement(n) \in Nat  BY DEF Decrement
<1>1. TakeBlock(d) \in DescType  BY <1>0 DEF TakeBlock, DescType
<1>2. GiveBlock(d) \in DescType  BY DEF GiveBlock, DescType
<1>3. ASSUME NEW i \in InodeBits, NEW b \in BOOLEAN
      PROVE  TakeInode(d, i, b) \in DescType
  <2>1. ShrinkTail(d.itableUnused, i) \in 0 .. InodesPerGroup
    BY GeometryAssumption DEF ShrinkTail, InodeBits, DescType
  <2>2. WithDir(d.usedDirs, b) \in Nat  BY DEF DescType, WithDir
  <2> QED  BY <1>0, <2>1, <2>2 DEF TakeInode, DescType
<1>4. ASSUME NEW b \in BOOLEAN  PROVE  GiveInode(d, b) \in DescType
  <2>1. WithoutDir(d.usedDirs, b) \in Nat  BY <1>0 DEF DescType, WithoutDir
  <2>2. \A m, n \in Nat : [d EXCEPT !.freeInodes = m, !.usedDirs = n] \in DescType
    BY DEF DescType
  <2>3. d.freeInodes + 1 \in Nat  BY DEF DescType
  <2>4. GiveInode(d, b) = [d EXCEPT !.freeInodes = d.freeInodes + 1,
                                    !.usedDirs = WithoutDir(d.usedDirs, b)]
    BY DEF GiveInode, DescType
  <2> QED  BY <2>1, <2>2, <2>3, <2>4
<1>5. ASSUME NEW bits \in SUBSET Nat  PROVE  StampBlock(d, bits) \in DescType
  BY DEF StampBlock, DescType
<1>6. ASSUME NEW bits \in SUBSET InodeBits  PROVE  StampInode(d, bits) \in DescType
  BY DEF StampInode, DescType
<1> QED  BY <1>1, <1>2, <1>3, <1>4, <1>5, <1>6

\* Every step keeps the state well typed.
LEMMA TypeNext == TypeOK /\ [Next]_vars => TypeOK'
<1> SUFFICES ASSUME TypeOK, [Next]_vars PROVE TypeOK'  OBVIOUS
<1> USE DEF cacheVars, flushVars
<1>1. ASSUME NEW goal \in Goals, AllocBlock(goal)  PROVE TypeOK'
  <2>1. PICK g \in Groups : \E i \in FreeBlockBits(g) :
             /\ g \in DOMAIN blockCache'
             /\ DOMAIN blockCache' \subseteq Groups
             /\ DOMAIN blockCache \subseteq DOMAIN blockCache'
             /\ BlockTaken(g, i)
             /\ dirtyBlock' = dirtyBlock \cup {g}
             /\ desc' = [desc EXCEPT ![g] = TakeBlock(@)]
    BY <1>1, AllocBlockFinds
  <2>2. \A h \in Groups : /\ BlockBitmap(h)' \subseteq BlockBits(h)
                          /\ InodeBitmap(h)' \subseteq InodeBits
    BY <1>1, <2>1, BitmapType DEF BlockTaken, FreeBlockBits, InodeBitmap, AllocBlock
  <2>3. DOMAIN inodeCache' \subseteq Groups  BY <1>1 DEF AllocBlock, TypeOK
  <2>4. desc' \in [Groups -> DescType]
    BY <2>1, DescUpdates DEF TypeOK
  <2>5. sb' \in SbType  BY <1>1 DEF AllocBlock, TypeOK, SbType, Decrement
  <2> QED  BY <1>1, <2>1, <2>2, <2>3, <2>4, <2>5, BitmapTypeNext DEF AllocBlock, TypeOK
<1>2. ASSUME NEW goal \in Goals, AllocBlockFails(goal)  PROVE TypeOK'
  BY <1>2, BitmapType DEF AllocBlockFails, TypeOK, KeepBlock
<1>3. ASSUME NEW g \in Groups, NEW i \in BlockBits(g), FreeBlock(g, i)  PROVE TypeOK'
  <2>1. desc' \in [Groups -> DescType]  BY <1>3, DescUpdates DEF FreeBlock, TypeOK
  <2>2. sb' \in SbType  BY <1>3 DEF FreeBlock, TypeOK, SbType
  <2> QED  BY <1>3, <2>1, <2>2, BitmapType DEF FreeBlock, TypeOK, KeepBlock
<1>4. ASSUME NEW g \in Groups, NEW i \in BlockBits(g), FreeBlockAgain(g, i)
      PROVE TypeOK'
  BY <1>4, BitmapType DEF FreeBlockAgain, TypeOK, KeepBlock
<1>5. ASSUME NEW near \in 1 .. GroupCount * InodesPerGroup, NEW isDir \in BOOLEAN,
             AllocInode(near, isDir)
      PROVE TypeOK'
  <2>0. near \in Nat  BY GeometryAssumption
  <2>1. PICK g \in Groups : \E i \in FreeInodeBits(g) \ Reserved(g) :
             /\ g \in DOMAIN inodeCache'
             /\ DOMAIN inodeCache' \subseteq Groups
             /\ DOMAIN inodeCache \subseteq DOMAIN inodeCache'
             /\ InodeTaken(g, i)
             /\ dirtyInode' = dirtyInode \cup {g}
             /\ desc' = [desc EXCEPT ![g] = TakeInode(@, i, isDir)]
             /\ dirs' = IF isDir THEN dirs \cup {<<g, i>>} ELSE dirs
    BY <1>5, <2>0, AllocInodeFinds, StartInodeIsGroup
  <2>7. PICK i \in FreeInodeBits(g) \ Reserved(g) :
             /\ InodeTaken(g, i)
             /\ desc' = [desc EXCEPT ![g] = TakeInode(@, i, isDir)]
             /\ dirs' = IF isDir THEN dirs \cup {<<g, i>>} ELSE dirs
    BY <2>1
  <2>2. \A h \in Groups : /\ BlockBitmap(h)' \subseteq BlockBits(h)
                          /\ InodeBitmap(h)' \subseteq InodeBits
    BY <1>5, <2>7, BitmapType DEF InodeTaken, FreeInodeBits, BlockBitmap, AllocInode
  <2>3. DOMAIN blockCache' \subseteq Groups  BY <1>5 DEF AllocInode, TypeOK
  <2>4. i \in InodeBits  BY <2>7 DEF FreeInodeBits
  <2>5. desc' \in [Groups -> DescType]
    BY <2>4, <2>7, DescUpdates DEF TypeOK
  <2>6. sb' \in SbType  BY <1>5 DEF AllocInode, TypeOK, SbType, Decrement
  <2> QED
    BY <1>5, <2>1, <2>2, <2>3, <2>4, <2>5, <2>6, <2>7, BitmapTypeNext DEF AllocInode, TypeOK
<1>6. ASSUME NEW near \in 1 .. GroupCount * InodesPerGroup, AllocInodeFails(near)
      PROVE TypeOK'
  BY <1>6, BitmapType DEF AllocInodeFails, TypeOK, KeepInode
<1>7. ASSUME NEW g \in Groups, NEW i \in InodeBits, NEW wasDir \in BOOLEAN,
             FreeInode(g, i, wasDir)
      PROVE TypeOK'
  <2>1. desc' \in [Groups -> DescType]
    BY <1>7, DescUpdates DEF FreeInode, TypeOK
  <2>2. sb' \in SbType  BY <1>7 DEF FreeInode, TypeOK, SbType
  <2> QED  BY <1>7, <2>1, <2>2, BitmapType DEF FreeInode, TypeOK, KeepInode
<1>8. CASE FlushBegin  BY <1>8 DEF FlushBegin, TypeOK
<1>9. ASSUME NEW g \in Groups, FlushBlockBitmap(g)  PROVE TypeOK'
  <2>1. g \in DOMAIN blockCache /\ blockCache[g] \in SUBSET BlockBits(g)
        /\ blockCache[g] \in SUBSET Nat
    BY <1>9 DEF FlushBlockBitmap, NextGroup, TypeOK, BlockBits
  <2>2. desc' \in [Groups -> DescType]
    BY <1>9, <2>1, DescUpdates DEF FlushBlockBitmap, TypeOK
  <2>3. disk' \in DiskType /\ \A h \in Groups : disk'.block[h] \subseteq BlockBits(h)
    BY <1>9, <2>1 DEF FlushBlockBitmap, TypeOK, DiskType
  <2> QED  BY <1>9, <2>1, <2>2, <2>3 DEF FlushBlockBitmap, TypeOK
<1>10. ASSUME NEW g \in Groups, FlushInodeBitmap(g)  PROVE TypeOK'
  <2>1. g \in DOMAIN inodeCache /\ inodeCache[g] \in SUBSET InodeBits
    BY <1>10 DEF FlushInodeBitmap, NextGroup, TypeOK
  <2>2. desc' \in [Groups -> DescType]
    BY <1>10, <2>1, DescUpdates DEF FlushInodeBitmap, TypeOK
  <2>3. disk' \in DiskType /\ \A h \in Groups : disk'.block[h] \subseteq BlockBits(h)
    BY <1>10, <2>1 DEF FlushInodeBitmap, TypeOK, DiskType
  <2> QED  BY <1>10, <2>1, <2>2, <2>3 DEF FlushInodeBitmap, TypeOK
<1>11. ASSUME NEW g \in Groups, FlushDesc(g)  PROVE TypeOK'
  BY <1>11 DEF FlushDesc, TypeOK, DiskType
<1>12. CASE FlushBlocksDone  BY <1>12 DEF FlushBlocksDone, TypeOK
<1>13. CASE FlushBitmapsDone  BY <1>13 DEF FlushBitmapsDone, TypeOK
<1>14. CASE FlushSuperblock  BY <1>14 DEF FlushSuperblock, TypeOK, DiskType
<1>15. CASE FlushDevice  BY <1>15 DEF FlushDevice, TypeOK
<1>16. CASE FlushFails
  BY <1>16, MaxFailuresAssumption DEF FlushFails, Abandon, DirtyAfterFailure, TypeOK
<1>20. ASSUME NEW g \in Groups, BlockWriteUnanswered(g)  PROVE TypeOK'
  <2>1. blockCache[g] \in SUBSET BlockBits(g) /\ blockCache[g] \in SUBSET Nat
    BY <1>20 DEF BlockWriteUnanswered, NextGroup, TypeOK, BlockBits
  <2>2. disk' \in DiskType /\ \A h \in Groups : disk'.block[h] \subseteq BlockBits(h)
    BY <1>20, <2>1 DEF BlockWriteUnanswered, TypeOK, DiskType
  <2> QED
    BY <1>20, <2>2, MaxFailuresAssumption
    DEF BlockWriteUnanswered, Abandon, DirtyAfterFailure, TypeOK
<1>21. ASSUME NEW g \in Groups, InodeWriteUnanswered(g)  PROVE TypeOK'
  <2>1. inodeCache[g] \in SUBSET InodeBits
    BY <1>21 DEF InodeWriteUnanswered, NextGroup, TypeOK
  <2>2. disk' \in DiskType /\ \A h \in Groups : disk'.block[h] \subseteq BlockBits(h)
    BY <1>21, <2>1 DEF InodeWriteUnanswered, TypeOK, DiskType
  <2> QED
    BY <1>21, <2>2, MaxFailuresAssumption
    DEF InodeWriteUnanswered, Abandon, DirtyAfterFailure, TypeOK
<1>17. CASE Drop
  <2>1. warned' \in BOOLEAN  BY <1>17, Zenon DEF Drop, IsDirty
  <2>2. /\ phase = "idle" /\ phase' = "closed"
        /\ UNCHANGED <<cacheVars, desc, sb, todo, failures, disk, dirs, result>>
    BY <1>17 DEF Drop, Idle
  <2> QED  BY <2>1, <2>2 DEF TypeOK
<1>18. CASE Open
  <2>1. /\ DOMAIN blockCache' = {} /\ DOMAIN inodeCache' = {}
        /\ dirtyBlock' = {} /\ dirtyInode' = {}
    BY <1>18 DEF Open
  <2>2. desc' \in [Groups -> DescType] /\ sb' \in SbType
    BY <1>18 DEF Open, TypeOK, DiskType
  <2>3. /\ todo' = {} /\ phase' = "idle" /\ warned' = FALSE /\ result' = "ok"
        /\ disk' = disk /\ dirs' = dirs /\ failures' \in 0 .. MaxFailures
    BY <1>18, MaxFailuresAssumption DEF Open, TypeOK
  <2> QED  BY <2>1, <2>2, <2>3 DEF TypeOK
<1>19. CASE UNCHANGED vars  BY <1>19 DEF vars, TypeOK
<1> QED
  BY <1>1, <1>2, <1>3, <1>4, <1>5, <1>6, <1>7, <1>8, <1>9, <1>10, <1>11, <1>12,
     <1>13, <1>14, <1>15, <1>16, <1>17, <1>18, <1>19, <1>20, <1>21 DEF Next, FlushStep

(***************************************************************************)
(* The counters.                                                           *)
(***************************************************************************)

\* Taking a free block keeps every counter in step.
LEMMA BlockTakenCounts ==
    ASSUME TypeOK, CountersInStep, InodeBitmapSame, dirs' = dirs,
           NEW g \in Groups, NEW i \in FreeBlockBits(g), BlockTaken(g, i),
           desc' = [desc EXCEPT ![g] = TakeBlock(@)],
           sb' = [sb EXCEPT !.freeBlocks = Decrement(@)]
    PROVE  CountersInStep'
<1>1. \A h \in Groups :
        FreeBlockBits(h)' = IF h = g THEN FreeBlockBits(g) \ {i} ELSE FreeBlockBits(h)
  BY DEF BlockTaken, FreeBlockBits
<1>2. AllFreeBlocks' = AllFreeBlocks \ {<<g, i>>} /\ <<g, i>> \in AllFreeBlocks
  BY <1>1 DEF AllFreeBlocks
<1>3. AllFreeInodes' = AllFreeInodes
      /\ \A h \in Groups : FreeInodeBits(h)' = FreeInodeBits(h) /\ DirsIn(h)' = DirsIn(h)
  BY DEF InodeBitmapSame, FreeInodeBits, DirsIn, AllFreeInodes
<1>4. \A h \in Groups :
        /\ desc'[h].freeBlocks = IF h = g THEN Decrement(desc[g].freeBlocks)
                                          ELSE desc[h].freeBlocks
        /\ desc'[h].freeInodes = desc[h].freeInodes
        /\ desc'[h].usedDirs = desc[h].usedDirs
  BY DEF TypeOK, DescType, TakeBlock
<1>5. Cardinality(FreeBlockBits(g) \ {i}) = Decrement(Cardinality(FreeBlockBits(g)))
  BY CountRemove, CountedSetsFinite
<1>6. Cardinality(AllFreeBlocks \ {<<g, i>>}) = Decrement(Cardinality(AllFreeBlocks))
  BY <1>2, CountRemove, CountedSetsFinite
<1>7. sb'.freeBlocks = Decrement(sb.freeBlocks) /\ sb'.freeInodes = sb.freeInodes
  BY DEF TypeOK, SbType
<1> QED  BY <1>1, <1>2, <1>3, <1>4, <1>5, <1>6, <1>7 DEF CountersInStep

\* Giving back a block in use keeps every counter in step.
LEMMA BlockGivenCounts ==
    ASSUME TypeOK, CountersInStep, InodeBitmapSame, dirs' = dirs,
           NEW g \in Groups, NEW i \in BlockBits(g), i \in BlockBitmap(g),
           BlockGiven(g, i),
           desc' = [desc EXCEPT ![g] = GiveBlock(@)],
           sb' = [sb EXCEPT !.freeBlocks = @ + 1]
    PROVE  CountersInStep'
<1>1. \A h \in Groups :
        FreeBlockBits(h)' = IF h = g THEN FreeBlockBits(g) \cup {i} ELSE FreeBlockBits(h)
  BY DEF BlockGiven, FreeBlockBits
<1>2. AllFreeBlocks' = AllFreeBlocks \cup {<<g, i>>} /\ <<g, i>> \notin AllFreeBlocks
  BY <1>1 DEF AllFreeBlocks, FreeBlockBits
<1>3. AllFreeInodes' = AllFreeInodes
      /\ \A h \in Groups : FreeInodeBits(h)' = FreeInodeBits(h) /\ DirsIn(h)' = DirsIn(h)
  BY DEF InodeBitmapSame, FreeInodeBits, DirsIn, AllFreeInodes
<1>4. \A h \in Groups :
        /\ desc'[h].freeBlocks = IF h = g THEN desc[g].freeBlocks + 1
                                          ELSE desc[h].freeBlocks
        /\ desc'[h].freeInodes = desc[h].freeInodes
        /\ desc'[h].usedDirs = desc[h].usedDirs
  BY DEF TypeOK, DescType, GiveBlock
<1>5. Cardinality(FreeBlockBits(g) \cup {i}) = Cardinality(FreeBlockBits(g)) + 1
  BY CountAdd, CountedSetsFinite DEF FreeBlockBits
<1>6. Cardinality(AllFreeBlocks \cup {<<g, i>>}) = Cardinality(AllFreeBlocks) + 1
  BY <1>2, CountAdd, CountedSetsFinite
<1>7. sb'.freeBlocks = sb.freeBlocks + 1 /\ sb'.freeInodes = sb.freeInodes
  BY DEF TypeOK, SbType
<1> QED  BY <1>1, <1>2, <1>3, <1>4, <1>5, <1>6, <1>7 DEF CountersInStep

\* Taking a free inode keeps every counter in step, the directory tally too.
LEMMA InodeTakenCounts ==
    ASSUME TypeOK, CountersInStep, BlockBitmapSame, NEW isDir \in BOOLEAN,
           NEW g \in Groups, NEW i \in FreeInodeBits(g), <<g, i>> \notin dirs,
           InodeTaken(g, i),
           dirs' = IF isDir THEN dirs \cup {<<g, i>>} ELSE dirs,
           desc' = [desc EXCEPT ![g] = TakeInode(@, i, isDir)],
           sb' = [sb EXCEPT !.freeInodes = Decrement(@)]
    PROVE  CountersInStep'
<1>0. i \in InodeBits  BY DEF FreeInodeBits
<1>1. \A h \in Groups :
        FreeInodeBits(h)' = IF h = g THEN FreeInodeBits(g) \ {i} ELSE FreeInodeBits(h)
  BY DEF InodeTaken, FreeInodeBits
<1>2. AllFreeInodes' = AllFreeInodes \ {<<g, i>>} /\ <<g, i>> \in AllFreeInodes
  BY <1>1 DEF AllFreeInodes
<1>3. AllFreeBlocks' = AllFreeBlocks
      /\ \A h \in Groups : FreeBlockBits(h)' = FreeBlockBits(h)
  BY DEF BlockBitmapSame, FreeBlockBits, AllFreeBlocks
<1>4. \A h \in Groups :
        DirsIn(h)' = IF h = g /\ isDir THEN DirsIn(g) \cup {i} ELSE DirsIn(h)
  BY <1>0 DEF DirsIn
<1>5. \A h \in Groups :
        /\ desc'[h].freeInodes = IF h = g THEN Decrement(desc[g].freeInodes)
                                          ELSE desc[h].freeInodes
        /\ desc'[h].freeBlocks = desc[h].freeBlocks
        /\ desc'[h].usedDirs = IF h = g THEN WithDir(desc[g].usedDirs, isDir)
                                        ELSE desc[h].usedDirs
  BY DEF TypeOK, DescType, TakeInode
<1>6. Cardinality(FreeInodeBits(g) \ {i}) = Decrement(Cardinality(FreeInodeBits(g)))
  BY CountRemove, CountedSetsFinite
<1>7. Cardinality(AllFreeInodes \ {<<g, i>>}) = Decrement(Cardinality(AllFreeInodes))
  BY <1>2, CountRemove, CountedSetsFinite
<1>8. Cardinality(DirsIn(g) \cup {i}) = Cardinality(DirsIn(g)) + 1
  BY CountAdd, CountedSetsFinite DEF DirsIn
<1>9. sb'.freeInodes = Decrement(sb.freeInodes) /\ sb'.freeBlocks = sb.freeBlocks
  BY DEF TypeOK, SbType
<1>10. \A h \in Groups : desc'[h].usedDirs = Cardinality(DirsIn(h)')
  <2>1. CASE isDir = TRUE  BY <2>1, <1>4, <1>5, <1>8 DEF WithDir, CountersInStep
  <2>2. CASE isDir = FALSE  BY <2>2, <1>4, <1>5 DEF WithDir, CountersInStep
  <2> QED  BY <2>1, <2>2
<1> QED
  BY <1>1, <1>2, <1>3, <1>5, <1>6, <1>7, <1>9, <1>10 DEF CountersInStep

\* Giving back an inode in use keeps every counter in step.
LEMMA InodeGivenCounts ==
    ASSUME TypeOK, CountersInStep, BlockBitmapSame, NEW wasDir \in BOOLEAN,
           NEW g \in Groups, NEW i \in InodeBits, i \in InodeBitmap(g),
           wasDir = (<<g, i>> \in dirs), InodeGiven(g, i),
           dirs' = dirs \ {<<g, i>>},
           desc' = [desc EXCEPT ![g] = GiveInode(@, wasDir)],
           sb' = [sb EXCEPT !.freeInodes = @ + 1]
    PROVE  CountersInStep'
<1>1. \A h \in Groups :
        FreeInodeBits(h)' = IF h = g THEN FreeInodeBits(g) \cup {i} ELSE FreeInodeBits(h)
  BY DEF InodeGiven, FreeInodeBits
<1>2. AllFreeInodes' = AllFreeInodes \cup {<<g, i>>} /\ <<g, i>> \notin AllFreeInodes
  BY <1>1 DEF AllFreeInodes, FreeInodeBits
<1>3. AllFreeBlocks' = AllFreeBlocks
      /\ \A h \in Groups : FreeBlockBits(h)' = FreeBlockBits(h)
  BY DEF BlockBitmapSame, FreeBlockBits, AllFreeBlocks
<1>4. \A h \in Groups : DirsIn(h)' = IF h = g THEN DirsIn(g) \ {i} ELSE DirsIn(h)
  BY DEF DirsIn
<1>5. \A h \in Groups :
        /\ desc'[h].freeInodes = IF h = g THEN desc[g].freeInodes + 1
                                          ELSE desc[h].freeInodes
        /\ desc'[h].freeBlocks = desc[h].freeBlocks
        /\ desc'[h].usedDirs = IF h = g THEN WithoutDir(desc[g].usedDirs, wasDir)
                                        ELSE desc[h].usedDirs
  BY DEF TypeOK, DescType, GiveInode
<1>6. Cardinality(FreeInodeBits(g) \cup {i}) = Cardinality(FreeInodeBits(g)) + 1
  BY CountAdd, CountedSetsFinite DEF FreeInodeBits
<1>7. Cardinality(AllFreeInodes \cup {<<g, i>>}) = Cardinality(AllFreeInodes) + 1
  BY <1>2, CountAdd, CountedSetsFinite
<1>8. sb'.freeInodes = sb.freeInodes + 1 /\ sb'.freeBlocks = sb.freeBlocks
  BY DEF TypeOK, SbType
<1>9. \A h \in Groups : desc'[h].usedDirs = Cardinality(DirsIn(h)')
  <2>1. CASE wasDir = TRUE
    <3>1. i \in DirsIn(g)  BY <2>1 DEF DirsIn
    <3>2. Cardinality(DirsIn(g) \ {i}) = Decrement(Cardinality(DirsIn(g)))
      BY <3>1, CountRemove, CountedSetsFinite
    <3> QED  BY <2>1, <3>2, <1>4, <1>5 DEF WithoutDir, CountersInStep
  <2>2. CASE wasDir = FALSE
    <3>1. DirsIn(g) \ {i} = DirsIn(g)  BY <2>2 DEF DirsIn
    <3> QED  BY <2>2, <3>1, <1>4, <1>5 DEF WithoutDir, CountersInStep
  <2> QED  BY <2>1, <2>2
<1> QED
  BY <1>1, <1>2, <1>3, <1>5, <1>6, <1>7, <1>8, <1>9 DEF CountersInStep

\* A step that changes no bitmap, no tally and no counter keeps them in step.
LEMMA QuietCounts ==
    ASSUME CountersInStep, BlockBitmapSame, InodeBitmapSame, dirs' = dirs, sb' = sb,
           \A h \in Groups : /\ desc'[h].freeBlocks = desc[h].freeBlocks
                             /\ desc'[h].freeInodes = desc[h].freeInodes
                             /\ desc'[h].usedDirs = desc[h].usedDirs
    PROVE  CountersInStep'
<1>1. AllFreeInodes' = AllFreeInodes
      /\ \A h \in Groups : FreeInodeBits(h)' = FreeInodeBits(h) /\ DirsIn(h)' = DirsIn(h)
  BY DEF InodeBitmapSame, FreeInodeBits, DirsIn, AllFreeInodes
<1>2. AllFreeBlocks' = AllFreeBlocks
      /\ \A h \in Groups : FreeBlockBits(h)' = FreeBlockBits(h)
  BY DEF BlockBitmapSame, FreeBlockBits, AllFreeBlocks
<1> QED  BY <1>1, <1>2 DEF CountersInStep

\* Reading bitmaps into the cache changes none of them.
LEMMA KeepChangesNothing ==
    ASSUME NEW S \in SUBSET Groups, disk' = disk
    PROVE  /\ blockCache' = KeepBlock(S) => BlockBitmapSame
           /\ inodeCache' = KeepInode(S) => InodeBitmapSame
           /\ blockCache' = blockCache => BlockBitmapSame
           /\ inodeCache' = inodeCache => InodeBitmapSame
BY DEF BlockBitmapSame, InodeBitmapSame, KeepBlock, KeepInode, BlockBitmap, InodeBitmap

\* free_block and free_inode clear the one bit they are given.
LEMMA GivenBits ==
    ASSUME NEW g \in Groups, NEW i, disk' = disk
    PROVE  /\ blockCache' = [KeepBlock({g}) EXCEPT ![g] = @ \ {i}] => BlockGiven(g, i)
           /\ inodeCache' = [KeepInode({g}) EXCEPT ![g] = @ \ {i}] => InodeGiven(g, i)
<1>1. KeepBlock({g})[g] = BlockBitmap(g) /\ KeepInode({g})[g] = InodeBitmap(g)
  BY DEF KeepBlock, KeepInode
<1>2. ASSUME blockCache' = [KeepBlock({g}) EXCEPT ![g] = @ \ {i}]
      PROVE  BlockGiven(g, i)
  <2>1. DOMAIN blockCache' = DOMAIN blockCache \cup {g}
        /\ \A h \in DOMAIN blockCache' :
             blockCache'[h] = IF h = g THEN BlockBitmap(g) \ {i} ELSE BlockBitmap(h)
    BY <1>1, <1>2 DEF KeepBlock
  <2> QED  BY <2>1 DEF BlockGiven, BlockBitmap
<1>3. ASSUME inodeCache' = [KeepInode({g}) EXCEPT ![g] = @ \ {i}]
      PROVE  InodeGiven(g, i)
  <2>1. DOMAIN inodeCache' = DOMAIN inodeCache \cup {g}
        /\ \A h \in DOMAIN inodeCache' :
             inodeCache'[h] = IF h = g THEN InodeBitmap(g) \ {i} ELSE InodeBitmap(h)
    BY <1>1, <1>3 DEF KeepInode
  <2> QED  BY <2>1 DEF InodeGiven, InodeBitmap
<1> QED  BY <1>2, <1>3

\* A flush changes no bitmap as calls see it: it writes what the cache holds.
LEMMA FlushChangesNoBitmap ==
    ASSUME TypeOK, NEW g \in Groups,
           \/ FlushBlockBitmap(g) \/ FlushInodeBitmap(g) \/ FlushDesc(g)
           \/ BlockWriteUnanswered(g) \/ InodeWriteUnanswered(g)
    PROVE  BlockBitmapSame /\ InodeBitmapSame
<1> USE DEF cacheVars
<1>1. CASE FlushBlockBitmap(g)
  <2>1. g \in DOMAIN blockCache  BY <1>1 DEF FlushBlockBitmap, NextGroup, TypeOK
  <2> QED
    BY <1>1, <2>1 DEF FlushBlockBitmap, BlockBitmapSame, InodeBitmapSame, BlockBitmap,
                      InodeBitmap, TypeOK, DiskType
<1>2. CASE FlushInodeBitmap(g)
  <2>1. g \in DOMAIN inodeCache  BY <1>2 DEF FlushInodeBitmap, NextGroup, TypeOK
  <2> QED
    BY <1>2, <2>1 DEF FlushInodeBitmap, BlockBitmapSame, InodeBitmapSame, BlockBitmap,
                      InodeBitmap, TypeOK, DiskType
<1>3. CASE FlushDesc(g)
  BY <1>3 DEF FlushDesc, BlockBitmapSame, InodeBitmapSame, BlockBitmap, InodeBitmap,
              TypeOK, DiskType
<1>4. CASE BlockWriteUnanswered(g)
  <2>1. g \in DOMAIN blockCache  BY <1>4 DEF BlockWriteUnanswered, NextGroup, TypeOK
  <2> QED
    BY <1>4, <2>1 DEF BlockWriteUnanswered, Abandon, BlockBitmapSame, InodeBitmapSame,
                      BlockBitmap, InodeBitmap, TypeOK, DiskType
<1>5. CASE InodeWriteUnanswered(g)
  <2>1. g \in DOMAIN inodeCache  BY <1>5 DEF InodeWriteUnanswered, NextGroup, TypeOK
  <2> QED
    BY <1>5, <2>1 DEF InodeWriteUnanswered, Abandon, BlockBitmapSame, InodeBitmapSame,
                      BlockBitmap, InodeBitmap, TypeOK, DiskType
<1> QED  BY <1>1, <1>2, <1>3, <1>4, <1>5

\* An allocation that finds nothing has searched every block of every group.
LEMMA NoSpaceMeansFull ==
    ASSUME TypeOK, CountersInStep, NEW goal \in Goals, AllocBlockFails(goal)
    PROVE  sb.freeBlocks = 0
<1>1. goal \in Nat /\ StartGroup(goal) \in Groups
  BY StartIsGroup, GoalsAssumption
<1>2. ASSUME NEW g \in Groups  PROVE  FreeBlockBits(g) = {}
  <2>1. PICK step \in 0 .. GroupCount - 1 : GroupAt(StartGroup(goal), step) = g
    BY <1>1, StepsReachEveryGroup
  <2>2. FreeIn(goal, step) = {}  BY DEF AllocBlockFails
  <2>3. step \in Nat  BY GeometryAssumption
  <2> QED  BY <1>1, <2>1, <2>2, <2>3, SearchIsComplete DEF FreeIn, FreeBlockBits
<1>3. AllFreeBlocks = {}  BY <1>2 DEF AllFreeBlocks
<1> QED  BY <1>3, FS_EmptySet DEF CountersInStep

(***************************************************************************)
(* The inductive invariant.                                                *)
(***************************************************************************)

\* The fields of a freshly made descriptor.
LEMMA FreshDescFields ==
    ASSUME NEW g
    PROVE  /\ FreshDesc(g).freeBlocks = Cardinality(BlockBits(g) \ Metadata[g])
           /\ FreshDesc(g).freeInodes = Cardinality(InodeBits \ Reserved(g))
           /\ FreshDesc(g).usedDirs = Cardinality(RootBit(g))
           /\ FreshDesc(g).itableUnused = Cardinality(InodeBits \ Reserved(g))
           /\ FreshDesc(g).inodeUninit => Reserved(g) = {}
           /\ FreshDesc(g).blockCsum = Metadata[g]
           /\ FreshDesc(g).inodeCsum = Reserved(g)
BY Zenon DEF FreshDesc

\* The freshly made volume satisfies the invariant.
LEMMA InvInit == Init => Inv
<1> SUFFICES ASSUME Init PROVE Inv  OBVIOUS
<1>1. TypeOK  BY TypeInit
<1>2. /\ \A g \in Groups : BlockBitmap(g) = Metadata[g] /\ InodeBitmap(g) = Reserved(g)
      /\ disk.block = Metadata /\ disk.inode = [g \in Groups |-> Reserved(g)]
      /\ \A g \in Groups : desc[g] = FreshDesc(g)
  BY DEF Init, BlockBitmap, InodeBitmap
<1>3. CountersInStep
  <2>1. \A g \in Groups : /\ FreeBlockBits(g) = BlockBits(g) \ Metadata[g]
                          /\ FreeInodeBits(g) = InodeBits \ Reserved(g)
    BY <1>2 DEF FreeBlockBits, FreeInodeBits
  <2>2. \A g \in Groups : DirsIn(g) = RootBit(g)  BY DEF DirsIn, Init, RootBit
  <2>3. /\ AllFreeBlocks = UNION {{g} \X (BlockBits(g) \ Metadata[g]) : g \in Groups}
        /\ AllFreeInodes = UNION {{g} \X (InodeBits \ Reserved(g)) : g \in Groups}
    BY <2>1 DEF AllFreeBlocks, AllFreeInodes
  <2>4. \A g \in Groups :
          /\ desc[g].freeBlocks = Cardinality(BlockBits(g) \ Metadata[g])
          /\ desc[g].freeInodes = Cardinality(InodeBits \ Reserved(g))
          /\ desc[g].usedDirs = Cardinality(RootBit(g))
    BY <1>2, FreshDescFields
  <2> QED  BY <2>1, <2>2, <2>3, <2>4 DEF CountersInStep, Init
<1>4. DirsAreInUse  BY <1>2, GeometryAssumption DEF DirsAreInUse, Init, Reserved
<1>5. UnusedTailIsUnused
  <2> SUFFICES ASSUME NEW g \in Groups
               PROVE  /\ \A i \in Reserved(g) : i < InodesPerGroup - desc[g].itableUnused
                      /\ desc[g].inodeUninit => Reserved(g) = {}
    BY <1>2 DEF UnusedTailIsUnused
  <2>1. desc[g].itableUnused = Cardinality(InodeBits \ Reserved(g))
        /\ (desc[g].inodeUninit => Reserved(g) = {})
    BY <1>2, FreshDescFields
  <2>2. ASSUME NEW i \in Reserved(g)
        PROVE  i < InodesPerGroup - Cardinality(InodeBits \ Reserved(g))
    <3>1. i \in InodeBits /\ g * InodesPerGroup + i + 1 < FirstIno
      BY DEF Reserved, InodeNumber
    <3>2. g \in Nat /\ i \in Nat  BY <3>1, GeometryFacts DEF InodeBits
    <3>3. \A j \in 0 .. i : j \in Reserved(g)
      <4>1. g * InodesPerGroup \in Nat  BY <3>2, GeometryAssumption
      <4> QED  BY <3>1, <3>2, <4>1, GeometryAssumption DEF Reserved, InodeNumber, InodeBits
    <3>4. (InodeBits \ Reserved(g)) \in SUBSET (i + 1 .. InodesPerGroup - 1)
      BY <3>2, <3>3, GeometryAssumption DEF InodeBits
    <3>5. IsFiniteSet(i + 1 .. InodesPerGroup - 1)
          /\ Cardinality(i + 1 .. InodesPerGroup - 1) = InodesPerGroup - i - 1
      <4>1. i + 1 \in Int /\ InodesPerGroup - 1 \in Int /\ i <= InodesPerGroup - 1
        BY <3>1, <3>2, GeometryAssumption DEF InodeBits
      <4>2. Cardinality(i + 1 .. InodesPerGroup - 1) =
              IF i + 1 > InodesPerGroup - 1 THEN 0 ELSE InodesPerGroup - 1 - (i + 1) + 1
        BY <4>1, FS_Interval
      <4>3. IsFiniteSet(i + 1 .. InodesPerGroup - 1)  BY <4>1, FS_Interval
      <4> QED  BY <3>2, <4>1, <4>2, <4>3, GeometryAssumption
    <3>6. Cardinality(InodeBits \ Reserved(g)) <= InodesPerGroup - i - 1
          /\ Cardinality(InodeBits \ Reserved(g)) \in Nat
      <4>1. IsFiniteSet(InodeBits \ Reserved(g))
            /\ Cardinality(InodeBits \ Reserved(g)) <= Cardinality(i + 1 .. InodesPerGroup - 1)
        BY <3>4, <3>5, FS_Subset
      <4>2. Cardinality(InodeBits \ Reserved(g)) \in Nat
        BY <4>1, FS_CardinalityType
      <4> QED  BY <3>5, <4>1, <4>2
    <3>7. \A c \in Nat : c <= InodesPerGroup - i - 1 => i < InodesPerGroup - c
      BY <3>2, GeometryAssumption
    <3> QED  BY <3>6, <3>7
  <2> QED  BY <2>1, <2>2
<1>6. UninitGroupHasNoData  BY <1>2 DEF UninitGroupHasNoData
<1>7. ChangedIsDirty  BY <1>2 DEF ChangedIsDirty
<1>8. CleanIsStamped  BY <1>2, FreshDescFields DEF CleanIsStamped
<1>9. FlushProgress  BY DEF FlushProgress, Init
<1>10. NoSpaceOnlyWhenFull  BY DEF NoSpaceOnlyWhenFull, Init
<1> QED  BY <1>1, <1>3, <1>4, <1>5, <1>6, <1>7, <1>8, <1>9, <1>10 DEF Inv

\* A call that only reads bitmaps, or a drop, keeps the invariant's parts that
\* look at memory and device.
LEMMA QuietKeeps ==
    ASSUME Inv, BlockBitmapSame, InodeBitmapSame,
           UNCHANGED <<desc, sb, dirs, disk, dirtyBlock, dirtyInode>>
    PROVE  /\ CountersInStep' /\ DirsAreInUse' /\ UnusedTailIsUnused'
           /\ UninitGroupHasNoData' /\ ChangedIsDirty' /\ CleanIsStamped'
<1>1. CountersInStep'  BY QuietCounts DEF Inv
<1>2. DirsAreInUse'
  BY DEF Inv, DirsAreInUse, InodeBitmapSame, TypeOK
<1>3. UnusedTailIsUnused'
  BY DEF Inv, UnusedTailIsUnused, InodeBitmapSame
<1>4. UninitGroupHasNoData'
  BY DEF Inv, UninitGroupHasNoData, BlockBitmapSame
<1>5. ChangedIsDirty'
  BY DEF Inv, ChangedIsDirty, BlockBitmapSame, InodeBitmapSame
<1>6. CleanIsStamped'
  BY DEF Inv, CleanIsStamped
<1> QED  BY <1>1, <1>2, <1>3, <1>4, <1>5, <1>6

\* alloc_block and free_block keep the invariant.
LEMMA InvBlockCalls ==
    ASSUME Inv, TypeOK',
           \/ \E goal \in Goals : AllocBlock(goal) \/ AllocBlockFails(goal)
           \/ \E g \in Groups : \E i \in BlockBits(g) :
                  FreeBlock(g, i) \/ FreeBlockAgain(g, i)
    PROVE  Inv'
<1> USE DEF flushVars, cacheVars
<1>1. ASSUME NEW goal \in Goals, AllocBlock(goal)  PROVE Inv'
  <2>1. PICK g \in Groups : \E i \in FreeBlockBits(g) :
             /\ BlockTaken(g, i)
             /\ dirtyBlock' = dirtyBlock \cup {g}
             /\ desc' = [desc EXCEPT ![g] = TakeBlock(@)]
    BY <1>1, AllocBlockFinds DEF Inv
  <2>2. PICK i \in FreeBlockBits(g) : BlockTaken(g, i)  BY <2>1
  <2>3. /\ disk' = disk /\ dirs' = dirs /\ inodeCache' = inodeCache
        /\ dirtyInode' = dirtyInode /\ phase = "idle" /\ phase' = "idle"
        /\ result' = "ok" /\ sb' = [sb EXCEPT !.freeBlocks = Decrement(@)]
    BY <1>1 DEF AllocBlock, Idle
  <2>4. InodeBitmapSame  BY <2>3, KeepChangesNothing
  <2>5. \A h \in Groups :
          /\ desc'[h].blockUninit => h # g /\ desc[h].blockUninit
          /\ desc'[h].inodeUninit = desc[h].inodeUninit
          /\ desc'[h].itableUnused = desc[h].itableUnused
          /\ desc'[h].blockCsum = desc[h].blockCsum
          /\ desc'[h].inodeCsum = desc[h].inodeCsum
    BY <2>1 DEF Inv, TypeOK, DescType, TakeBlock
  <2>6. CountersInStep'  BY <2>1, <2>2, <2>3, <2>4, BlockTakenCounts DEF Inv
  <2>7. DirsAreInUse'  BY <2>3, <2>4 DEF Inv, DirsAreInUse, InodeBitmapSame, TypeOK
  <2>8. UnusedTailIsUnused'
    BY <2>4, <2>5 DEF Inv, UnusedTailIsUnused, InodeBitmapSame
  <2>9. UninitGroupHasNoData'
    BY <2>2, <2>5 DEF Inv, UninitGroupHasNoData, BlockTaken
  <2>10. ChangedIsDirty'
    BY <2>1, <2>2, <2>3, <2>4 DEF Inv, ChangedIsDirty, BlockTaken, InodeBitmapSame
  <2>11. CleanIsStamped'  BY <2>1, <2>3, <2>5 DEF Inv, CleanIsStamped
  <2>12. FlushProgress' /\ NoSpaceOnlyWhenFull'
    BY <2>3 DEF FlushProgress, NoSpaceOnlyWhenFull
  <2> QED  BY <2>6, <2>7, <2>8, <2>9, <2>10, <2>11, <2>12 DEF Inv
<1>2. ASSUME NEW goal \in Goals, AllocBlockFails(goal)  PROVE Inv'
  <2>1. /\ BlockBitmapSame /\ InodeBitmapSame
        /\ UNCHANGED <<desc, sb, dirs, disk, dirtyBlock, dirtyInode>>
        /\ phase' = "idle"
    BY <1>2, KeepChangesNothing DEF AllocBlockFails, Idle
  <2>2. NoSpaceOnlyWhenFull'
    BY <1>2, <2>1, NoSpaceMeansFull DEF NoSpaceOnlyWhenFull, Inv
  <2>3. FlushProgress'  BY <2>1 DEF FlushProgress
  <2> QED  BY <2>1, <2>2, <2>3, QuietKeeps DEF Inv
<1>3. ASSUME NEW g \in Groups, NEW i \in BlockBits(g), FreeBlock(g, i)  PROVE Inv'
  <2>1. /\ disk' = disk /\ dirs' = dirs /\ inodeCache' = inodeCache
        /\ dirtyInode' = dirtyInode /\ phase = "idle" /\ phase' = "idle"
        /\ result' = "ok" /\ dirtyBlock' = dirtyBlock \cup {g}
        /\ desc' = [desc EXCEPT ![g] = GiveBlock(@)]
        /\ sb' = [sb EXCEPT !.freeBlocks = @ + 1]
        /\ i \in BlockBitmap(g) /\ i \notin Metadata[g]
    BY <1>3 DEF FreeBlock, Idle, AlreadyFree
  <2>2. BlockGiven(g, i)  BY <1>3, <2>1, GivenBits DEF FreeBlock
  <2>3. InodeBitmapSame  BY <2>1, KeepChangesNothing
  <2>4. \A h \in Groups :
          /\ desc'[h].blockUninit = desc[h].blockUninit
          /\ desc'[h].inodeUninit = desc[h].inodeUninit
          /\ desc'[h].itableUnused = desc[h].itableUnused
          /\ desc'[h].blockCsum = desc[h].blockCsum
          /\ desc'[h].inodeCsum = desc[h].inodeCsum
    BY <2>1 DEF Inv, TypeOK, DescType, GiveBlock
  <2>5. CountersInStep'  BY <2>1, <2>2, <2>3, BlockGivenCounts DEF Inv
  <2>6. DirsAreInUse'  BY <2>1, <2>3 DEF Inv, DirsAreInUse, InodeBitmapSame, TypeOK
  <2>7. UnusedTailIsUnused'
    BY <2>3, <2>4 DEF Inv, UnusedTailIsUnused, InodeBitmapSame
  <2>8. UninitGroupHasNoData'
    BY <2>1, <2>2, <2>4 DEF Inv, UninitGroupHasNoData, BlockGiven
  <2>9. ChangedIsDirty'
    BY <2>1, <2>2, <2>3 DEF Inv, ChangedIsDirty, BlockGiven, InodeBitmapSame
  <2>10. CleanIsStamped'  BY <2>1, <2>4 DEF Inv, CleanIsStamped
  <2>11. FlushProgress' /\ NoSpaceOnlyWhenFull'
    BY <2>1 DEF FlushProgress, NoSpaceOnlyWhenFull
  <2> QED  BY <2>5, <2>6, <2>7, <2>8, <2>9, <2>10, <2>11 DEF Inv
<1>4. ASSUME NEW g \in Groups, NEW i \in BlockBits(g), FreeBlockAgain(g, i)
      PROVE Inv'
  <2>1. /\ BlockBitmapSame /\ InodeBitmapSame
        /\ UNCHANGED <<desc, sb, dirs, disk, dirtyBlock, dirtyInode>>
        /\ phase' = "idle" /\ result' = "ok"
    BY <1>4, KeepChangesNothing DEF FreeBlockAgain, Idle
  <2> QED  BY <2>1, QuietKeeps DEF Inv, FlushProgress, NoSpaceOnlyWhenFull
<1> QED  BY <1>1, <1>2, <1>3, <1>4

\* alloc_inode and free_inode keep the invariant.
LEMMA InvInodeCalls ==
    ASSUME Inv, TypeOK',
           \/ \E near \in 1 .. GroupCount * InodesPerGroup :
                 \/ \E isDir \in BOOLEAN : AllocInode(near, isDir)
                 \/ AllocInodeFails(near)
           \/ \E g \in Groups, i \in InodeBits, wasDir \in BOOLEAN :
                 FreeInode(g, i, wasDir)
    PROVE  Inv'
<1> USE DEF flushVars, cacheVars
<1>1. ASSUME NEW near \in 1 .. GroupCount * InodesPerGroup, NEW isDir \in BOOLEAN,
             AllocInode(near, isDir)
      PROVE Inv'
  <2>0. near \in Nat  BY GeometryAssumption
  <2>1. PICK g \in Groups : \E i \in FreeInodeBits(g) \ Reserved(g) :
             /\ InodeTaken(g, i)
             /\ dirtyInode' = dirtyInode \cup {g}
             /\ desc' = [desc EXCEPT ![g] = TakeInode(@, i, isDir)]
             /\ dirs' = IF isDir THEN dirs \cup {<<g, i>>} ELSE dirs
    BY <1>1, <2>0, AllocInodeFinds, StartInodeIsGroup DEF Inv
  <2>2. PICK i \in FreeInodeBits(g) :
             /\ InodeTaken(g, i)
             /\ desc' = [desc EXCEPT ![g] = TakeInode(@, i, isDir)]
             /\ dirs' = IF isDir THEN dirs \cup {<<g, i>>} ELSE dirs
    BY <2>1
  <2>3. /\ disk' = disk /\ blockCache' = blockCache
        /\ dirtyBlock' = dirtyBlock /\ phase = "idle" /\ phase' = "idle"
        /\ result' = "ok" /\ sb' = [sb EXCEPT !.freeInodes = Decrement(@)]
    BY <1>1 DEF AllocInode, Idle
  <2>4. BlockBitmapSame  BY <2>3, KeepChangesNothing
  <2>5. i \in InodeBits /\ <<g, i>> \notin dirs
    BY DEF FreeInodeBits, Inv, DirsAreInUse
  <2>6. \A h \in Groups :
          /\ desc'[h].blockUninit = desc[h].blockUninit
          /\ desc'[h].inodeUninit => h # g /\ desc[h].inodeUninit
          /\ desc'[h].itableUnused = IF h = g THEN ShrinkTail(desc[g].itableUnused, i)
                                              ELSE desc[h].itableUnused
          /\ desc'[h].blockCsum = desc[h].blockCsum
          /\ desc'[h].inodeCsum = desc[h].inodeCsum
    BY <2>2 DEF Inv, TypeOK, DescType, TakeInode
  <2>7. CountersInStep'  BY <2>2, <2>3, <2>4, <2>5, InodeTakenCounts DEF Inv
  <2>8. DirsAreInUse'
    BY <2>2, <2>5 DEF Inv, DirsAreInUse, InodeTaken, TypeOK
  <2>9. UnusedTailIsUnused'
    <3>1. ASSUME NEW h \in Groups, NEW j \in InodeBitmap(h)'
          PROVE  j < InodesPerGroup - desc'[h].itableUnused
      <4>1. CASE h # g
        BY <2>2, <2>6, <3>1, <4>1 DEF Inv, UnusedTailIsUnused, InodeTaken
      <4>2. CASE h = g /\ j # i
        <5>1. j \in InodeBitmap(g)  BY <2>2, <3>1, <4>2 DEF InodeTaken
        <5>2. j < InodesPerGroup - desc[g].itableUnused
          BY <5>1 DEF Inv, UnusedTailIsUnused
        <5>3. desc[g].itableUnused \in 0 .. InodesPerGroup
          BY DEF Inv, TypeOK, DescType
        <5>4. j \in Nat  BY <5>1, BitmapType DEF Inv, InodeBits
        <5> QED
          BY <2>5, <2>6, <4>2, <5>2, <5>3, <5>4, GeometryAssumption
          DEF ShrinkTail, InodeBits
      <4>3. CASE h = g /\ j = i
        <5>1. desc[g].itableUnused \in 0 .. InodesPerGroup
          BY DEF Inv, TypeOK, DescType
        <5> QED
          BY <2>5, <2>6, <4>3, <5>1, GeometryAssumption DEF ShrinkTail, InodeBits
      <4> QED  BY <4>1, <4>2, <4>3
    <3>2. ASSUME NEW h \in Groups, desc'[h].inodeUninit
          PROVE  InodeBitmap(h)' = {}
      BY <2>2, <2>6, <3>2 DEF Inv, UnusedTailIsUnused, InodeTaken
    <3> QED  BY <3>1, <3>2 DEF UnusedTailIsUnused
  <2>10. UninitGroupHasNoData'
    BY <2>4, <2>6 DEF Inv, UninitGroupHasNoData, BlockBitmapSame
  <2>11. ChangedIsDirty'
    BY <2>1, <2>2, <2>3, <2>4 DEF Inv, ChangedIsDirty, InodeTaken, BlockBitmapSame
  <2>12. CleanIsStamped'  BY <2>1, <2>3, <2>6 DEF Inv, CleanIsStamped
  <2>13. FlushProgress' /\ NoSpaceOnlyWhenFull'
    BY <2>3 DEF FlushProgress, NoSpaceOnlyWhenFull
  <2> QED  BY <2>7, <2>8, <2>9, <2>10, <2>11, <2>12, <2>13 DEF Inv
<1>2. ASSUME NEW near \in 1 .. GroupCount * InodesPerGroup, AllocInodeFails(near)
      PROVE Inv'
  <2>1. /\ BlockBitmapSame /\ InodeBitmapSame
        /\ UNCHANGED <<desc, sb, dirs, disk, dirtyBlock, dirtyInode>>
        /\ phase' = "idle" /\ result' = "NoInodes"
    BY <1>2, KeepChangesNothing DEF AllocInodeFails, Idle
  <2> QED  BY <2>1, QuietKeeps DEF Inv, FlushProgress, NoSpaceOnlyWhenFull
<1>3. ASSUME NEW g \in Groups, NEW i \in InodeBits, NEW wasDir \in BOOLEAN,
             FreeInode(g, i, wasDir)
      PROVE Inv'
  <2>1. /\ disk' = disk /\ blockCache' = blockCache /\ dirs' = dirs \ {<<g, i>>}
        /\ dirtyBlock' = dirtyBlock /\ phase = "idle" /\ phase' = "idle"
        /\ result' = "ok" /\ dirtyInode' = dirtyInode \cup {g}
        /\ desc' = [desc EXCEPT ![g] = GiveInode(@, wasDir)]
        /\ sb' = [sb EXCEPT !.freeInodes = @ + 1]
        /\ i \in InodeBitmap(g)
    BY <1>3 DEF FreeInode, Idle
  <2>2. InodeGiven(g, i)  BY <1>3, <2>1, GivenBits DEF FreeInode
  <2>3. BlockBitmapSame  BY <2>1, KeepChangesNothing
  <2>4. \A h \in Groups :
          /\ desc'[h].blockUninit = desc[h].blockUninit
          /\ desc'[h].inodeUninit = desc[h].inodeUninit
          /\ desc'[h].itableUnused = desc[h].itableUnused
          /\ desc'[h].blockCsum = desc[h].blockCsum
          /\ desc'[h].inodeCsum = desc[h].inodeCsum
    BY <2>1 DEF Inv, TypeOK, DescType, GiveInode
  <2>5. CountersInStep'
    <3>1. wasDir = (<<g, i>> \in dirs)  BY <1>3 DEF FreeInode
    <3> QED  BY <2>1, <2>2, <2>3, <3>1, InodeGivenCounts DEF Inv
  <2>6. DirsAreInUse'
    BY <2>1, <2>2 DEF Inv, DirsAreInUse, InodeGiven, TypeOK
  <2>7. UnusedTailIsUnused'
    BY <2>2, <2>4 DEF Inv, UnusedTailIsUnused, InodeGiven
  <2>8. UninitGroupHasNoData'
    BY <2>3, <2>4 DEF Inv, UninitGroupHasNoData, BlockBitmapSame
  <2>9. ChangedIsDirty'
    BY <2>1, <2>2, <2>3 DEF Inv, ChangedIsDirty, InodeGiven, BlockBitmapSame
  <2>10. CleanIsStamped'  BY <2>1, <2>4 DEF Inv, CleanIsStamped
  <2>11. FlushProgress' /\ NoSpaceOnlyWhenFull'
    BY <2>1 DEF FlushProgress, NoSpaceOnlyWhenFull
  <2> QED  BY <2>5, <2>6, <2>7, <2>8, <2>9, <2>10, <2>11 DEF Inv
<1> QED  BY <1>1, <1>2, <1>3

\* The steps of a flush keep the invariant.
LEMMA InvFlush ==
    ASSUME Inv, TypeOK',
           \/ FlushBegin \/ FlushStep \/ FlushFails
           \/ \E g \in Groups : BlockWriteUnanswered(g) \/ InodeWriteUnanswered(g)
    PROVE  Inv'
<1> USE DEF flushVars, cacheVars
<1>1. CASE FlushBegin
  <2>1. /\ BlockBitmapSame /\ InodeBitmapSame
        /\ UNCHANGED <<desc, sb, dirs, disk, dirtyBlock, dirtyInode>>
        /\ phase' = "blocks" /\ todo' = dirtyBlock /\ result' = "ok"
    BY <1>1, KeepChangesNothing DEF FlushBegin
  <2>2. FlushProgress'
    BY <2>1 DEF FlushProgress, BlocksWritten
  <2> QED  BY <2>1, <2>2, QuietKeeps DEF Inv, NoSpaceOnlyWhenFull
<1>2. ASSUME NEW g \in Groups, FlushBlockBitmap(g)  PROVE Inv'
  <2>1. /\ phase = "blocks" /\ phase' = "blocks" /\ todo' = todo \ {g} /\ g \in todo
        /\ UNCHANGED <<sb, dirs, dirtyBlock, dirtyInode, blockCache, inodeCache, result>>
        /\ desc' = [desc EXCEPT ![g] = StampBlock(@, blockCache[g])]
        /\ disk' = [disk EXCEPT !.block = [@ EXCEPT ![g] = blockCache[g]]]
    BY <1>2 DEF FlushBlockBitmap, NextGroup
  <2>2. g \in DOMAIN blockCache /\ BlockBitmap(g) = blockCache[g] /\ g \in dirtyBlock
    BY <2>1 DEF Inv, TypeOK, BlockBitmap
  <2>3. BlockBitmapSame /\ InodeBitmapSame
    BY <1>2, FlushChangesNoBitmap DEF Inv
  <2>4. \A h \in Groups :
          /\ desc'[h].freeBlocks = desc[h].freeBlocks
          /\ desc'[h].freeInodes = desc[h].freeInodes
          /\ desc'[h].usedDirs = desc[h].usedDirs
          /\ desc'[h].itableUnused = desc[h].itableUnused
          /\ desc'[h].blockUninit = desc[h].blockUninit
          /\ desc'[h].inodeUninit = desc[h].inodeUninit
          /\ desc'[h].inodeCsum = desc[h].inodeCsum
          /\ desc'[h].blockCsum = IF h = g THEN blockCache[g] ELSE desc[h].blockCsum
    BY <2>1 DEF Inv, TypeOK, DescType, StampBlock
  <2>5. \A h \in Groups :
          /\ disk'.block[h] = IF h = g THEN blockCache[g] ELSE disk.block[h]
          /\ disk'.inode[h] = disk.inode[h]
    BY <2>1 DEF Inv, TypeOK, DiskType
  <2>6. CountersInStep'  BY <2>1, <2>3, <2>4, QuietCounts DEF Inv
  <2>7. DirsAreInUse'  BY <2>1, <2>3 DEF Inv, DirsAreInUse, InodeBitmapSame, TypeOK
  <2>8. UnusedTailIsUnused'  BY <2>3, <2>4 DEF Inv, UnusedTailIsUnused, InodeBitmapSame
  <2>9. UninitGroupHasNoData'
    BY <2>3, <2>4 DEF Inv, UninitGroupHasNoData, BlockBitmapSame
  <2>10. ChangedIsDirty'
    BY <2>1, <2>2, <2>3, <2>5
    DEF Inv, ChangedIsDirty, BlockBitmapSame, InodeBitmapSame
  <2>11. CleanIsStamped'  BY <2>1, <2>2, <2>4, <2>5 DEF Inv, CleanIsStamped
  <2>12. FlushProgress'
    <3>1. dirtyBlock \subseteq Groups  BY DEF Inv, TypeOK
    <3>2. BlocksWritten(dirtyBlock \ todo)  BY <2>1 DEF Inv, FlushProgress
    <3>3. BlocksWritten(dirtyBlock \ todo)'
      BY <2>1, <2>2, <2>3, <2>4, <2>5, <3>1, <3>2 DEF BlocksWritten, BlockBitmapSame
    <3> QED  BY <2>1, <3>3 DEF FlushProgress
  <2>13. NoSpaceOnlyWhenFull'  BY <2>1 DEF Inv, NoSpaceOnlyWhenFull
  <2> QED  BY <2>6, <2>7, <2>8, <2>9, <2>10, <2>11, <2>12, <2>13 DEF Inv
<1>3. ASSUME NEW g \in Groups, FlushInodeBitmap(g)  PROVE Inv'
  <2>1. /\ phase = "inodes" /\ phase' = "inodes" /\ todo' = todo \ {g} /\ g \in todo
        /\ UNCHANGED <<sb, dirs, dirtyBlock, dirtyInode, blockCache, inodeCache, result>>
        /\ desc' = [desc EXCEPT ![g] = StampInode(@, inodeCache[g])]
        /\ disk' = [disk EXCEPT !.inode = [@ EXCEPT ![g] = inodeCache[g]]]
    BY <1>3 DEF FlushInodeBitmap, NextGroup
  <2>2. g \in DOMAIN inodeCache /\ InodeBitmap(g) = inodeCache[g] /\ g \in dirtyInode
    BY <2>1 DEF Inv, TypeOK, InodeBitmap
  <2>3. BlockBitmapSame /\ InodeBitmapSame
    BY <1>3, FlushChangesNoBitmap DEF Inv
  <2>4. \A h \in Groups :
          /\ desc'[h].freeBlocks = desc[h].freeBlocks
          /\ desc'[h].freeInodes = desc[h].freeInodes
          /\ desc'[h].usedDirs = desc[h].usedDirs
          /\ desc'[h].itableUnused = desc[h].itableUnused
          /\ desc'[h].blockUninit = desc[h].blockUninit
          /\ desc'[h].inodeUninit = desc[h].inodeUninit
          /\ desc'[h].blockCsum = desc[h].blockCsum
          /\ desc'[h].inodeCsum = IF h = g THEN inodeCache[g] ELSE desc[h].inodeCsum
    BY <2>1 DEF Inv, TypeOK, DescType, StampInode
  <2>5. \A h \in Groups :
          /\ disk'.inode[h] = IF h = g THEN inodeCache[g] ELSE disk.inode[h]
          /\ disk'.block[h] = disk.block[h]
    BY <2>1 DEF Inv, TypeOK, DiskType
  <2>6. CountersInStep'  BY <2>1, <2>3, <2>4, QuietCounts DEF Inv
  <2>7. DirsAreInUse'  BY <2>1, <2>3 DEF Inv, DirsAreInUse, InodeBitmapSame, TypeOK
  <2>8. UnusedTailIsUnused'  BY <2>3, <2>4 DEF Inv, UnusedTailIsUnused, InodeBitmapSame
  <2>9. UninitGroupHasNoData'
    BY <2>3, <2>4 DEF Inv, UninitGroupHasNoData, BlockBitmapSame
  <2>10. ChangedIsDirty'
    BY <2>1, <2>2, <2>3, <2>5
    DEF Inv, ChangedIsDirty, BlockBitmapSame, InodeBitmapSame
  <2>11. CleanIsStamped'  BY <2>1, <2>2, <2>4, <2>5 DEF Inv, CleanIsStamped
  <2>12. FlushProgress'
    <3>1. dirtyBlock \subseteq Groups /\ dirtyInode \subseteq Groups
      BY DEF Inv, TypeOK
    <3>2. BlocksWritten(dirtyBlock) /\ InodesWritten(dirtyInode \ todo)
      BY <2>1 DEF Inv, FlushProgress
    <3>3. BlocksWritten(dirtyBlock)'
      BY <2>1, <2>3, <2>4, <2>5, <3>1, <3>2 DEF BlocksWritten, BlockBitmapSame
    <3>4. InodesWritten(dirtyInode \ todo)'
      BY <2>1, <2>2, <2>3, <2>4, <2>5, <3>1, <3>2 DEF InodesWritten, InodeBitmapSame
    <3> QED  BY <2>1, <3>3, <3>4 DEF FlushProgress
  <2>13. NoSpaceOnlyWhenFull'  BY <2>1 DEF Inv, NoSpaceOnlyWhenFull
  <2> QED  BY <2>6, <2>7, <2>8, <2>9, <2>10, <2>11, <2>12, <2>13 DEF Inv
<1>4. CASE FlushBlocksDone
  <2>1. /\ BlockBitmapSame /\ InodeBitmapSame
        /\ UNCHANGED <<desc, sb, dirs, disk, dirtyBlock, dirtyInode, result>>
        /\ phase = "blocks" /\ todo = {} /\ phase' = "inodes" /\ todo' = dirtyInode
    BY <1>4, KeepChangesNothing DEF FlushBlocksDone
  <2>2. BlocksWritten(dirtyBlock)  BY <2>1 DEF Inv, FlushProgress
  <2>3. BlocksWritten(dirtyBlock)'
    BY <2>1, <2>2 DEF BlocksWritten, BlockBitmapSame, Inv, TypeOK
  <2>4. FlushProgress'  BY <2>1, <2>3 DEF FlushProgress, InodesWritten
  <2> QED  BY <2>1, <2>4, QuietKeeps DEF Inv, NoSpaceOnlyWhenFull
<1>5. CASE FlushBitmapsDone
  <2>1. /\ BlockBitmapSame /\ InodeBitmapSame
        /\ UNCHANGED <<desc, sb, dirs, disk, result>>
        /\ phase = "inodes" /\ todo = {} /\ phase' = "descs" /\ todo' = Groups
        /\ dirtyBlock' = {} /\ dirtyInode' = {}
    BY <1>5, KeepChangesNothing DEF FlushBitmapsDone
  <2>2. BlocksWritten(dirtyBlock) /\ InodesWritten(dirtyInode)
    BY <2>1 DEF Inv, FlushProgress
  <2>3. CountersInStep'  BY <2>1, QuietCounts DEF Inv
  <2>4. DirsAreInUse'  BY <2>1 DEF Inv, DirsAreInUse, InodeBitmapSame, TypeOK
  <2>5. UnusedTailIsUnused'  BY <2>1 DEF Inv, UnusedTailIsUnused, InodeBitmapSame
  <2>6. UninitGroupHasNoData'  BY <2>1 DEF Inv, UninitGroupHasNoData, BlockBitmapSame
  <2>7. ChangedIsDirty'
    BY <2>1, <2>2 DEF Inv, ChangedIsDirty, BlocksWritten, InodesWritten,
                      BlockBitmapSame, InodeBitmapSame
  <2>8. CleanIsStamped'
    BY <2>1, <2>2 DEF Inv, CleanIsStamped, BlocksWritten, InodesWritten
  <2>9. FlushProgress' /\ NoSpaceOnlyWhenFull'
    BY <2>1 DEF FlushProgress, NoSpaceOnlyWhenFull, Inv
  <2> QED  BY <2>3, <2>4, <2>5, <2>6, <2>7, <2>8, <2>9 DEF Inv
<1>6. ASSUME NEW g \in Groups, FlushDesc(g)  PROVE Inv'
  <2>1. /\ phase = "descs" /\ phase' = "descs" /\ todo' = todo \ {g}
        /\ UNCHANGED <<desc, sb, dirs, dirtyBlock, dirtyInode, result>>
        /\ disk' = [disk EXCEPT !.desc = [@ EXCEPT ![g] = desc[g]]]
    BY <1>6 DEF FlushDesc
  <2>2. BlockBitmapSame /\ InodeBitmapSame
    BY <1>6, FlushChangesNoBitmap DEF Inv
  <2>3. disk'.block = disk.block /\ disk'.inode = disk.inode
        /\ \A h \in Groups : disk'.desc[h] = IF h = g THEN desc[g] ELSE disk.desc[h]
    BY <2>1 DEF Inv, TypeOK, DiskType
  <2>4. CountersInStep'  BY <2>1, <2>2, QuietCounts DEF Inv
  <2>5. DirsAreInUse'  BY <2>1, <2>2 DEF Inv, DirsAreInUse, InodeBitmapSame, TypeOK
  <2>6. UnusedTailIsUnused'
    BY <2>1, <2>2 DEF Inv, UnusedTailIsUnused, InodeBitmapSame
  <2>7. UninitGroupHasNoData'
    BY <2>1, <2>2 DEF Inv, UninitGroupHasNoData, BlockBitmapSame
  <2>8. ChangedIsDirty' /\ CleanIsStamped'
    BY <2>1, <2>2, <2>3
    DEF Inv, ChangedIsDirty, CleanIsStamped, BlockBitmapSame, InodeBitmapSame
  <2>9. FlushProgress' /\ NoSpaceOnlyWhenFull'
    BY <2>1, <2>3 DEF FlushProgress, NoSpaceOnlyWhenFull, Inv
  <2> QED  BY <2>4, <2>5, <2>6, <2>7, <2>8, <2>9 DEF Inv
<1>7. CASE FlushSuperblock
  <2>1. /\ phase = "descs" /\ phase' = "device" /\ todo = {}
        /\ UNCHANGED <<desc, sb, dirs, dirtyBlock, dirtyInode, result,
                       blockCache, inodeCache>>
        /\ disk' = [disk EXCEPT !.sb = sb]
    BY <1>7 DEF FlushSuperblock
  <2>2. disk'.block = disk.block /\ disk'.inode = disk.inode
        /\ disk'.desc = disk.desc /\ disk'.sb = sb
    BY <2>1 DEF Inv, TypeOK, DiskType
  <2>3. BlockBitmapSame /\ InodeBitmapSame
    BY <2>1, <2>2 DEF BlockBitmapSame, InodeBitmapSame, BlockBitmap, InodeBitmap
  <2>4. CountersInStep'  BY <2>1, <2>3, QuietCounts DEF Inv
  <2>5. DirsAreInUse'  BY <2>1, <2>3 DEF Inv, DirsAreInUse, InodeBitmapSame, TypeOK
  <2>6. UnusedTailIsUnused'
    BY <2>1, <2>3 DEF Inv, UnusedTailIsUnused, InodeBitmapSame
  <2>7. UninitGroupHasNoData'
    BY <2>1, <2>3 DEF Inv, UninitGroupHasNoData, BlockBitmapSame
  <2>8. ChangedIsDirty' /\ CleanIsStamped'
    BY <2>1, <2>2, <2>3
    DEF Inv, ChangedIsDirty, CleanIsStamped, BlockBitmapSame, InodeBitmapSame
  <2>9. disk.desc = desc
    <3>1. \A g \in Groups : disk.desc[g] = desc[g]
      BY <2>1 DEF Inv, FlushProgress
    <3>2. disk.desc \in [Groups -> DescType] /\ desc \in [Groups -> DescType]
      BY DEF Inv, TypeOK, DiskType
    <3> QED  BY <3>1, <3>2
  <2>10. FlushProgress' /\ NoSpaceOnlyWhenFull'
    BY <2>1, <2>2, <2>9 DEF FlushProgress, NoSpaceOnlyWhenFull, Inv
  <2> QED  BY <2>4, <2>5, <2>6, <2>7, <2>8, <2>10 DEF Inv
<1>8. CASE FlushDevice \/ FlushFails
  <2>1. /\ BlockBitmapSame /\ InodeBitmapSame
        /\ UNCHANGED <<desc, sb, dirs, disk, dirtyBlock, dirtyInode, result>>
        /\ phase' = "idle"
    BY <1>8, KeepChangesNothing DEF FlushDevice, FlushFails, Abandon, DirtyAfterFailure
  <2> QED  BY <2>1, QuietKeeps DEF Inv, FlushProgress, NoSpaceOnlyWhenFull
<1>9. ASSUME NEW g \in Groups, BlockWriteUnanswered(g) \/ InodeWriteUnanswered(g)
      PROVE  Inv'
  <2>1. UNCHANGED <<desc, sb, dirs, dirtyBlock, dirtyInode, result>> /\ phase' = "idle"
    BY <1>9 DEF BlockWriteUnanswered, InodeWriteUnanswered, Abandon, DirtyAfterFailure
  <2>2. BlockBitmapSame /\ InodeBitmapSame
    BY <1>9, FlushChangesNoBitmap DEF Inv
  <2>3. \A h \in Groups : /\ h \notin dirtyBlock => disk'.block[h] = disk.block[h]
                          /\ h \notin dirtyInode => disk'.inode[h] = disk.inode[h]
    <3>1. CASE BlockWriteUnanswered(g)
      <4>1. g \in dirtyBlock
        BY <3>1 DEF BlockWriteUnanswered, NextGroup, Inv, TypeOK
      <4> QED  BY <3>1, <4>1 DEF BlockWriteUnanswered, Inv, TypeOK, DiskType
    <3>2. CASE InodeWriteUnanswered(g)
      <4>1. g \in dirtyInode
        BY <3>2 DEF InodeWriteUnanswered, NextGroup, Inv, TypeOK
      <4> QED  BY <3>2, <4>1 DEF InodeWriteUnanswered, Inv, TypeOK, DiskType
    <3> QED  BY <1>9, <3>1, <3>2
  <2>4. CountersInStep'  BY <2>1, <2>2, QuietCounts DEF Inv
  <2>5. DirsAreInUse'  BY <2>1, <2>2 DEF Inv, DirsAreInUse, InodeBitmapSame, TypeOK
  <2>6. UnusedTailIsUnused'
    BY <2>1, <2>2 DEF Inv, UnusedTailIsUnused, InodeBitmapSame
  <2>7. UninitGroupHasNoData'
    BY <2>1, <2>2 DEF Inv, UninitGroupHasNoData, BlockBitmapSame
  <2>8. ChangedIsDirty'
    BY <2>1, <2>2, <2>3 DEF Inv, ChangedIsDirty, BlockBitmapSame, InodeBitmapSame
  <2>9. CleanIsStamped'  BY <2>1, <2>3 DEF Inv, CleanIsStamped
  <2>10. FlushProgress' /\ NoSpaceOnlyWhenFull'
    BY <2>1 DEF FlushProgress, NoSpaceOnlyWhenFull, Inv
  <2> QED  BY <2>4, <2>5, <2>6, <2>7, <2>8, <2>9, <2>10 DEF Inv
<1> QED
  BY <1>1, <1>2, <1>3, <1>4, <1>5, <1>6, <1>7, <1>8, <1>9 DEF FlushStep

\* Dropping a Volume, and opening the next on what was saved, keep it too.
LEMMA InvDropOpen ==
    ASSUME Inv, TypeOK', Drop \/ Open
    PROVE  Inv'
<1> USE DEF flushVars, cacheVars
<1>1. CASE Drop
  <2>1. /\ BlockBitmapSame /\ InodeBitmapSame
        /\ UNCHANGED <<desc, sb, dirs, disk, dirtyBlock, dirtyInode, result>>
        /\ phase' = "closed"
    BY <1>1, KeepChangesNothing DEF Drop
  <2> QED  BY <2>1, QuietKeeps DEF Inv, FlushProgress, NoSpaceOnlyWhenFull
<1>2. CASE Open
  <2>1. /\ Saved /\ UNCHANGED <<disk, dirs>>
        /\ DOMAIN blockCache' = {} /\ DOMAIN inodeCache' = {}
        /\ dirtyBlock' = {} /\ dirtyInode' = {}
        /\ desc' = disk.desc /\ sb' = disk.sb /\ phase' = "idle" /\ result' = "ok"
    BY <1>2 DEF Open
  <2>2. BlockBitmapSame /\ InodeBitmapSame /\ desc' = desc /\ sb' = sb
    BY <2>1 DEF BlockBitmapSame, InodeBitmapSame, BlockBitmap, InodeBitmap, Saved
  <2>3. \A g \in Groups : desc[g].blockCsum = disk.block[g]
                          /\ desc[g].inodeCsum = disk.inode[g]
    BY <2>1 DEF Saved
  <2>4. CountersInStep'  BY <2>1, <2>2, QuietCounts DEF Inv
  <2>5. DirsAreInUse'  BY <2>1, <2>2 DEF Inv, DirsAreInUse, InodeBitmapSame, TypeOK
  <2>6. UnusedTailIsUnused'
    BY <2>2 DEF Inv, UnusedTailIsUnused, InodeBitmapSame
  <2>7. UninitGroupHasNoData'
    BY <2>2 DEF Inv, UninitGroupHasNoData, BlockBitmapSame
  <2>8. ChangedIsDirty' /\ CleanIsStamped'
    BY <2>1, <2>2, <2>3
    DEF ChangedIsDirty, CleanIsStamped, BlockBitmapSame, InodeBitmapSame, Saved
  <2>9. FlushProgress' /\ NoSpaceOnlyWhenFull'
    BY <2>1 DEF FlushProgress, NoSpaceOnlyWhenFull
  <2> QED  BY <2>4, <2>5, <2>6, <2>7, <2>8, <2>9 DEF Inv
<1> QED  BY <1>1, <1>2

\* Every step of the specification keeps the invariant.
LEMMA InvNext ==
    ASSUME Inv, [Next]_vars
    PROVE  Inv'
<1>0. TypeOK'  BY TypeNext DEF Inv
<1>1. CASE UNCHANGED vars
  <2>1. /\ BlockBitmapSame /\ InodeBitmapSame
        /\ UNCHANGED <<desc, sb, dirs, disk, dirtyBlock, dirtyInode, result,
                       phase, todo>>
    BY <1>1, KeepChangesNothing DEF vars, cacheVars, flushVars
  <2>2. FlushProgress'
    <3>1. dirtyBlock \subseteq Groups /\ dirtyInode \subseteq Groups
      BY DEF Inv, TypeOK
    <3> QED
      BY <2>1, <3>1 DEF Inv, FlushProgress, BlocksWritten, InodesWritten,
                        BlockBitmapSame, InodeBitmapSame
  <2> QED  BY <1>0, <2>1, <2>2, QuietKeeps DEF Inv, NoSpaceOnlyWhenFull
<1>2. CASE Next
  BY <1>0, <1>2, InvBlockCalls, InvInodeCalls, InvFlush, InvDropOpen DEF Next
<1> QED  BY <1>1, <1>2

-----------------------------------------------------------------------------
\* A search that meets a free goal meets it first, and takes it.
LEMMA FreeGoalIsTaken ==
    ASSUME NEW goal \in Goals, AllocBlock(goal),
           goal >= FirstDataBlock, goal < BlocksCount,
           GoalBit(goal) \in FreeBlockBits(GroupOfBlock(goal))
    PROVE  GoalBit(goal) \in blockCache'[GroupOfBlock(goal)]
<1> DEFINE h    == GroupOfBlock(goal)
           from == GoalBit(goal)
<1>1. goal \in Nat /\ StartGroup(goal) = h /\ h \in Groups /\ h \in Nat
  BY StartIsGroup, GoalsAssumption, GeometryFacts DEF StartGroup
<1>2. GroupAt(h, 0) = h
  <2>1. \A n \in Nat, m \in Nat \ {0} : n < m => (n + 0) % m = n  BY SMT
  <2> QED  BY <1>1, <2>1, GeometryAssumption DEF GroupAt, Groups
<1>3. from \in 0 .. GroupBlockCount(h) - 1 /\ from \notin BlockBitmap(h)
  BY DEF FreeBlockBits, BlockBits
<1>4. SearchFrom(goal, 0, h) = from
  BY <1>1, <1>3, GeometryFacts DEF SearchFrom, GoalBit
<1>5. from \in FreeIn(goal, 0) /\ FreeIn(goal, 0) \subseteq Nat
  <2>1. FreeIn(goal, 0) = SearchedBits(from, GroupBlockCount(h)) \ BlockBitmap(h)
    BY <1>1, <1>2, <1>4 DEF FreeIn
  <2> QED  BY <1>1, <1>3, <2>1, GeometryFacts DEF SearchedBits
<1>6. PICK step \in 0 .. GroupCount - 1 :
        LET g    == GroupAt(h, step)
            kept == KeepBlock(Searched(h, step))
        IN  /\ \A s \in 0 .. step - 1 : FreeIn(goal, s) = {}
            /\ \E i \in FreeIn(goal, step) :
                 /\ FirstFrom(FreeIn(goal, step), SearchFrom(goal, step, g), i)
                 /\ blockCache' = [kept EXCEPT ![g] = @ \cup {i}]
  BY <1>1 DEF AllocBlock
<1>7. step = 0
  <2>1. step # 0 => 0 \in 0 .. step - 1  BY GeometryAssumption
  <2> QED  BY <1>5, <1>6, <2>1
<1> DEFINE kept == KeepBlock(Searched(h, 0))
<1>8. PICK i \in FreeIn(goal, 0) : /\ FirstFrom(FreeIn(goal, 0), from, i)
                                  /\ blockCache' = [kept EXCEPT ![h] = @ \cup {i}]
  <2>1. LET g == GroupAt(h, 0)
        IN  \E i \in FreeIn(goal, 0) :
              /\ FirstFrom(FreeIn(goal, 0), SearchFrom(goal, 0, g), i)
              /\ blockCache' = [kept EXCEPT ![g] = @ \cup {i}]
    BY <1>6, <1>7, Zenon
  <2> HIDE DEF kept, h, from
  <2> QED  BY <1>2, <1>4, <2>1, Zenon
<1>9. i = from
  BY <1>3, <1>5, <1>8 DEF FirstFrom
<1>10. h \in DOMAIN kept
  <2>1. h \in Searched(h, 0)  BY <1>2 DEF Searched
  <2> QED  BY <2>1 DEF KeepBlock
<1> HIDE DEF kept
<1> QED  BY <1>8, <1>9, <1>10

\* Drop is the one call that closes a Volume, and looks at the marks it leaves.
WarningIsDue == phase = "closed" => warned = IsDirty

LEMMA OnlyDropCloses ==
    ASSUME Next, phase' = "closed"  PROVE Drop
<1> USE DEF cacheVars, flushVars, Idle, Abandon
<1>1. ~ Open /\ ~ FlushBegin /\ ~ FlushFails
  BY DEF Open, FlushBegin, FlushFails
<1>2. ~ FlushStep
  BY DEF FlushStep, FlushBlockBitmap, FlushInodeBitmap, FlushDesc, FlushBlocksDone,
         FlushBitmapsDone, FlushSuperblock, FlushDevice
<1>3. \A g \in Groups : ~ BlockWriteUnanswered(g) /\ ~ InodeWriteUnanswered(g)
  BY DEF BlockWriteUnanswered, InodeWriteUnanswered
<1>4. \A goal \in Goals : ~ AllocBlock(goal) /\ ~ AllocBlockFails(goal)
  BY DEF AllocBlock, AllocBlockFails
<1>5. \A g \in Groups : \A i \in BlockBits(g) : ~ FreeBlock(g, i) /\ ~ FreeBlockAgain(g, i)
  BY DEF FreeBlock, FreeBlockAgain
<1>6. \A near \in 1 .. GroupCount * InodesPerGroup :
         ~ AllocInodeFails(near) /\ \A isDir \in BOOLEAN : ~ AllocInode(near, isDir)
  BY DEF AllocInode, AllocInodeFails
<1>7. \A g \in Groups, i \in InodeBits, wasDir \in BOOLEAN : ~ FreeInode(g, i, wasDir)
  BY DEF FreeInode
<1> QED  BY <1>1, <1>2, <1>3, <1>4, <1>5, <1>6, <1>7 DEF Next

(***************************************************************************)
(* The theorems.                                                           *)
(***************************************************************************)

\* The inductive invariant holds in every state: alloc.rs and Volume::flush,
\* interleaved with failed flushes and reopened volumes, never leave it.
THEOREM InvHolds == Spec => []Inv
<1>1. Init => Inv  BY InvInit
<1>2. Inv /\ [Next]_vars => Inv'  BY InvNext
<1> QED  BY <1>1, <1>2, PTL DEF Spec

\* Type correctness: bitmaps stay inside their groups and no counter of
\* alloc.rs goes below zero.
THEOREM TypeCorrect == Spec => []TypeOK
<1>1. Inv => TypeOK  BY DEF Inv
<1> QED  BY <1>1, InvHolds, PTL

\* After every alloc_block, free_block, alloc_inode and free_inode the
\* descriptors' and the superblock's counters equal what the bitmaps say.
THEOREM CountersStayInStep == Spec => []CountersInStep
<1>1. Inv => CountersInStep  BY DEF Inv
<1> QED  BY <1>1, InvHolds, PTL

\* itable_unused and INODE_UNINIT never hide an inode alloc_inode handed out.
THEOREM UnusedTailStaysUnused == Spec => []UnusedTailIsUnused
<1>1. Inv => UnusedTailIsUnused  BY DEF Inv
<1> QED  BY <1>1, InvHolds, PTL

\* BLOCK_UNINIT never covers a block alloc_block handed out.
THEOREM UninitGroupsHoldNoData == Spec => []UninitGroupHasNoData
<1>1. Inv => UninitGroupHasNoData  BY DEF Inv
<1> QED  BY <1>1, InvHolds, PTL

\* A bitmap changed since it was last written is marked dirty, so a flush
\* retried after any number of failed ones still writes it.
THEOREM ChangedStaysDirty == Spec => []ChangedIsDirty
<1>1. Inv => ChangedIsDirty  BY DEF Inv
<1> QED  BY <1>1, InvHolds, PTL

\* alloc_block returns NoSpace only when no block of any group is free.
THEOREM NoSpaceMeansFullDisk == Spec => []NoSpaceOnlyWhenFull
<1>1. Inv => NoSpaceOnlyWhenFull  BY DEF Inv
<1> QED  BY <1>1, InvHolds, PTL

\* alloc_block hands out the goal when it is free, whatever else is.
THEOREM GoalsAreHonoured == Spec => GoalHonoured
<1>1. [Next]_vars => [\A goal \in Goals :
          /\ AllocBlock(goal)
          /\ goal >= FirstDataBlock /\ goal < BlocksCount
          /\ GoalBit(goal) \in FreeBlockBits(GroupOfBlock(goal))
          => GoalBit(goal) \in blockCache'[GroupOfBlock(goal)]]_vars
  BY FreeGoalIsTaken
<1> QED  BY <1>1, PTL DEF Spec, GoalHonoured

\* When Volume::flush reaches the device's own flush, the device holds all of
\* memory, and each descriptor the checksum of the bitmap beside it.
THEOREM FlushIsExact == Spec => []FlushedImageExact
<1>1. Inv => FlushedImageExact
  <2> SUFFICES ASSUME Inv, phase = "device"  PROVE Saved
    BY DEF FlushedImageExact
  <2>1. dirtyBlock = {} /\ dirtyInode = {} /\ disk.desc = desc /\ disk.sb = sb
    BY DEF Inv, FlushProgress
  <2>2. \A g \in Groups : disk.block[g] = BlockBitmap(g) /\ disk.inode[g] = InodeBitmap(g)
    BY <2>1 DEF Inv, ChangedIsDirty
  <2>3. \A g \in Groups : /\ desc[g].blockCsum = disk.block[g]
                          /\ desc[g].inodeCsum = disk.inode[g]
    BY <2>1 DEF Inv, CleanIsStamped
  <2> QED  BY <2>1, <2>2, <2>3 DEF Saved
<1> QED  BY <1>1, InvHolds, PTL

\* A Volume dropped without its warning (Drop for Volume, volume.rs 1753) has every
\* bitmap on the device, whatever calls and flushes failed before: what was handed
\* out is not handed out again.
THEOREM SilentDropIsSafe == Spec => []SilentDropKeepsBitmaps
<1>1. Init => WarningIsDue  BY DEF Init, WarningIsDue
<1>2. WarningIsDue /\ [Next]_vars => WarningIsDue'
  <2> SUFFICES ASSUME WarningIsDue, [Next]_vars, phase' = "closed"
               PROVE  warned' = IsDirty'
    BY DEF WarningIsDue
  <2> USE DEF vars, cacheVars, flushVars, IsDirty
  <2>1. CASE UNCHANGED vars  BY <2>1 DEF WarningIsDue
  <2>2. CASE Drop  BY <2>2 DEF Drop
  <2> QED  BY <2>1, <2>2, OnlyDropCloses
<1>3. Inv /\ WarningIsDue => SilentDropKeepsBitmaps
  BY DEF Inv, ChangedIsDirty, WarningIsDue, IsDirty, SilentDropKeepsBitmaps
<1> QED  BY <1>1, <1>2, <1>3, InvHolds, PTL DEF Spec

=============================================================================
