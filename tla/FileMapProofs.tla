--------------------------- MODULE FileMapProofs ---------------------------
(***************************************************************************)
(* Proofs about files' blocks, for every number of files and blocks, every *)
(* size of extents, leaves and indirect blocks, every content and every    *)
(* number of failing calls.  The second half is about volumes whose files  *)
(* have no holes when they are opened: every step of a call is a step of   *)
(* FileStore or a stutter, and i_blocks counts what a file holds.          *)
(***************************************************************************)
EXTENDS FileMap, FiniteSetTheorems, FunctionTheorems, SequenceTheorems,
        WellFoundedInduction, TLAPS

(***************************************************************************)
(* Lemmas about the allocator's choice and about lists of blocks.          *)
(***************************************************************************)

\* A set of numbers that is not empty has a least one.
LEMMA LeastIsMember ==
    ASSUME NEW S \in SUBSET Nat, S # {}  PROVE  Least(S) \in S
<1>1. \E x \in S : \A y \in S : ~ (<<y, x>> \in OpToRel(<, Nat))
  BY WFMin, NatLessThanWellFounded
<1>2. PICK x \in S : \A y \in S : ~ (<<y, x>> \in OpToRel(<, Nat))
  BY <1>1
<1>3. \A y \in S : ~ (y < x)
  <2> SUFFICES ASSUME NEW y \in S, y < x  PROVE FALSE
    OBVIOUS
  <2>1. <<y, x>> \in Nat \X Nat
    OBVIOUS
  <2>2. <<y, x>> \in OpToRel(<, Nat)
    BY <2>1, Zenon DEF OpToRel
  <2> QED  BY <1>2, <2>2
<1>4. x \in Nat /\ \A y \in S : x <= y
  BY <1>3
<1> QED  BY <1>4 DEF Least

\* The block alloc_block hands out was free, whatever the goal.
LEMMA AllocIsFree ==
    ASSUME NEW goal, FreeBlocks # {}
    PROVE  /\ AllocFrom(goal) \in FreeBlocks
           /\ AllocFrom(goal) \in Blocks /\ AllocFrom(goal) \notin used
<1>1. FreeBlocks \in SUBSET Nat /\ {b \in FreeBlocks : b >= goal} \in SUBSET Nat
  BY SizesAssumption DEF FreeBlocks, Blocks
<1>2. AllocFrom(goal) \in FreeBlocks
  BY <1>1, LeastIsMember DEF AllocFrom
<1> QED  BY <1>2 DEF FreeBlocks

\* A list names blocks of files, and one longer by a block names that too.
LEMMA ListFacts ==
    ASSUME NEW list \in ListType
    PROVE  /\ Len(list) \in Nat /\ DOMAIN list = 1 .. Len(list)
           /\ \A i \in 1 .. Len(list) : list[i] \in 0 .. BlockCount
           /\ BlocksOf(list) \subseteq Blocks
           /\ Last(list) \in 0 .. BlockCount
BY SizesAssumption DEF ListType, BlocksOf, Blocks, HOLE, Last

\* Nothing is named by a list that is empty.
LEMMA EmptyList == BlocksOf(<<>>) = {} /\ Ranged(<<>>) = {} /\ <<>> \in ListType
BY DEF BlocksOf, Ranged, ListType

\* One block more at the end of a list, and of the blocks it names.
LEMMA AppendBlock ==
    ASSUME NEW list \in ListType, NEW b \in Blocks
    PROVE  /\ Append(list, b) \in ListType
           /\ Len(Append(list, b)) = Len(list) + 1
           /\ \A i \in 1 .. Len(list) : Append(list, b)[i] = list[i]
           /\ Append(list, b)[Len(list) + 1] = b
           /\ BlocksOf(Append(list, b)) = BlocksOf(list) \cup {b}
           /\ DistinctBlocks(list) /\ b \notin BlocksOf(list)
                 => DistinctBlocks(Append(list, b))
<1>1. b \in 0 .. BlockCount /\ b # HOLE
  BY SizesAssumption DEF Blocks, HOLE
<1>2. /\ Append(list, b) \in ListType
      /\ Len(Append(list, b)) = Len(list) + 1
      /\ \A i \in 1 .. Len(list) : Append(list, b)[i] = list[i]
      /\ Append(list, b)[Len(list) + 1] = b
  BY <1>1, AppendProperties DEF ListType
<1>3. Len(list) \in Nat /\ DOMAIN list = 1 .. Len(list)
  BY ListFacts
<1>4. DOMAIN Append(list, b) = 1 .. Len(list) + 1
  BY <1>2, <1>3, LenProperties DEF ListType
<1>5. BlocksOf(Append(list, b)) = BlocksOf(list) \cup {b}
  BY <1>1, <1>2, <1>3, <1>4 DEF BlocksOf
<1>6. ASSUME DistinctBlocks(list), b \notin BlocksOf(list)
      PROVE  DistinctBlocks(Append(list, b))
  BY <1>1, <1>2, <1>3, <1>4, <1>6 DEF BlocksOf, DistinctBlocks
<1> QED  BY <1>2, <1>5, <1>6

\* The same for the map blocks a call has taken.
LEMMA AppendMapBlock ==
    ASSUME NEW s \in Seq(Blocks), NEW b \in Blocks
    PROVE  /\ Append(s, b) \in Seq(Blocks)
           /\ Ranged(Append(s, b)) = Ranged(s) \cup {b}
<1>1. /\ Append(s, b) \in Seq(Blocks)
      /\ Len(Append(s, b)) = Len(s) + 1
      /\ \A i \in 1 .. Len(s) : Append(s, b)[i] = s[i]
      /\ Append(s, b)[Len(s) + 1] = b
  BY AppendProperties
<1>2. Len(s) \in Nat /\ DOMAIN s = 1 .. Len(s) /\ DOMAIN Append(s, b) = 1 .. Len(s) + 1
  BY <1>1, LenProperties
<1> QED  BY <1>1, <1>2 DEF Ranged

\* Map blocks are blocks of files.
LEMMA RangedType ==
    ASSUME NEW s \in Seq(Blocks)  PROVE  Ranged(s) \subseteq Blocks
BY DEF Ranged

\* A list cut in two: the ends name what the whole does, and no block twice.
LEMMA CutList ==
    ASSUME NEW list \in ListType, NEW k \in 0 .. Len(list)
    PROVE  LET kept == SubSeq(list, 1, k)
               past == SubSeq(list, k + 1, Len(list))
           IN  /\ kept \in ListType /\ Len(kept) = k
               /\ \A i \in 1 .. k : kept[i] = list[i]
               /\ BlocksOf(list) = BlocksOf(kept) \cup BlocksOf(past)
               /\ DistinctBlocks(list) => /\ DistinctBlocks(kept)
                                          /\ BlocksOf(kept) \cap BlocksOf(past) = {}
<1> DEFINE kept == SubSeq(list, 1, k)
           past == SubSeq(list, k + 1, Len(list))
<1>1. Len(list) \in Nat /\ DOMAIN list = 1 .. Len(list)
      /\ \A i \in 1 .. Len(list) : list[i] \in 0 .. BlockCount
  BY ListFacts
<1>2. kept \in ListType /\ Len(kept) = k /\ \A i \in 1 .. k : kept[i] = list[i]
  BY <1>1, SubSeqProperties DEF ListType
<1>3. /\ past \in ListType /\ Len(past) = Len(list) - k
      /\ \A i \in 1 .. Len(list) - k : past[i] = list[k + i]
  <2>1. k + 1 \in Int /\ Len(list) \in Int
        /\ \A i \in k + 1 .. Len(list) : list[i] \in 0 .. BlockCount
    BY <1>1
  <2>2. /\ past \in Seq(0 .. BlockCount)
        /\ Len(past) = IF k + 1 <= Len(list) THEN Len(list) - (k + 1) + 1 ELSE 0
        /\ \A i \in 1 .. Len(list) - (k + 1) + 1 : past[i] = list[(k + 1) + i - 1]
    BY <2>1, SubSeqProperties
  <2>3. k \in 0 .. Len(list) /\ Len(list) \in Nat
    BY <1>1
  <2> HIDE DEF past
  <2>4. \A i \in 1 .. Len(list) - k : past[i] = list[k + i]
    <3>1. TAKE i \in 1 .. Len(list) - k
    <3>2. i \in 1 .. Len(list) - (k + 1) + 1 /\ (k + 1) + i - 1 = k + i
      BY <2>3
    <3> QED  BY <2>2, <3>2
  <2> QED  BY <2>2, <2>3, <2>4 DEF ListType
<1>4. DOMAIN kept = 1 .. k /\ DOMAIN past = 1 .. Len(list) - k
  BY <1>2, <1>3, ListFacts
<1> HIDE DEF kept, past
<1>5. BlocksOf(kept) \subseteq BlocksOf(list) /\ BlocksOf(past) \subseteq BlocksOf(list)
  <2>1. \A i \in 1 .. k : i \in DOMAIN list /\ kept[i] = list[i]
    BY <1>1, <1>2
  <2>2. \A i \in 1 .. Len(list) - k : k + i \in DOMAIN list /\ past[i] = list[k + i]
    BY <1>1, <1>3
  <2>3. BlocksOf(kept) \subseteq BlocksOf(list)
    BY <1>4, <2>1 DEF BlocksOf
  <2>4. BlocksOf(past) \subseteq BlocksOf(list)
    BY <1>4, <2>2 DEF BlocksOf
  <2> QED  BY <2>3, <2>4
<1>6. ASSUME DistinctBlocks(list)
      PROVE  DistinctBlocks(kept) /\ BlocksOf(kept) \cap BlocksOf(past) = {}
  <2>1. DistinctBlocks(kept)
    BY <1>1, <1>2, <1>4, <1>6 DEF DistinctBlocks
  <2>2. ASSUME NEW x \in BlocksOf(kept), x \in BlocksOf(past)  PROVE  FALSE
    <3>1. PICK i \in 1 .. k : x = list[i]
      BY <1>2, <1>4 DEF BlocksOf
    <3>2. PICK j \in 1 .. Len(list) - k : x = list[k + j]
      BY <1>3, <1>4, <2>2 DEF BlocksOf
    <3>3. x # HOLE
      BY <2>2 DEF BlocksOf
    <3>4. i \in DOMAIN list /\ k + j \in DOMAIN list /\ i # k + j
      BY <1>1
    <3> QED  BY <1>6, <3>1, <3>2, <3>3, <3>4 DEF DistinctBlocks
  <2> QED  BY <2>1, <2>2
<1>7. ASSUME NEW x \in BlocksOf(list)
      PROVE  x \in BlocksOf(kept) \cup BlocksOf(past)
  <2>1. PICK i \in 1 .. Len(list) : x = list[i] /\ x # HOLE
    BY <1>1 DEF BlocksOf
  <2>2. CASE i <= k
    BY <1>2, <1>4, <2>1, <2>2 DEF BlocksOf
  <2>3. CASE i > k
    <3>1. i - k \in 1 .. Len(list) - k /\ k + (i - k) = i
      BY <1>1, <2>3
    <3>2. past[i - k] = list[i]
      BY <1>3, <3>1
    <3> QED  BY <1>4, <2>1, <3>1, <3>2 DEF BlocksOf
  <2> QED  BY <1>1, <2>2, <2>3
<1> QED  BY <1>2, <1>5, <1>6, <1>7 DEF kept, past

(***************************************************************************)
(* The shape of the state.                                                 *)
(***************************************************************************)
Pieces == Values \cup {Zero, Other}

InodeType ==
    [list : ListType, meta : SUBSET Blocks, acl : 0 .. BlockCount, blocks : Nat]

\* What the type invariant says of the running call and of its file's inode.
LEMMA TypeFacts ==
    ASSUME TypeInv
    PROVE  /\ call \in CallType /\ call.file \in Files
           /\ call.list \in ListType /\ call.meta \in Seq(Blocks)
           /\ call.acl \in 0 .. BlockCount /\ call.at \in Nat
           /\ call.data \in Seq(Pieces)
           /\ Len(call.list) \in Nat /\ Len(call.data) \in Nat
           /\ Len(call.list) <= Len(call.data)
           /\ inode \in [Files -> InodeType]
           /\ \A f \in Files : inode[f] \in InodeType /\ Refs(inode[f]) \subseteq Blocks
           /\ Running \in InodeType
           /\ used \subseteq Blocks
<1>1. /\ call \in CallType /\ call.file \in Files
      /\ call.list \in ListType /\ call.meta \in Seq(Blocks)
      /\ call.acl \in 0 .. BlockCount /\ call.at \in Nat
      /\ call.data \in Seq(Pieces)
      /\ Len(call.list) <= Len(call.data)
      /\ inode \in [Files -> InodeType]
      /\ used \subseteq Blocks
  BY DEF TypeInv, TypeOK, CallFits, CallType, InodeType, Pieces
<1>2. Len(call.list) \in Nat /\ Len(call.data) \in Nat
  BY <1>1, LenProperties DEF ListType
<1>3. ASSUME NEW f \in Files
      PROVE  inode[f] \in InodeType /\ Refs(inode[f]) \subseteq Blocks
  <2>1. inode[f] \in InodeType
    BY <1>1
  <2>2. inode[f].list \in ListType /\ inode[f].meta \subseteq Blocks
        /\ inode[f].acl \in 0 .. BlockCount
    BY <2>1 DEF InodeType
  <2>3. BlocksOf(inode[f].list) \subseteq Blocks
    BY <2>2, ListFacts
  <2> QED  BY <2>1, <2>2, <2>3, SizesAssumption DEF Refs, HOLE, Blocks
<1> QED  BY <1>1, <1>2, <1>3 DEF Running

\* No call is running: nothing is in its locals.
LEMMA NoCallFacts ==
    /\ NoCall \in CallType
    /\ NoCall.list = <<>> /\ NoCall.meta = <<>> /\ NoCall.acl = HOLE
    /\ NoCall.data = <<>> /\ NoCall.gave = FALSE
<1>1. (CHOOSE f \in Files : TRUE) \in Files
  BY FilesAssumption
<1>2. <<>> \in Seq(Values \cup {Zero, Other}) /\ <<>> \in Seq(Blocks)
  OBVIOUS
<1> QED  BY <1>1, <1>2, EmptyList, SizesAssumption DEF NoCall, CallType, HOLE

\* A call that starts has nothing in its locals.
LEMMA StartTyped ==
    ASSUME TypeInv,
           NEW op \in {"write", "stream", "remove", "xattrs"}, NEW f \in Files,
           NEW data \in Seq(Pieces),
           NEW first \in {"truncate", "excess", "inline", "spill"},
           Start(op, f, data, first)
    PROVE  TypeInv'
<1>1. /\ call' \in CallType /\ call'.file = f /\ call'.data = data
      /\ call'.list = <<>> /\ call'.meta = <<>> /\ call'.acl = HOLE
      /\ call'.gave = FALSE
  <2> DEFINE new == [NoCall EXCEPT !.op = op, !.file = f, !.data = data]
  <2>1. call' = new
    BY DEF Start
  <2>2. /\ new \in CallType /\ new.file = f /\ new.data = data
        /\ new.list = <<>> /\ new.meta = <<>> /\ new.acl = HOLE /\ new.gave = FALSE
    BY NoCallFacts DEF CallType, Pieces
  <2> HIDE DEF new
  <2> QED  BY <2>1, <2>2
<1>2. /\ Len(call'.list) <= Len(call'.data) /\ call'.list \in ListType
      /\ call'.meta \in Seq(Blocks)
  BY <1>1, EmptyList, LenProperties
<1>3. CallFits'
  BY <1>1 DEF CallFits, Start, Idle
<1>4. TypeOK'
  BY <1>1, <1>2 DEF TypeInv, TypeOK, Start
<1> QED  BY <1>3, <1>4 DEF TypeInv

\* What a file reads as is a sequence of contents.
LEMMA ContentsTyped ==
    ASSUME TypeInv, NEW f \in Files
    PROVE  /\ Contents(f) \in Seq(Pieces)
           /\ Len(Contents(f)) = Len(inode[f].list) /\ Len(inode[f].list) \in Nat
<1>1. inode[f].list \in ListType
  BY TypeFacts DEF InodeType
<1>2. /\ Len(inode[f].list) \in Nat /\ DOMAIN inode[f].list = 1 .. Len(inode[f].list)
      /\ \A i \in 1 .. Len(inode[f].list) : inode[f].list[i] \in 0 .. BlockCount
  BY <1>1, ListFacts
<1>3. store \in [0 .. BlockCount -> Pieces]
  BY DEF TypeInv, TypeOK, Pieces
<1>4. Contents(f) \in [1 .. Len(inode[f].list) -> Pieces]
  BY <1>2, <1>3 DEF Contents, Pieces
<1> QED  BY <1>2, <1>4

\* Every way a call may begin.
LEMMA CallBeginsTyped ==
    ASSUME TypeInv, CallBegins  PROVE  TypeInv'
<1>1. PICK f \in Files :
        \/ \E v \in Values : AppendTo(f, v)
        \/ \E v \in Values, at \in Offsets : WriteAt(f, at, v)
        \/ \E v \in Values, n \in Lengths : Replace(f, n, v) \/ Stream(f, n, v)
        \/ Remove(f)
        \/ \E inline \in BOOLEAN : f \in AttributeFiles /\ SetXattrs(f, inline)
  BY DEF CallBegins
<1>2. ASSUME NEW v \in Values, AppendTo(f, v)  PROVE  TypeInv'
  <2>1. Contents(f) \o <<v>> \in Seq(Pieces)
    BY ContentsTyped DEF Pieces
  <2> QED  BY <1>2, <2>1, StartTyped DEF AppendTo
<1>3. ASSUME NEW v \in Values, NEW at \in Offsets, WriteAt(f, at, v)  PROVE  TypeInv'
  <2> DEFINE old == Contents(f)
             len == IF at > Len(old) THEN at ELSE Len(old)
             new == [i \in 1 .. len |-> IF i = at THEN v
                                        ELSE IF i <= Len(old) THEN old[i] ELSE Zero]
  <2>1. at \in Nat /\ old \in Seq(Pieces) /\ Len(old) \in Nat
    BY ContentsTyped, SizesAssumption
  <2>2. len \in Nat
    BY <2>1
  <2>3. \A i \in 1 .. len : i <= Len(old) => old[i] \in Pieces
    BY <2>1, <2>2
  <2>4. new \in [1 .. len -> Pieces]
    BY <2>3 DEF Pieces
  <2>5. new \in Seq(Pieces)
    BY <2>2, <2>4
  <2>6. Start("write", f, new, "excess")
    BY <1>3 DEF WriteAt
  <2> HIDE DEF new
  <2> QED  BY <2>5, <2>6, StartTyped
<1>4. ASSUME NEW v \in Values, NEW n \in Lengths, Replace(f, n, v) \/ Stream(f, n, v)
      PROVE  TypeInv'
  <2>1. n \in Nat /\ [i \in 1 .. n |-> v] \in [1 .. n -> Pieces]
    BY SizesAssumption DEF Pieces
  <2>2. [i \in 1 .. n |-> v] \in Seq(Pieces)
    BY <2>1
  <2> QED  BY <1>4, <2>2, StartTyped DEF Replace, Stream
<1>0. <<>> \in Seq(Pieces)
  OBVIOUS
<1>5. ASSUME Remove(f)  PROVE  TypeInv'
  BY <1>0, <1>5, StartTyped DEF Remove
<1>6. ASSUME NEW inline \in BOOLEAN, SetXattrs(f, inline)  PROVE  TypeInv'
  BY <1>0, <1>6, StartTyped DEF SetXattrs
<1> QED  BY <1>1, <1>2, <1>3, <1>4, <1>5, <1>6

\* The last call of an operation, and one that fails, leave no locals.
LEMMA EndTyped ==
    ASSUME TypeInv, pc' = "idle", call' = NoCall,
           UNCHANGED <<used, inode, store, undercounted>>,
           result' \in {"ok", "error"}, failures' \in 0 .. MaxFailures,
           harm' \in {"none", "leak", "torn"}
    PROVE  TypeInv'
<1>1. /\ call' \in CallType /\ call'.list = <<>> /\ call'.meta = <<>>
      /\ call'.acl = HOLE /\ call'.gave = FALSE /\ call'.data = <<>>
  BY NoCallFacts
<1>2. /\ call'.file \in Files /\ call'.list \in ListType /\ call'.meta \in Seq(Blocks)
      /\ Len(call'.list) <= Len(call'.data)
  BY <1>1, EmptyList, LenProperties DEF CallType
<1>3. CallFits'
  BY <1>1 DEF CallFits
<1>4. TypeOK'
  BY <1>1, <1>2 DEF TypeInv, TypeOK
<1> QED  BY <1>3, <1>4 DEF TypeInv

\* A call that fails, wherever it is.
LEMMA GiveUpTyped ==
    ASSUME TypeInv, GiveUp  PROVE  TypeInv'
<1>1. failures' \in 0 .. MaxFailures
  BY SizesAssumption DEF GiveUp, TypeInv, TypeOK
<1> QED  BY <1>1, EndTyped DEF GiveUp

\* A block that is given back, and what the call then has.
LEMMA FreeTyped ==
    ASSUME TypeInv, NEW S, Free(S)
    PROVE  /\ used' \subseteq Blocks
           /\ store' \in [0 .. BlockCount -> Values \cup {Zero, Other}]
<1>1. used \subseteq Blocks /\ store \in [0 .. BlockCount -> Values \cup {Zero, Other}]
  BY DEF TypeInv, TypeOK
<1>2. used' \subseteq Blocks
  BY <1>1 DEF Free
<1>3. store' \in [0 .. BlockCount -> Values \cup {Zero, Other}]
  BY <1>1 DEF Free
<1> QED  BY <1>2, <1>3

\* free_block in a call: the call only notes that it gave something back.
LEMMA GiveBackTyped ==
    ASSUME TypeInv, NEW S, GiveBack(S)
    PROVE  /\ used' \subseteq Blocks
           /\ store' \in [0 .. BlockCount -> Values \cup {Zero, Other}]
           /\ call' \in CallType
           /\ call'.op = call.op
           /\ call'.file = call.file /\ call'.data = call.data /\ call'.at = call.at
           /\ call'.list = call.list /\ call'.meta = call.meta /\ call'.acl = call.acl
           /\ call'.gave = (call.gave \/ S # {})
<1>1. call \in CallType /\ call' = [call EXCEPT !.gave = @ \/ S # {}]
  BY TypeFacts DEF GiveBack
<1>2. (call.gave \/ S # {}) \in BOOLEAN
  BY <1>1 DEF CallType
<1>3. /\ call' \in CallType /\ call'.op = call.op
      /\ call'.file = call.file /\ call'.data = call.data /\ call'.at = call.at
      /\ call'.list = call.list /\ call'.meta = call.meta /\ call'.acl = call.acl
      /\ call'.gave = (call.gave \/ S # {})
  BY <1>1, <1>2 DEF CallType
<1> QED  BY <1>3, FreeTyped DEF GiveBack

\* The steps that only give blocks back.
LEMMA GivingTyped ==
    ASSUME TypeInv,
           TruncateFree \/ FreeOldMap \/ FreeXattrBlock \/ XattrsInline
    PROVE  TypeInv'
<1>1. PICK S : GiveBack(S)
  BY DEF TruncateFree, FreeOldMap, FreeXattrBlock, XattrsInline
<1>2. /\ used' \subseteq Blocks
      /\ store' \in [0 .. BlockCount -> Values \cup {Zero, Other}]
      /\ call' \in CallType
      /\ call'.file = call.file /\ call'.data = call.data /\ call'.at = call.at
      /\ call'.list = call.list /\ call'.meta = call.meta /\ call'.acl = call.acl
  BY <1>1, GiveBackTyped
<1>3. /\ \/ pc = "truncate" /\ pc' = "empty"
         \/ pc = "take" /\ pc' = "map"
         \/ pc = "acl" /\ pc' = "release"
         \/ pc = "inline" /\ pc' = "attrs"
      /\ UNCHANGED <<inode, result, failures, harm, undercounted>>
  BY DEF TruncateFree, FreeOldMap, FreeXattrBlock, XattrsInline
<1>4. call'.gave \in BOOLEAN /\ call'.file \in Files
  BY <1>2 DEF CallType
<1>5. TypeOK'
  BY <1>2, <1>3, <1>4 DEF TypeInv, TypeOK
<1>6. CallFits'
  BY <1>2, <1>3 DEF TypeInv, CallFits
<1> QED  BY <1>5, <1>6 DEF TypeInv

\* The steps that write the file's inode.
LEMMA InodeWriteTyped ==
    ASSUME TypeInv, NEW nd \in InodeType,
           inode' = [inode EXCEPT ![call.file] = nd],
           call' = [call EXCEPT !.gave = FALSE],
           undercounted' \subseteq Files,
           UNCHANGED <<used, store, result, failures, harm>>,
           \/ pc = "empty" /\ pc' \in {"acl", "excess"}
           \/ pc \in {"map", "release", "attrs"} /\ pc' = "return"
    PROVE  TypeInv'
<1>1. /\ call' \in CallType
      /\ call'.file = call.file /\ call'.data = call.data /\ call'.at = call.at
      /\ call'.list = call.list /\ call'.meta = call.meta /\ call'.acl = call.acl
      /\ call'.gave = FALSE
  BY TypeFacts DEF CallType
<1>2. inode' \in [Files -> InodeType]
  BY TypeFacts
<1>3. TypeOK'
  BY <1>1, <1>2 DEF TypeInv, TypeOK, InodeType
<1>4. CallFits'
  BY <1>1 DEF TypeInv, CallFits
<1> QED  BY <1>3, <1>4 DEF TypeInv

\* truncate_inode, write_data, the release of an inode, write_xattrs.
LEMMA WritingTyped ==
    ASSUME TypeInv,
           TruncateWrite \/ WriteInode \/ ReleaseInode \/ WriteXattrInode
    PROVE  TypeInv'
<1>1. Running \in InodeType /\ call.file \in Files /\ undercounted \subseteq Files
  BY TypeFacts DEF TypeInv, TypeOK
<1>2. CASE TruncateWrite
  <2>1. Emptied(Running) \in InodeType
    BY <1>1, EmptyList DEF Emptied, InodeType
  <2> QED  BY <1>1, <1>2, <2>1, InodeWriteTyped DEF TruncateWrite, Running
<1>3. CASE WriteInode
  <2> DEFINE nd == [Running EXCEPT !.list = call.list, !.meta = Ranged(call.meta),
                                   !.blocks = CountBlocks(call.list, call.meta)]
  <2>0. call.meta \in Seq(Blocks) /\ Len(call.list) \in Nat
    BY TypeFacts
  <2>1. Ranged(call.meta) \subseteq Blocks
    BY <2>0, RangedType
  <2>2. Len(call.meta) \in Nat
    BY <2>0, LenProperties
  <2>3. CountBlocks(call.list, call.meta) \in Nat
    <3>1. \A m, n \in Nat : m + n \in Nat
      OBVIOUS
    <3> QED  BY <2>0, <2>2, <3>1, Zenon DEF CountBlocks
  <2>4. nd \in InodeType
    BY <1>1, <2>1, <2>3, TypeFacts DEF InodeType
  <2>5. inode' = [inode EXCEPT ![call.file] = nd]
    BY <1>1, <1>3, TypeFacts DEF WriteInode, Running
  <2> HIDE DEF nd
  <2> QED  BY <1>1, <1>3, <2>4, <2>5, InodeWriteTyped DEF WriteInode
<1>4. CASE ReleaseInode
  <2>1. EmptyInode \in InodeType
    BY EmptyList, SizesAssumption DEF EmptyInode, InodeType, HOLE
  <2> QED  BY <1>1, <1>4, <2>1, InodeWriteTyped DEF ReleaseInode
<1>5. CASE WriteXattrInode
  <2> DEFINE nd == [Running EXCEPT !.acl = call.acl,
                                   !.blocks = CountXattrs(Running, call.acl)]
  <2>1. CountXattrs(Running, call.acl) \in Nat
    BY <1>1 DEF CountXattrs, Over, InodeType
  <2>2. nd \in InodeType
    BY <1>1, <2>1, TypeFacts DEF InodeType
  <2>3. inode' = [inode EXCEPT ![call.file] = nd]
    BY <1>1, <1>5, TypeFacts DEF WriteXattrInode, Running
  <2> HIDE DEF nd
  <2> QED  BY <1>1, <1>5, <2>2, <2>3, InodeWriteTyped DEF WriteXattrInode
<1> QED  BY <1>2, <1>3, <1>4, <1>5

\* The list a write begins with is a part of the one the file had.
LEMMA FreeExcessTyped ==
    ASSUME TypeInv, FreeExcess  PROVE  TypeInv'
<1> DEFINE keep == Smaller(Len(Running.list), Len(call.data))
           list == SubSeq(Running.list, 1, keep)
           past == BlocksOf(SubSeq(Running.list, keep + 1, Len(Running.list)))
<1>1. Running.list \in ListType /\ Len(Running.list) \in Nat /\ Len(call.data) \in Nat
  BY TypeFacts, ListFacts DEF InodeType
<1>2. keep \in 0 .. Len(Running.list) /\ keep <= Len(call.data)
  BY <1>1 DEF Smaller
<1>3. list \in ListType /\ Len(list) = keep
  BY <1>1, <1>2, CutList
<1>4. Last(list) \in 0 .. BlockCount
  BY <1>3, ListFacts
<1>5. /\ pc = "excess" /\ pc' = "take" /\ Free(past)
      /\ call' = [call EXCEPT !.list = list, !.goal = Last(list),
                              !.at = StoreFrom(keep), !.gave = @ \/ past # {}]
      /\ UNCHANGED <<inode, result, failures, harm, undercounted>>
  BY DEF FreeExcess
<1>6. call \in CallType /\ (call.gave \/ past # {}) \in BOOLEAN
  BY TypeFacts DEF CallType
<1> HIDE DEF list, past, keep
<1>7. /\ call' \in CallType /\ call'.list = list /\ call'.at = 1
      /\ call'.file = call.file /\ call'.data = call.data
      /\ call'.meta = call.meta /\ call'.acl = call.acl
  BY <1>3, <1>4, <1>5, <1>6 DEF CallType, StoreFrom
<1>8. TypeOK'
  <2>1. call'.gave \in BOOLEAN
    BY <1>7 DEF CallType
  <2> QED  BY <1>2, <1>3, <1>5, <1>7, <2>1, FreeTyped DEF TypeInv, TypeOK
<1>9. CallFits'
  BY <1>5, <1>7 DEF TypeInv, CallFits
<1> QED  BY <1>8, <1>9 DEF TypeInv

\* What a block that is taken does to a call that takes it.
LEMMA TakeDataTyped ==
    ASSUME TypeInv, TakeData  PROVE  TypeInv'
<1> DEFINE b == AllocFrom(DataGoal)
           list == Append(call.list, b)
<1>1. b \in Blocks
  BY AllocIsFree DEF TakeData
<1>2. call.list \in ListType /\ call \in CallType
  BY TypeFacts
<1>3. list \in ListType /\ Len(list) = Len(call.list) + 1
  BY <1>1, <1>2, AppendBlock
<1>4. Len(list) <= Len(call.data)
  BY <1>3, TypeFacts DEF TakeData, WantsBlock
<1>5. /\ pc = "take" /\ used' = used \cup {b} /\ call' = [call EXCEPT !.list = list]
      /\ UNCHANGED <<inode, store, pc, result, failures, harm, undercounted>>
  BY <1>2 DEF TakeData, WantsBlock, CallType
<1> HIDE DEF list, b
<1>6. /\ call' \in CallType /\ call'.list = list /\ call'.at = call.at
      /\ call'.file = call.file /\ call'.data = call.data /\ call'.gave = call.gave
      /\ call'.meta = call.meta /\ call'.acl = call.acl
  BY <1>2, <1>3, <1>5 DEF CallType
<1>7. TypeOK'
  BY <1>1, <1>3, <1>4, <1>5, <1>6 DEF TypeInv, TypeOK
<1>8. CallFits'
  BY <1>5, <1>6 DEF TypeInv, CallFits
<1> QED  BY <1>7, <1>8 DEF TypeInv

\* A block is stored only at a position of the list.
LEMMA StoreDataTyped ==
    ASSUME TypeInv, StoreData  PROVE  TypeInv'
<1>1. /\ pc = "take" /\ call.at <= Len(call.list)
      /\ store' = [store EXCEPT ![call.list[call.at]] = call.data[call.at]]
      /\ call' = [call EXCEPT !.at = @ + 1]
      /\ UNCHANGED <<used, inode, pc, result, failures, harm, undercounted>>
  BY DEF StoreData
<1>2. call \in CallType /\ call.at \in Nat /\ call.at # 0
  BY <1>1, TypeFacts DEF TypeInv, CallFits
<1>3. call.at \in 1 .. Len(call.data)
  BY <1>1, <1>2, TypeFacts
<1>4. call.data[call.at] \in Values \cup {Zero, Other}
  BY <1>3, TypeFacts, ElementOfSeq DEF Pieces
<1>5. store' \in [0 .. BlockCount -> Values \cup {Zero, Other}]
  BY <1>1, <1>4 DEF TypeInv, TypeOK
<1>6. /\ call' \in CallType /\ call'.list = call.list /\ call'.at = call.at + 1
      /\ call'.file = call.file /\ call'.data = call.data /\ call'.gave = call.gave
      /\ call'.meta = call.meta /\ call'.acl = call.acl
  <2>1. call.at + 1 \in Nat
    BY <1>2
  <2> QED  BY <1>1, <1>2, <2>1 DEF CallType
<1>7. TypeOK'
  BY <1>1, <1>5, <1>6 DEF TypeInv, TypeOK
<1>8. CallFits'
  BY <1>1, <1>2, <1>6 DEF TypeInv, CallFits
<1> QED  BY <1>7, <1>8 DEF TypeInv

\* A map block is taken among the free ones.
LEMMA TakeMapBlockTyped ==
    ASSUME TypeInv, TakeMapBlock  PROVE  TypeInv'
<1> DEFINE b == AllocFrom(MapGoal)
           meta == Append(call.meta, b)
<1>1. b \in Blocks
  BY AllocIsFree DEF TakeMapBlock
<1>2. call.meta \in Seq(Blocks) /\ call \in CallType
  BY TypeFacts
<1>3. meta \in Seq(Blocks)
  BY <1>1, <1>2, AppendMapBlock
<1>4. /\ pc = "map" /\ used' = used \cup {b} /\ call' = [call EXCEPT !.meta = meta]
      /\ store' = [store EXCEPT ![b] = Other]
      /\ UNCHANGED <<inode, pc, result, failures, harm, undercounted>>
  BY <1>2 DEF TakeMapBlock, CallType
<1> HIDE DEF meta, b
<1>5. /\ call' \in CallType /\ call'.meta = meta /\ call'.list = call.list
      /\ call'.file = call.file /\ call'.data = call.data /\ call'.gave = call.gave
      /\ call'.at = call.at /\ call'.acl = call.acl
  BY <1>2, <1>3, <1>4 DEF CallType
<1>6. store' \in [0 .. BlockCount -> Values \cup {Zero, Other}]
  BY <1>4 DEF TypeInv, TypeOK
<1>7. TypeOK'
  BY <1>1, <1>3, <1>4, <1>5, <1>6 DEF TypeInv, TypeOK
<1>8. CallFits'
  BY <1>4, <1>5 DEF TypeInv, CallFits
<1> QED  BY <1>7, <1>8 DEF TypeInv

\* The attributes go to the block they had, or to a free one.
LEMMA SpillTyped ==
    ASSUME TypeInv, XattrsSpillAgain \/ XattrsSpill  PROVE  TypeInv'
<1>1. PICK b \in 0 .. BlockCount :
         /\ pc = "spill" /\ pc' = "attrs" /\ used' \subseteq Blocks
         /\ store' = [store EXCEPT ![b] = Other]
         /\ call' = [call EXCEPT !.acl = b]
         /\ UNCHANGED <<inode, result, failures, harm, undercounted>>
  <2>1. CASE XattrsSpillAgain
    <3>1. Running.acl \in 0 .. BlockCount
      BY TypeFacts DEF InodeType
    <3> QED  BY <2>1, <3>1, TypeFacts DEF XattrsSpillAgain
  <2>2. CASE XattrsSpill
    <3>1. AllocFrom(0) \in Blocks
      BY <2>2, AllocIsFree DEF XattrsSpill
    <3>2. AllocFrom(0) \in 0 .. BlockCount
      BY <3>1, SizesAssumption DEF Blocks
    <3> QED  BY <2>2, <3>1, <3>2, TypeFacts DEF XattrsSpill
  <2> QED  BY <2>1, <2>2
<1>2. /\ call' \in CallType /\ call'.acl = b /\ call'.list = call.list
      /\ call'.file = call.file /\ call'.data = call.data /\ call'.gave = call.gave
      /\ call'.at = call.at /\ call'.meta = call.meta
  BY <1>1, TypeFacts DEF CallType
<1>3. store' \in [0 .. BlockCount -> Values \cup {Zero, Other}]
  BY <1>1 DEF TypeInv, TypeOK
<1>4. TypeOK'
  BY <1>1, <1>2, <1>3 DEF TypeInv, TypeOK
<1>5. CallFits'
  BY <1>1, <1>2 DEF TypeInv, CallFits
<1> QED  BY <1>4, <1>5 DEF TypeInv

\* Every step keeps the shape of the state.
LEMMA TypeStep ==
    ASSUME TypeInv, [Next]_vars  PROVE  TypeInv'
<1>1. CASE Next
  <2>1. CASE CallBegins
    BY <2>1, CallBeginsTyped
  <2>2. CASE TruncateFree \/ FreeOldMap \/ FreeXattrBlock \/ XattrsInline
    BY <2>2, GivingTyped
  <2>3. CASE TruncateWrite \/ WriteInode \/ ReleaseInode \/ WriteXattrInode
    BY <2>3, WritingTyped
  <2>4. CASE FreeExcess
    BY <2>4, FreeExcessTyped
  <2>5. CASE TakeData
    BY <2>5, TakeDataTyped
  <2>6. CASE StoreData
    BY <2>6, StoreDataTyped
  <2>7. CASE TakeMapBlock
    BY <2>7, TakeMapBlockTyped
  <2>8. CASE XattrsSpillAgain \/ XattrsSpill
    BY <2>8, SpillTyped
  <2>9. CASE Return
    BY <2>9, EndTyped DEF Return, TypeInv, TypeOK
  <2>10. CASE NoSpace \/ TooFragmented \/ Fault
    BY <2>10, GiveUpTyped DEF NoSpace, TooFragmented, Fault
  <2> QED
    BY <1>1, <2>1, <2>2, <2>3, <2>4, <2>5, <2>6, <2>7, <2>8, <2>9, <2>10 DEF Next
<1>2. CASE UNCHANGED vars
  BY <1>2 DEF vars, TypeInv, TypeOK, CallFits
<1> QED  BY <1>1, <1>2

\* The shape of a volume that has just been opened.
LEMMA TypeInit ==
    ASSUME Init  PROVE  TypeInv
<1>1. /\ NoCall \in CallType /\ NoCall.list = <<>> /\ NoCall.meta = <<>>
      /\ NoCall.acl = HOLE /\ NoCall.data = <<>> /\ NoCall.gave = FALSE
      /\ NoCall.file \in Files
  BY NoCallFacts DEF CallType
<1>2. \A f \in Files : /\ InitialLists[f] \in ListType
                       /\ BlocksOf(InitialLists[f]) \subseteq Blocks
  BY InitialAssumption, ListFacts DEF ListType
<1>3. \A f \in Files : Cardinality(BlocksOf(InitialLists[f])) \in Nat
  <2> SUFFICES ASSUME NEW f \in Files
               PROVE  Cardinality(BlocksOf(InitialLists[f])) \in Nat
    OBVIOUS
  <2>1. IsFiniteSet(Blocks)
    BY FS_Interval, SizesAssumption DEF Blocks
  <2> QED  BY <1>2, <2>1, FS_Subset, FS_CardinalityType
<1>4. EmptyInode \in InodeType
  BY EmptyList, SizesAssumption DEF EmptyInode, InodeType, HOLE
<1>5. inode \in [Files -> InodeType]
  BY <1>2, <1>3, <1>4 DEF Init, InodeType
<1>6. used \subseteq Blocks
  BY <1>2 DEF Init
<1>7. TypeOK
  <2>1. /\ call.file \in Files /\ call.list \in ListType /\ call.meta \in Seq(Blocks)
        /\ Len(call.list) <= Len(call.data) /\ call.gave \in BOOLEAN
    <3>1. call = NoCall
      BY DEF Init
    <3>2. call.list = <<>> /\ call.meta = <<>> /\ call.data = <<>> /\ call.gave = FALSE
          /\ call.file \in Files
      BY <1>1, <3>1
    <3>3. Len(call.list) <= Len(call.data)
      BY <3>2
    <3>4. <<>> \in Seq(Blocks) /\ <<>> \in ListType
      BY EmptyList
    <3> QED  BY <3>2, <3>3, <3>4, Zenon
  <2>2. /\ store \in [0 .. BlockCount -> Values \cup {Zero, Other}]
        /\ result = "ok" /\ failures \in 0 .. MaxFailures
        /\ pc = "idle" /\ harm = "none" /\ undercounted = {}
    <3>1. /\ store = [b \in 0 .. BlockCount |-> Other]
          /\ result = "ok" /\ failures = 0
          /\ pc = "idle" /\ harm = "none" /\ undercounted = {}
      BY DEF Init
    <3> QED  BY <3>1, SizesAssumption
  <2> QED  BY <1>5, <1>6, <2>1, <2>2 DEF TypeOK, InodeType
<1>8. CallFits
  BY <1>1 DEF Init, CallFits
<1> QED  BY <1>7, <1>8 DEF TypeInv

\* What TypeOK states, for every number of files and blocks: nothing is ever
\* recorded outside the blocks files may use, and a call's list never outgrows
\* what the call was asked to write.
THEOREM TypeInvariant == Spec => []TypeOK
<1>1. Init => TypeInv
  BY TypeInit
<1>2. TypeInv /\ [Next]_vars => TypeInv'
  BY TypeStep
<1>3. TypeInv => TypeOK
  BY DEF TypeInv
<1> QED  BY <1>1, <1>2, <1>3, PTL DEF Spec

(***************************************************************************)
(* Whose blocks are whose.                                                 *)
(***************************************************************************)

\* The part of Owned that is about the running call and its own file.
Alone ==
    /\ InHand \subseteq used
    /\ Kept \subseteq used
    /\ ~ call.gave => Refs(Running) \subseteq used
    /\ NamedOnce(Running)
    /\ DistinctBlocks(call.list)
    /\ BlocksOf(call.list) \cap Ranged(call.meta) = {}
    /\ pc \in {"take", "map"} =>
          (BlocksOf(call.list) \cup Ranged(call.meta)) \cap Kept = {}
    /\ pc = "attrs" => call.acl \notin Kept

\* A step of a call leaves other files what is theirs when it gives back only
\* what its own file's inode names and records only blocks that were free.
LEMMA FrameOwned ==
    ASSUME TypeInv, Owned, TypeInv', Alone',
           call'.file = call.file,
           \A f \in Others : inode'[f] = inode[f],
           used \ Refs(Running) \subseteq used',
           InHand' \cup Refs(Running)' \subseteq
               Refs(Running) \cup InHand \cup (Blocks \ used)
    PROVE  Owned'
<1>1. call.file \in Files /\ Others' = Others
  BY TypeFacts DEF Others
<1>2. /\ Running = inode[call.file] /\ Running' = inode'[call.file]
      /\ Refs(Running)' = Refs(inode'[call.file])
  BY DEF Running
<1>3. ASSUME NEW f \in Others
      PROVE  /\ Refs(inode'[f]) = Refs(inode[f]) /\ NamedOnce(inode[f])
             /\ Refs(inode[f]) \subseteq used
             /\ Refs(inode[f]) \cap Refs(Running) = {}
             /\ Refs(inode[f]) \cap InHand = {}
  BY <1>1, <1>2 DEF Owned, Others
<1>4. ASSUME NEW f \in Others
      PROVE  /\ Refs(inode'[f]) \subseteq used'
             /\ Refs(inode'[f]) \cap Refs(inode'[call.file]) = {}
             /\ Refs(inode'[f]) \cap InHand' = {}
  BY <1>2, <1>3
<1>5. \A f \in Files : NamedOnce(inode'[f])
  BY <1>2, <1>3 DEF Alone, Others
<1>6. ASSUME NEW f \in Files, NEW g \in Files, f # g
      PROVE  Refs(inode'[f]) \cap Refs(inode'[g]) = {}
  <2>1. CASE f = call.file
    BY <1>4, <1>6, <2>1 DEF Others
  <2>2. CASE g = call.file
    BY <1>4, <1>6, <2>2 DEF Others
  <2>3. CASE f # call.file /\ g # call.file
    <3>1. f \in Others /\ g \in Others
      BY <2>3 DEF Others
    <3> QED  BY <1>3, <1>6, <3>1 DEF Owned
  <2> QED  BY <2>1, <2>2, <2>3
<1> QED  BY <1>1, <1>4, <1>5, <1>6 DEF Alone, Owned

\* The same for what is used: what a step neither keeps nor has in hand, and
\* that is used after it, was another file's before.
LEMMA FrameAccounted ==
    ASSUME Accounted,
           call'.file = call.file,
           \A f \in Others : inode'[f] = inode[f],
           used' \subseteq (used \ (Kept \cup InHand)) \cup Kept' \cup InHand',
           pc' = "return" => InHand' \subseteq Refs(Running)',
           pc' = "acl" => BlocksOf(Running.list)' \cup Running'.meta = {}
    PROVE  Accounted'
<1>1. Others' = Others
  BY DEF Others
<1> DEFINE Theirs == UNION {Refs(inode[f]) : f \in Others}
<1>2. {Refs(inode'[f]) : f \in Others'} = {Refs(inode[f]) : f \in Others}
  BY <1>1
<1>3. Theirs' = Theirs
  BY <1>2
<1>4. used \subseteq Theirs \cup Kept \cup InHand
  BY DEF Accounted
<1>5. used' \subseteq Theirs' \cup Kept' \cup InHand'
  <2> HIDE DEF Theirs
  <2> QED  BY <1>3, <1>4
<1> QED  BY <1>5 DEF Accounted

\* What Owned says of a file's own blocks.
LEMMA OwnFacts ==
    ASSUME TypeInv, Owned
    PROVE  /\ Alone
           /\ Running = inode[call.file] /\ call.file \in Files
           /\ Refs(Running) = BlocksOf(Running.list) \cup Running.meta
                                  \cup ({Running.acl} \ {HOLE})
           /\ BlocksOf(Running.list) \cap Running.meta = {}
           /\ Running.acl \notin BlocksOf(Running.list) \cup Running.meta
           /\ DistinctBlocks(Running.list)
           /\ InHand = BlocksOf(call.list) \cup Ranged(call.meta)
                           \cup ({call.acl} \ {HOLE})
           /\ HOLE \notin BlocksOf(call.list) \cup Ranged(call.meta)
           /\ HOLE \notin BlocksOf(Running.list) \cup Running.meta
<1>1. call.file \in Files /\ Running = inode[call.file]
  BY TypeFacts DEF Running
<1>2. NamedOnce(Running)
  BY <1>1 DEF Owned
<1>3. Alone
  BY <1>2 DEF Owned, Alone
<1>4. HOLE \notin Ranged(call.meta) /\ HOLE \notin Running.meta
  BY TypeFacts, RangedType DEF HOLE, Blocks, InodeType
<1> QED  BY <1>1, <1>2, <1>3, <1>4 DEF Refs, InHand, NamedOnce, DistinctBlocks, BlocksOf

\* A call that begins or ends, with nothing in hand and nothing given back.
LEMMA QuietOwned ==
    ASSUME TypeInv, Owned, TypeInv', ~ call.gave,
           pc' \in {"idle", "truncate", "excess", "inline", "spill"},
           call'.list = <<>>, call'.meta = <<>>, call'.acl = HOLE,
           UNCHANGED <<used, inode>>
    PROVE  /\ Owned'
           /\ Accounted /\ pc \in {"idle", "return"} => Accounted'
<1>1. InHand' = {} /\ Ranged(call.meta)' = {} /\ BlocksOf(call.list)' = {}
  BY EmptyList DEF InHand
<1>2. Kept' = Refs(Running)' /\ DistinctBlocks(call.list)'
  BY DEF Kept, DistinctBlocks
<1>3. \A f \in Files : Refs(inode[f]) \subseteq used
  BY OwnFacts DEF Owned, Others
<1>4. call'.file \in Files /\ Running' = inode[call'.file]
  BY TypeFacts DEF Running, TypeInv, TypeOK
<1>5. Owned'
  <2>1. \A f \in Files : NamedOnce(inode[f])
    BY DEF Owned
  <2>2. \A f, g \in Files : f # g => Refs(inode[f]) \cap Refs(inode[g]) = {}
    BY DEF Owned
  <2>3. Refs(Running)' = Refs(inode[call'.file])
    BY <1>4
  <2> QED  BY <1>1, <1>2, <1>3, <1>4, <2>1, <2>2, <2>3 DEF Owned, Others
<1>6. ASSUME Accounted, pc \in {"idle", "return"}  PROVE  Accounted'
  <2>1. InHand \subseteq Refs(Running) /\ Kept = Refs(Running)
    <3>1. pc = "idle" => InHand = {}
      BY EmptyList DEF TypeInv, CallFits, InHand
    <3> QED  BY <1>6, <3>1 DEF Accounted, Kept
  <2>2. used \subseteq UNION {Refs(inode[f]) : f \in Files}
    BY <1>6, <2>1, OwnFacts DEF Accounted, Others
  <2>3. \A b \in used : b \in Kept' \/ \E f \in Others' : b \in Refs(inode[f])
    BY <1>2, <1>4, <2>2 DEF Others
  <2> QED  BY <1>1, <2>3 DEF Accounted
<1> QED  BY <1>5, <1>6

\* truncate_inode, first half: the contents' blocks go back, the attributes' not.
LEMMA TruncateFreeOwned ==
    ASSUME TypeInv, Owned, TruncateFree, TypeInv'
    PROVE  Owned' /\ (Accounted => Accounted')
<1> DEFINE S == BlocksOf(Running.list) \cup Running.meta
<1>1. /\ pc = "truncate" /\ pc' = "empty" /\ GiveBack(S) /\ used' = used \ S
      /\ UNCHANGED inode
  BY DEF TruncateFree, GiveBack, Free
<1>2. /\ call'.file = call.file /\ call'.list = call.list /\ call'.meta = call.meta
      /\ call'.acl = call.acl /\ call'.gave = (call.gave \/ S # {})
  BY <1>1, GiveBackTyped
<1>3. /\ Running' = Running /\ InHand' = InHand /\ InHand = {}
      /\ Refs(Running)' = Refs(Running)
  BY <1>1, <1>2, EmptyList DEF Running, InHand, TypeInv, CallFits
<1>4. Kept = Refs(Running) /\ Kept' = {Running.acl} \ {HOLE}
  BY <1>1, <1>3 DEF Kept
<1>5. Alone'
  BY <1>1, <1>2, <1>3, <1>4, OwnFacts DEF Alone
<1>6. Owned'
  BY <1>1, <1>2, <1>3, <1>5, FrameOwned, OwnFacts
<1>7. Accounted => Accounted'
  BY <1>1, <1>2, <1>3, <1>4, FrameAccounted, OwnFacts
<1> QED  BY <1>6, <1>7

\* The second half: the inode no longer names them.
LEMMA TruncateWriteOwned ==
    ASSUME TypeInv, Owned, TruncateWrite, TypeInv'
    PROVE  Owned' /\ (Accounted => Accounted')
<1>1. /\ pc = "empty" /\ pc' \in {"acl", "excess"} /\ UNCHANGED used
      /\ inode' = [inode EXCEPT ![call.file] = Emptied(@)]
      /\ call' = [call EXCEPT !.gave = FALSE]
  BY DEF TruncateWrite
<1>2. /\ call'.file = call.file /\ call'.list = call.list /\ call'.meta = call.meta
      /\ call'.acl = call.acl /\ call'.gave = FALSE
  BY <1>1, TypeFacts DEF CallType
<1>3. /\ Running' = Emptied(Running) /\ \A f \in Others : inode'[f] = inode[f]
  BY <1>1, <1>2, TypeFacts DEF Running, Others
<1>4. /\ Running'.list = <<>> /\ Running'.meta = {} /\ Running'.acl = Running.acl
  BY <1>3, TypeFacts DEF Emptied, InodeType
<1>5. Refs(Running)' = {Running.acl} \ {HOLE} /\ NamedOnce(Running)'
  BY <1>4, EmptyList DEF Refs, NamedOnce
<1>6. InHand' = InHand /\ InHand = {}
  BY <1>1, <1>2, EmptyList DEF InHand, TypeInv, CallFits
<1>7. Kept' = Kept /\ Kept = {Running.acl} \ {HOLE}
  BY <1>1, <1>5 DEF Kept
<1>8. Alone'
  BY <1>1, <1>2, <1>5, <1>6, <1>7, OwnFacts DEF Alone
<1>9. Owned'
  BY <1>1, <1>2, <1>3, <1>5, <1>6, <1>8, FrameOwned, OwnFacts
<1>10. Accounted => Accounted'
  BY <1>1, <1>2, <1>3, <1>4, <1>6, <1>7, EmptyList, FrameAccounted
<1> QED  BY <1>9, <1>10

\* write_data's first step: what is past the new end goes back, and the rest of
\* the list is the call's.
LEMMA FreeExcessOwned ==
    ASSUME TypeInv, Owned, FreeExcess, TypeInv'
    PROVE  Owned' /\ (Accounted => Accounted')
<1> DEFINE keep == Smaller(Len(Running.list), Len(call.data))
           list == SubSeq(Running.list, 1, keep)
           past == BlocksOf(SubSeq(Running.list, keep + 1, Len(Running.list)))
<1>1. /\ pc = "excess" /\ pc' = "take" /\ used' = used \ past /\ UNCHANGED inode
      /\ call' = [call EXCEPT !.list = list, !.goal = Last(list),
                              !.at = StoreFrom(keep), !.gave = @ \/ past # {}]
  BY DEF FreeExcess, Free
<1>2. Running.list \in ListType /\ keep \in 0 .. Len(Running.list)
  BY TypeFacts, ListFacts DEF InodeType, Smaller
<1>3. /\ BlocksOf(Running.list) = BlocksOf(list) \cup past
      /\ DistinctBlocks(list) /\ BlocksOf(list) \cap past = {}
  BY <1>2, CutList, OwnFacts
<1> HIDE DEF list, past, keep
<1>4. /\ call'.file = call.file /\ call'.list = list /\ call'.meta = <<>>
      /\ call'.acl = HOLE /\ call'.gave = (call.gave \/ past # {})
  BY <1>1, TypeFacts DEF CallType, TypeInv, CallFits
<1>5. /\ Running' = Running /\ InHand' = BlocksOf(list) /\ InHand = {}
      /\ Refs(Running)' = Refs(Running) /\ BlocksOf(call.list)' = BlocksOf(list)
      /\ Ranged(call.meta)' = {}
  BY <1>1, <1>4, EmptyList DEF Running, InHand, TypeInv, CallFits
<1>6. Kept = Refs(Running) /\ Kept' = Running.meta \cup ({Running.acl} \ {HOLE})
  BY <1>1, <1>5 DEF Kept
<1>7. Alone'
  <2>1. InHand' \subseteq used' /\ Kept' \subseteq used' /\ BlocksOf(list) \cap Kept' = {}
    BY <1>1, <1>3, <1>5, <1>6, OwnFacts DEF Alone
  <2>2. ~ call'.gave => Refs(Running)' \subseteq used'
    BY <1>1, <1>4, <1>5, OwnFacts DEF Alone
  <2>3. NamedOnce(Running)' /\ DistinctBlocks(call.list)'
    BY <1>3, <1>4, <1>5, OwnFacts DEF Alone
  <2> QED  BY <1>1, <1>5, <2>1, <2>2, <2>3 DEF Alone
<1>8. Owned'
  BY <1>1, <1>3, <1>4, <1>5, <1>7, FrameOwned, OwnFacts
<1>9. Accounted => Accounted'
  BY <1>1, <1>3, <1>4, <1>5, <1>6, FrameAccounted, OwnFacts
<1> QED  BY <1>8, <1>9

\* A block taken for data was nobody's, and is only the call's.
LEMMA TakeDataOwned ==
    ASSUME TypeInv, Owned, TakeData, TypeInv'
    PROVE  Owned' /\ (Accounted => Accounted')
<1> DEFINE b == AllocFrom(DataGoal)
<1>1. /\ pc = "take" /\ pc' = "take" /\ used' = used \cup {b} /\ UNCHANGED inode
      /\ call' = [call EXCEPT !.list = Append(@, b)]
  BY DEF TakeData, WantsBlock
<1>2. b \in Blocks /\ b \notin used
  BY AllocIsFree DEF TakeData
<1> HIDE DEF b
<1>3. /\ call'.file = call.file /\ call'.list = Append(call.list, b)
      /\ call'.meta = call.meta /\ call'.acl = call.acl /\ call'.gave = call.gave
  BY <1>1, TypeFacts DEF CallType
<1>4. /\ BlocksOf(call.list)' = BlocksOf(call.list) \cup {b}
      /\ DistinctBlocks(call.list) /\ b \notin BlocksOf(call.list)
            => DistinctBlocks(call.list)'
  BY <1>2, <1>3, AppendBlock, TypeFacts
<1>5. /\ Running' = Running /\ InHand' = InHand \cup {b}
      /\ Refs(Running)' = Refs(Running) /\ Ranged(call.meta)' = Ranged(call.meta)
  BY <1>1, <1>3, <1>4 DEF Running, InHand
<1>6. Kept' = Kept
  BY <1>1, <1>5 DEF Kept
<1>7. Alone'
  BY <1>1, <1>2, <1>3, <1>4, <1>5, <1>6, OwnFacts DEF Alone
<1>8. Owned'
  BY <1>1, <1>2, <1>3, <1>5, <1>7, FrameOwned
<1>9. Accounted => Accounted'
  BY <1>1, <1>3, <1>5, <1>6, FrameAccounted
<1> QED  BY <1>8, <1>9

\* Storing a block changes nobody's blocks.
LEMMA StoreDataOwned ==
    ASSUME TypeInv, Owned, StoreData, TypeInv'
    PROVE  Owned' /\ (Accounted => Accounted')
<1>1. /\ pc = "take" /\ UNCHANGED <<used, inode, pc>>
      /\ call' = [call EXCEPT !.at = @ + 1]
  BY DEF StoreData
<1>2. /\ call'.file = call.file /\ call'.list = call.list /\ call'.meta = call.meta
      /\ call'.acl = call.acl /\ call'.gave = call.gave
  BY <1>1, TypeFacts DEF CallType
<1>3. /\ Running' = Running /\ InHand' = InHand /\ Refs(Running)' = Refs(Running)
  BY <1>1, <1>2 DEF Running, InHand
<1>4. Kept' = Kept
  BY <1>1, <1>3 DEF Kept
<1>5. Alone'
  BY <1>1, <1>2, <1>3, <1>4, OwnFacts DEF Alone
<1>6. Owned'
  BY <1>1, <1>2, <1>3, <1>5, FrameOwned
<1>7. Accounted => Accounted'
  BY <1>1, <1>2, <1>3, <1>4, FrameAccounted
<1> QED  BY <1>6, <1>7

\* write_block_list: the old map goes back before the new one is taken.
LEMMA FreeOldMapOwned ==
    ASSUME TypeInv, Owned, FreeOldMap, TypeInv'
    PROVE  Owned' /\ (Accounted => Accounted')
<1> DEFINE S == Running.meta
<1>1. /\ pc = "take" /\ pc' = "map" /\ GiveBack(S) /\ used' = used \ S
      /\ UNCHANGED inode
  BY DEF FreeOldMap, GiveBack, Free, OldMapOf
<1>2. /\ call'.file = call.file /\ call'.list = call.list /\ call'.meta = call.meta
      /\ call'.acl = call.acl /\ call'.gave = (call.gave \/ S # {})
  BY <1>1, GiveBackTyped
<1>3. /\ Running' = Running /\ InHand' = InHand /\ InHand = BlocksOf(call.list)
      /\ Refs(Running)' = Refs(Running) /\ Ranged(call.meta)' = {}
  BY <1>1, <1>2, EmptyList DEF Running, InHand, TypeInv, CallFits
<1>4. /\ Kept = Running.meta \cup ({Running.acl} \ {HOLE})
      /\ Kept' = {Running.acl} \ {HOLE}
  BY <1>1, <1>3 DEF Kept
<1>5. Alone'
  <2>1. InHand' \subseteq used' /\ Kept' \subseteq used' /\ InHand' \cap Kept' = {}
    BY <1>1, <1>3, <1>4, OwnFacts DEF Alone
  <2>2. ~ call'.gave => Refs(Running)' \subseteq used'
    BY <1>1, <1>2, <1>3, OwnFacts DEF Alone
  <2> QED  BY <1>1, <1>2, <1>3, <2>1, <2>2, OwnFacts DEF Alone
<1>6. Owned'
  BY <1>1, <1>2, <1>3, <1>5, FrameOwned, OwnFacts
<1>7. Accounted => Accounted'
  BY <1>1, <1>2, <1>3, <1>4, FrameAccounted, OwnFacts
<1> QED  BY <1>6, <1>7

\* A map block that is taken was nobody's, and is only the call's.
LEMMA TakeMapBlockOwned ==
    ASSUME TypeInv, Owned, TakeMapBlock, TypeInv'
    PROVE  Owned' /\ (Accounted => Accounted')
<1> DEFINE b == AllocFrom(MapGoal)
<1>1. /\ pc = "map" /\ pc' = "map" /\ used' = used \cup {b} /\ UNCHANGED inode
      /\ call' = [call EXCEPT !.meta = Append(@, b)]
  BY DEF TakeMapBlock
<1>2. b \in Blocks /\ b \notin used
  BY AllocIsFree DEF TakeMapBlock
<1> HIDE DEF b
<1>3. /\ call'.file = call.file /\ call'.meta = Append(call.meta, b)
      /\ call'.list = call.list /\ call'.acl = call.acl /\ call'.gave = call.gave
  BY <1>1, TypeFacts DEF CallType
<1>4. Ranged(call.meta)' = Ranged(call.meta) \cup {b}
  BY <1>2, <1>3, AppendMapBlock, TypeFacts
<1>5. /\ Running' = Running /\ InHand' = InHand \cup {b}
      /\ Refs(Running)' = Refs(Running) /\ BlocksOf(call.list)' = BlocksOf(call.list)
  BY <1>1, <1>3, <1>4 DEF Running, InHand
<1>6. Kept' = Kept
  BY <1>1, <1>5 DEF Kept
<1>7. Alone'
  BY <1>1, <1>2, <1>3, <1>4, <1>5, <1>6, OwnFacts DEF Alone
<1>8. Owned'
  BY <1>1, <1>2, <1>3, <1>5, <1>7, FrameOwned
<1>9. Accounted => Accounted'
  BY <1>1, <1>3, <1>5, <1>6, FrameAccounted
<1> QED  BY <1>8, <1>9

\* What the call had in hand is its file's.
LEMMA WriteInodeOwned ==
    ASSUME TypeInv, Owned, WriteInode, TypeInv'
    PROVE  Owned' /\ (Accounted => Accounted')
<1>1. /\ pc = "map" /\ pc' = "return" /\ UNCHANGED used
      /\ inode' = [inode EXCEPT ![call.file] =
                      [@ EXCEPT !.list = call.list, !.meta = Ranged(call.meta),
                                !.blocks = CountBlocks(call.list, call.meta)]]
      /\ call' = [call EXCEPT !.gave = FALSE]
  BY DEF WriteInode
<1>2. /\ call'.file = call.file /\ call'.list = call.list /\ call'.meta = call.meta
      /\ call'.acl = call.acl /\ call'.gave = FALSE /\ call.acl = HOLE
  BY <1>1, TypeFacts DEF CallType, TypeInv, CallFits
<1>3. /\ \A f \in Others : inode'[f] = inode[f]
      /\ Running' = [Running EXCEPT !.list = call.list, !.meta = Ranged(call.meta),
                          !.blocks = CountBlocks(call.list, call.meta)]
  BY <1>1, <1>2, TypeFacts DEF Running, Others
<1>4. /\ Running'.list = call.list /\ Running'.meta = Ranged(call.meta)
      /\ Running'.acl = Running.acl
  BY <1>3, TypeFacts DEF InodeType
<1>5. InHand' = InHand /\ InHand = BlocksOf(call.list) \cup Ranged(call.meta)
  BY <1>2 DEF InHand
<1>6. Kept = {Running.acl} \ {HOLE} /\ Kept' = Refs(Running)'
  BY <1>1 DEF Kept
<1>7. Refs(Running)' = InHand \cup Kept
  BY <1>4, <1>5, <1>6 DEF Refs
<1>8. NamedOnce(Running)'
  <2>1. BlocksOf(call.list) \cap Ranged(call.meta) = {} /\ DistinctBlocks(call.list)
    BY OwnFacts DEF Alone
  <2>2. Running.acl \notin BlocksOf(call.list) \cup Ranged(call.meta)
    BY <1>1, <1>6, OwnFacts DEF Alone
  <2> QED  BY <1>4, <2>1, <2>2 DEF NamedOnce, DistinctBlocks
<1>9. Alone'
  BY <1>1, <1>2, <1>5, <1>6, <1>7, <1>8, OwnFacts DEF Alone
<1>10. Owned'
  BY <1>1, <1>2, <1>3, <1>5, <1>6, <1>7, <1>9, FrameOwned, OwnFacts
<1>11. Accounted => Accounted'
  BY <1>1, <1>2, <1>3, <1>5, <1>6, <1>7, FrameAccounted
<1> QED  BY <1>10, <1>11

\* The attributes' block of a file that is removed is its last.
LEMMA FreeXattrBlockOwned ==
    ASSUME TypeInv, Owned, FreeXattrBlock, TypeInv'
    PROVE  Owned' /\ (Accounted => Accounted')
<1> DEFINE S == {Running.acl} \ {HOLE}
<1>1. /\ pc = "acl" /\ pc' = "release" /\ GiveBack(S) /\ used' = used \ S
      /\ UNCHANGED inode
  BY DEF FreeXattrBlock, GiveBack, Free
<1>2. /\ call'.file = call.file /\ call'.list = call.list /\ call'.meta = call.meta
      /\ call'.acl = call.acl /\ call'.gave = (call.gave \/ S # {})
  BY <1>1, GiveBackTyped
<1>3. /\ Running' = Running /\ InHand' = InHand /\ InHand = {}
      /\ Refs(Running)' = Refs(Running)
  BY <1>1, <1>2, EmptyList DEF Running, InHand, TypeInv, CallFits
<1>4. Kept = Refs(Running) /\ Kept' = {}
  BY <1>1, <1>3 DEF Kept
<1>5. Alone'
  BY <1>1, <1>2, <1>3, <1>4, OwnFacts DEF Alone
<1>6. Owned'
  BY <1>1, <1>2, <1>3, <1>5, FrameOwned, OwnFacts
<1>7. ASSUME Accounted  PROVE  Accounted'
  <2>1. Kept = S
    BY <1>1, <1>4, <1>7, OwnFacts DEF Accounted
  <2> QED  BY <1>1, <1>2, <1>3, <1>4, <1>7, <2>1, FrameAccounted
<1> QED  BY <1>6, <1>7

\* An inode that is released names nothing.
LEMMA ReleaseInodeOwned ==
    ASSUME TypeInv, Owned, ReleaseInode, TypeInv'
    PROVE  Owned' /\ (Accounted => Accounted')
<1>1. /\ pc = "release" /\ pc' = "return" /\ UNCHANGED used
      /\ inode' = [inode EXCEPT ![call.file] = EmptyInode]
      /\ call' = [call EXCEPT !.gave = FALSE]
  BY DEF ReleaseInode
<1>2. /\ call'.file = call.file /\ call'.list = call.list /\ call'.meta = call.meta
      /\ call'.acl = call.acl /\ call'.gave = FALSE
  BY <1>1, TypeFacts DEF CallType
<1>3. /\ Running' = EmptyInode /\ \A f \in Others : inode'[f] = inode[f]
  BY <1>1, <1>2, TypeFacts DEF Running, Others
<1>4. Refs(Running)' = {} /\ NamedOnce(Running)'
  BY <1>3, EmptyList DEF Refs, NamedOnce, EmptyInode
<1>5. InHand' = {} /\ InHand = {}
  BY <1>1, <1>2, EmptyList DEF InHand, TypeInv, CallFits
<1>6. Kept = {} /\ Kept' = {}
  BY <1>1, <1>4 DEF Kept
<1>7. Alone'
  BY <1>1, <1>2, <1>4, <1>5, <1>6, OwnFacts DEF Alone
<1>8. Owned'
  BY <1>1, <1>2, <1>3, <1>4, <1>5, <1>7, FrameOwned
<1>9. Accounted => Accounted'
  BY <1>1, <1>2, <1>3, <1>5, <1>6, FrameAccounted
<1> QED  BY <1>8, <1>9

\* Attributes move into the inode: their block goes back.
LEMMA XattrsInlineOwned ==
    ASSUME TypeInv, Owned, XattrsInline, TypeInv'
    PROVE  Owned' /\ (Accounted => Accounted')
<1> DEFINE S == {Running.acl} \ {HOLE}
<1>1. /\ pc = "inline" /\ pc' = "attrs" /\ GiveBack(S) /\ used' = used \ S
      /\ UNCHANGED inode
  BY DEF XattrsInline, GiveBack, Free
<1>2. /\ call'.file = call.file /\ call'.list = call.list /\ call'.meta = call.meta
      /\ call'.acl = call.acl /\ call'.gave = (call.gave \/ S # {}) /\ call.acl = HOLE
  BY <1>1, GiveBackTyped DEF TypeInv, CallFits
<1>3. /\ Running' = Running /\ InHand' = InHand /\ InHand = {}
      /\ Refs(Running)' = Refs(Running)
  BY <1>1, <1>2, EmptyList DEF Running, InHand, TypeInv, CallFits
<1>4. Kept = Refs(Running) /\ Kept' = BlocksOf(Running.list) \cup Running.meta
  BY <1>1, <1>3 DEF Kept
<1>5. Alone'
  BY <1>1, <1>2, <1>3, <1>4, OwnFacts DEF Alone
<1>6. Owned'
  BY <1>1, <1>2, <1>3, <1>5, FrameOwned, OwnFacts
<1>7. Accounted => Accounted'
  BY <1>1, <1>2, <1>3, <1>4, FrameAccounted, OwnFacts
<1> QED  BY <1>6, <1>7

\* Attributes are written again to the block they had.
LEMMA XattrsSpillAgainOwned ==
    ASSUME TypeInv, Owned, XattrsSpillAgain, TypeInv'
    PROVE  Owned' /\ (Accounted => Accounted')
<1>1. /\ pc = "spill" /\ pc' = "attrs" /\ UNCHANGED <<used, inode>>
      /\ Running.acl # HOLE /\ call' = [call EXCEPT !.acl = Running.acl]
  BY DEF XattrsSpillAgain
<1>2. /\ call'.file = call.file /\ call'.list = call.list /\ call'.meta = call.meta
      /\ call'.acl = Running.acl /\ call'.gave = call.gave
  BY <1>1, TypeFacts DEF CallType
<1>3. /\ Running' = Running /\ InHand' = {Running.acl} /\ InHand = {}
      /\ Refs(Running)' = Refs(Running)
      /\ BlocksOf(call.list)' = {} /\ Ranged(call.meta)' = {}
  BY <1>1, <1>2, EmptyList DEF Running, InHand, TypeInv, CallFits
<1>4. Kept = Refs(Running) /\ Kept' = BlocksOf(Running.list) \cup Running.meta
  BY <1>1, <1>3 DEF Kept
<1>5. Alone'
  BY <1>1, <1>2, <1>3, <1>4, OwnFacts DEF Alone
<1>6. Owned'
  BY <1>1, <1>2, <1>3, <1>5, FrameOwned, OwnFacts
<1>7. Accounted => Accounted'
  BY <1>1, <1>2, <1>3, <1>4, FrameAccounted, OwnFacts
<1> QED  BY <1>6, <1>7

\* Attributes move to a block that was nobody's.
LEMMA XattrsSpillOwned ==
    ASSUME TypeInv, Owned, XattrsSpill, TypeInv'
    PROVE  Owned' /\ (Accounted => Accounted')
<1> DEFINE b == AllocFrom(0)
<1>1. /\ pc = "spill" /\ pc' = "attrs" /\ used' = used \cup {b} /\ UNCHANGED inode
      /\ Running.acl = HOLE /\ call' = [call EXCEPT !.acl = b]
  BY DEF XattrsSpill
<1>2. b \in Blocks /\ b \notin used
  BY AllocIsFree DEF XattrsSpill
<1> HIDE DEF b
<1>3. /\ call'.file = call.file /\ call'.list = call.list /\ call'.meta = call.meta
      /\ call'.acl = b /\ call'.gave = call.gave /\ b # HOLE
  BY <1>1, <1>2, TypeFacts DEF CallType, Blocks, HOLE
<1>4. /\ Running' = Running /\ InHand' = {b} /\ InHand = {}
      /\ Refs(Running)' = Refs(Running)
      /\ BlocksOf(call.list)' = {} /\ Ranged(call.meta)' = {}
  BY <1>1, <1>3, EmptyList DEF Running, InHand, TypeInv, CallFits
<1>5. Kept = Refs(Running) /\ Kept' = BlocksOf(Running.list) \cup Running.meta
  BY <1>1, <1>4 DEF Kept
<1>6. Alone'
  BY <1>1, <1>2, <1>3, <1>4, <1>5, OwnFacts DEF Alone
<1>7. Owned'
  BY <1>1, <1>2, <1>3, <1>4, <1>6, FrameOwned, OwnFacts
<1>8. Accounted => Accounted'
  BY <1>1, <1>2, <1>3, <1>4, <1>5, FrameAccounted, OwnFacts
<1> QED  BY <1>7, <1>8

\* The inode names the block its attributes are in.
LEMMA WriteXattrInodeOwned ==
    ASSUME TypeInv, Owned, WriteXattrInode, TypeInv'
    PROVE  Owned' /\ (Accounted => Accounted')
<1>1. /\ pc = "attrs" /\ pc' = "return" /\ UNCHANGED used
      /\ inode' = [inode EXCEPT ![call.file] =
                      [@ EXCEPT !.acl = call.acl,
                                !.blocks = CountXattrs(Running, call.acl)]]
      /\ call' = [call EXCEPT !.gave = FALSE]
  BY DEF WriteXattrInode
<1>2. /\ call'.file = call.file /\ call'.list = call.list /\ call'.meta = call.meta
      /\ call'.acl = call.acl /\ call'.gave = FALSE
  BY <1>1, TypeFacts DEF CallType
<1>3. /\ \A f \in Others : inode'[f] = inode[f]
      /\ Running' = [Running EXCEPT !.acl = call.acl,
                                    !.blocks = CountXattrs(Running, call.acl)]
  BY <1>1, <1>2, TypeFacts DEF Running, Others
<1>4. /\ Running'.list = Running.list /\ Running'.meta = Running.meta
      /\ Running'.acl = call.acl
  BY <1>3, TypeFacts DEF InodeType
<1>5. InHand' = InHand /\ InHand = {call.acl} \ {HOLE}
  BY <1>1, <1>2, EmptyList DEF InHand, TypeInv, CallFits
<1>6. Kept = BlocksOf(Running.list) \cup Running.meta /\ Kept' = Refs(Running)'
  BY <1>1 DEF Kept
<1>7. Refs(Running)' = InHand \cup Kept
  BY <1>4, <1>5, <1>6 DEF Refs
<1>8. NamedOnce(Running)'
  <2>1. call.acl \notin Kept
    BY <1>1, OwnFacts DEF Alone
  <2> QED  BY <1>4, <1>6, <2>1, OwnFacts DEF NamedOnce, DistinctBlocks
<1>9. Alone'
  BY <1>1, <1>2, <1>5, <1>6, <1>7, <1>8, OwnFacts DEF Alone
<1>10. Owned'
  BY <1>1, <1>2, <1>3, <1>5, <1>6, <1>7, <1>9, FrameOwned, OwnFacts
<1>11. Accounted => Accounted'
  BY <1>1, <1>2, <1>3, <1>5, <1>6, <1>7, FrameAccounted
<1> QED  BY <1>10, <1>11

\* A call that begins finds nothing in hand, and every block a file's.
LEMMA CallBeginsOwned ==
    ASSUME TypeInv, Owned, CallBegins, TypeInv'
    PROVE  Owned' /\ (Accounted => Accounted')
<1>1. PICK op, f, data, first :
        /\ Start(op, f, data, first)
        /\ first \in {"truncate", "excess", "inline", "spill"}
  BY DEF CallBegins, AppendTo, WriteAt, Replace, Stream, Remove, SetXattrs
<1>2. /\ pc = "idle" /\ pc' = first /\ UNCHANGED <<used, inode>>
      /\ call' = [NoCall EXCEPT !.op = op, !.file = f, !.data = data]
  BY <1>1 DEF Start, Idle
<1>3. call'.list = <<>> /\ call'.meta = <<>> /\ call'.acl = HOLE
  BY <1>2, NoCallFacts DEF NoCall
<1>4. ~ call.gave
  BY <1>2 DEF TypeInv, CallFits
<1> QED  BY <1>1, <1>2, <1>3, <1>4, QuietOwned

\* A call that has returned holds nothing.
LEMMA ReturnOwned ==
    ASSUME TypeInv, Owned, Return, TypeInv'
    PROVE  Owned' /\ (Accounted => Accounted')
<1>1. ~ call.gave
  BY DEF Return, TypeInv, CallFits
<1> QED  BY <1>1, NoCallFacts, QuietOwned DEF Return

\* A call that fails having given nothing back leaves every block with its owner.
LEMMA GiveUpOwned ==
    ASSUME TypeInv, Owned, GiveUp, harm' # "torn", TypeInv'  PROVE  Owned'
<1>1. ~ call.gave
  BY DEF GiveUp, TypeInv, TypeOK
<1> QED  BY <1>1, NoCallFacts, QuietOwned DEF GiveUp

\* A volume that has just been opened: every used block is a file's.
LEMMA OwnedInit ==
    ASSUME Init  PROVE  Owned /\ Accounted
<1>1. TypeInv
  BY TypeInit
<1>2. /\ call.list = <<>> /\ call.meta = <<>> /\ call.acl = HOLE /\ pc = "idle"
      /\ used = UNION {BlocksOf(InitialLists[f]) : f \in Files}
  BY NoCallFacts DEF Init
<1>3. ASSUME NEW f \in Files
      PROVE  /\ inode[f].list = InitialLists[f] /\ inode[f].meta = {}
             /\ inode[f].acl = HOLE
  BY DEF Init, EmptyInode
<1>4. ASSUME NEW f \in Files
      PROVE  /\ Refs(inode[f]) = BlocksOf(InitialLists[f]) /\ Refs(inode[f]) \subseteq used
             /\ NamedOnce(inode[f])
  <2>1. Refs(inode[f]) = BlocksOf(InitialLists[f])
    BY <1>3 DEF Refs
  <2>2. \A i, j \in DOMAIN InitialLists[f] :
           i # j /\ InitialLists[f][i] # HOLE => InitialLists[f][i] # InitialLists[f][j]
    BY InitialAssumption
  <2>3. NamedOnce(inode[f])
    BY <1>3, <2>2 DEF NamedOnce, BlocksOf
  <2> QED  BY <1>2, <2>1, <2>3
<1>5. ASSUME NEW f \in Files, NEW g \in Files, f # g
      PROVE  Refs(inode[f]) \cap Refs(inode[g]) = {}
  <2> SUFFICES ASSUME NEW b \in BlocksOf(InitialLists[f]), b \in BlocksOf(InitialLists[g])
               PROVE  FALSE
    BY <1>4
  <2>1. PICK i \in DOMAIN InitialLists[f] : b = InitialLists[f][i] /\ b # HOLE
    BY DEF BlocksOf
  <2>2. PICK j \in DOMAIN InitialLists[g] : b = InitialLists[g][j]
    BY DEF BlocksOf
  <2>3. <<f, i>> # <<g, j>>
    BY <1>5
  <2> QED  BY <2>1, <2>2, <2>3, InitialAssumption
<1>6. InHand = {} /\ Ranged(call.meta) = {} /\ BlocksOf(call.list) = {}
      /\ Kept = Refs(Running) /\ call.file \in Files /\ Running = inode[call.file]
  BY <1>1, <1>2, EmptyList, TypeFacts DEF InHand, Kept, Running
<1>7. Owned
  <2>1. /\ InHand \subseteq used /\ Kept \subseteq used /\ Refs(Running) \subseteq used
        /\ \A f \in Others : Refs(inode[f]) \subseteq used
    BY <1>4, <1>6 DEF Others
  <2>2. /\ \A f \in Files : NamedOnce(inode[f])
        /\ \A f, g \in Files : f # g => Refs(inode[f]) \cap Refs(inode[g]) = {}
        /\ \A f \in Others : Refs(inode[f]) \cap InHand = {}
    BY <1>4, <1>5, <1>6
  <2>3. DistinctBlocks(call.list) /\ BlocksOf(call.list) \cap Ranged(call.meta) = {}
    BY <1>2, <1>6 DEF DistinctBlocks
  <2> QED  BY <1>2, <2>1, <2>2, <2>3 DEF Owned
<1>8. \A b \in used : b \in Kept \/ \E f \in Others : b \in Refs(inode[f])
  BY <1>2, <1>4, <1>6 DEF Others
<1>9. Accounted
  BY <1>2, <1>8 DEF Accounted
<1> QED  BY <1>7, <1>9

\* Every step keeps the inductive invariant.
LEMMA InvStep ==
    ASSUME Inv, [Next]_vars  PROVE  Inv'
<1>1. TypeInv /\ TypeInv'
  BY TypeStep DEF Inv
<1>2. ASSUME UNCHANGED harm, Owned => Owned' /\ (Accounted => Accounted')
      PROVE  Inv'
  BY <1>1, <1>2 DEF Inv
<1>3. CASE Next
  <2>1. CASE CallBegins
    BY <1>1, <1>2, <2>1, CallBeginsOwned DEF CallBegins, Start, AppendTo, WriteAt,
       Replace, Stream, Remove, SetXattrs
  <2>2. CASE TruncateFree
    BY <1>1, <1>2, <2>2, TruncateFreeOwned DEF TruncateFree
  <2>3. CASE TruncateWrite
    BY <1>1, <1>2, <2>3, TruncateWriteOwned DEF TruncateWrite
  <2>4. CASE FreeExcess
    BY <1>1, <1>2, <2>4, FreeExcessOwned DEF FreeExcess
  <2>5. CASE TakeData
    BY <1>1, <1>2, <2>5, TakeDataOwned DEF TakeData
  <2>6. CASE StoreData
    BY <1>1, <1>2, <2>6, StoreDataOwned DEF StoreData
  <2>7. CASE FreeOldMap
    BY <1>1, <1>2, <2>7, FreeOldMapOwned DEF FreeOldMap
  <2>8. CASE TakeMapBlock
    BY <1>1, <1>2, <2>8, TakeMapBlockOwned DEF TakeMapBlock
  <2>9. CASE WriteInode
    BY <1>1, <1>2, <2>9, WriteInodeOwned DEF WriteInode
  <2>10. CASE FreeXattrBlock
    BY <1>1, <1>2, <2>10, FreeXattrBlockOwned DEF FreeXattrBlock
  <2>11. CASE ReleaseInode
    BY <1>1, <1>2, <2>11, ReleaseInodeOwned DEF ReleaseInode
  <2>12. CASE XattrsInline
    BY <1>1, <1>2, <2>12, XattrsInlineOwned DEF XattrsInline
  <2>13. CASE XattrsSpillAgain
    BY <1>1, <1>2, <2>13, XattrsSpillAgainOwned DEF XattrsSpillAgain
  <2>14. CASE XattrsSpill
    BY <1>1, <1>2, <2>14, XattrsSpillOwned DEF XattrsSpill
  <2>15. CASE WriteXattrInode
    BY <1>1, <1>2, <2>15, WriteXattrInodeOwned DEF WriteXattrInode
  <2>16. CASE Return
    BY <1>1, <1>2, <2>16, ReturnOwned DEF Return
  <2>17. CASE NoSpace \/ TooFragmented \/ Fault
    <3>1. GiveUp /\ pc # "idle"
      BY <2>17 DEF NoSpace, TooFragmented, Fault, WantsBlock
    <3>2. harm # "torn"
      BY <1>1, <3>1 DEF TypeInv, CallFits
    <3>3. harm' # "none"
      BY <3>1 DEF GiveUp
    <3> QED  BY <1>1, <3>1, <3>2, <3>3, GiveUpOwned DEF Inv
  <2> QED
    BY <1>3, <2>1, <2>2, <2>3, <2>4, <2>5, <2>6, <2>7, <2>8, <2>9, <2>10, <2>11, <2>12,
       <2>13, <2>14, <2>15, <2>16, <2>17 DEF Next
<1>4. CASE UNCHANGED vars
  <2>1. /\ Running' = Running /\ InHand' = InHand /\ Kept' = Kept /\ Others' = Others
        /\ UNCHANGED <<used, inode, call, pc, harm>>
    BY <1>4 DEF vars, Running, InHand, Kept, Others
  <2> QED  BY <1>1, <1>2, <2>1 DEF Owned, Accounted
<1> QED  BY <1>3, <1>4

\* The inductive invariant: at every step of every call, what the call has taken,
\* what it has kept and what it has given back, beside what the inodes name.
THEOREM InvInvariant == Spec => []Inv
<1>1. Init => Inv
  BY TypeInit, OwnedInit DEF Inv
<1>2. Inv /\ [Next]_vars => Inv'
  BY InvStep
<1> QED  BY <1>1, <1>2, PTL DEF Spec

\* No block an inode names can be handed out again, but for the file being
\* changed, until a call fails after giving blocks back.
THEOREM OwnedBlocksAreUsed == Spec => []OwnedIsUsed
<1>1. Inv => OwnedIsUsed
  BY TypeFacts DEF Inv, Owned, OwnedIsUsed, Others, Running
<1> QED  BY <1>1, InvInvariant, PTL

\* No block is named twice: by two files, as data and map of one, or by an inode
\* and a call that is changing another.
THEOREM BlocksHaveOneOwner == Spec => []OwnedOnce
<1>1. Inv => OwnedOnce
  BY DEF Inv, Owned, OwnedOnce, Others
<1> QED  BY <1>1, InvInvariant, PTL

\* After a call that failed with harm done, no call begins.
LEMMA TornStops ==
    ASSUME TypeInv, harm = "torn", Next  PROVE  FALSE
<1>1. pc = "idle"
  BY DEF TypeInv, CallFits
<1> QED
  BY <1>1 DEF Next, CallBegins, AppendTo, WriteAt, Replace, Stream, Remove,
     SetXattrs, Start, Idle, TruncateFree, TruncateWrite, FreeExcess, TakeData,
     WantsBlock, StoreData, FreeOldMap, TakeMapBlock, WriteInode, FreeXattrBlock,
     ReleaseInode, XattrsInline, XattrsSpillAgain, XattrsSpill, WriteXattrInode,
     Return, NoSpace, TooFragmented, Fault

\* The step that does the harm is the one that gives up.
LEMMA TornBy ==
    ASSUME harm # "torn", harm' = "torn", [Next]_vars
    PROVE  UNCHANGED <<used, inode>>
BY DEF vars, Next, CallBegins, AppendTo, WriteAt, Replace, Stream, Remove,
   SetXattrs, Start, TruncateFree, TruncateWrite, FreeExcess, TakeData,
   StoreData, FreeOldMap, TakeMapBlock, WriteInode, FreeXattrBlock,
   ReleaseInode, XattrsInline, XattrsSpillAgain, XattrsSpill, WriteXattrInode,
   Return, NoSpace, TooFragmented, Fault, GiveUp

\* Wherever a call fails, its own inode is the only one left naming blocks that
\* are free, and no block is named by two inodes.
THEOREM FailedCallTearsOnlyItsFile == Spec => []DamageIsOwn
<1>1. ASSUME TypeInv, Owned  PROVE  DamageIsOwn
  <2>1. /\ call.file \in Files
        /\ \A g \in Files \ {call.file} : Refs(inode[g]) \subseteq used
        /\ \A f, g \in Files : f # g => Refs(inode[f]) \cap Refs(inode[g]) = {}
    BY <1>1, TypeFacts DEF Owned, Others
  <2> QED  BY <2>1 DEF DamageIsOwn
<1>2. Init => DamageIsOwn
  BY <1>1, TypeInit, OwnedInit
<1>3. ASSUME Inv, Inv', DamageIsOwn, [Next]_vars  PROVE  DamageIsOwn'
  <2>1. CASE harm' # "torn"
    <3>1. TypeInv' /\ Owned'
      BY <1>3, <2>1 DEF Inv
    <3>2. /\ call'.file \in Files
          /\ \A g \in Files \ {call'.file} : Refs(inode'[g]) \subseteq used'
          /\ \A f, g \in Files : f # g => Refs(inode'[f]) \cap Refs(inode'[g]) = {}
      BY <3>1 DEF TypeInv, TypeOK, Owned, Others, Refs, BlocksOf
    <3> QED  BY <3>2 DEF DamageIsOwn, Refs, BlocksOf
  <2>2. CASE harm' = "torn"
    <3>1. UNCHANGED <<used, inode>>
      BY <1>3, <2>2, TornStops, TornBy DEF Inv, vars
    <3>2. used' = used /\ \A f \in Files : Refs(inode[f])' = Refs(inode[f])
      BY <3>1 DEF Refs, BlocksOf
    <3>3. PICK f \in Files : \A g \in Files \ {f} : Refs(inode[g]) \subseteq used
      BY <1>3 DEF DamageIsOwn
    <3>4. \A g \in Files \ {f} : (Refs(inode[g]) \subseteq used)'
      BY <3>2, <3>3
    <3>5. \A g, h \in Files : g # h => (Refs(inode[g]) \cap Refs(inode[h]) = {})'
      BY <1>3, <3>2 DEF DamageIsOwn
    <3> QED  BY <3>4, <3>5 DEF DamageIsOwn
  <2> QED  BY <2>1, <2>2
<1>4. Inv /\ [Next]_vars => Inv'
  BY InvStep
<1> QED  BY <1>2, <1>3, <1>4, InvInvariant, PTL DEF Spec

\* While no call has failed, every used block is named by a file between calls.
THEOREM NoBlockLeaks == Spec => []NothingLeaks
<1>1. ASSUME Inv, harm = "none", pc = "idle"
      PROVE  used = UNION {Refs(inode[f]) : f \in Files}
  <2>1. TypeInv /\ Owned /\ Accounted /\ ~ call.gave
    BY <1>1 DEF Inv, TypeInv, CallFits
  <2>2. InHand = {} /\ Kept = Refs(Running)
    BY <1>1, <2>1, EmptyList DEF TypeInv, CallFits, InHand, Kept
  <2>3. \A f \in Files : Refs(inode[f]) \subseteq used
    BY <2>1, OwnFacts DEF Owned, Others
  <2>4. \A b \in used : \E f \in Files : b \in Refs(inode[f])
    BY <2>1, <2>2, OwnFacts DEF Accounted, Others
  <2> QED  BY <2>3, <2>4
<1>2. Inv => NothingLeaks
  BY <1>1 DEF NothingLeaks
<1> QED  BY <1>2, InvInvariant, PTL

(***************************************************************************)
(* Volumes without holes.                                                  *)
(***************************************************************************)
\* Files without holes.  write_at does not keep the contents of one that has.
InitiallyWhole ==
    \A f \in Files : \A i \in DOMAIN InitialLists[f] : InitialLists[f][i] # HOLE

Whole(list) == \A i \in DOMAIN list : list[i] # HOLE

(***************************************************************************)
(* Steps seen from FileStore.                                              *)
(***************************************************************************)

AllContents == [f \in Files |-> Contents(f)]

\* Files read as sequences of what blocks may hold.
LEMMA AllContentsTyped == TypeInv => AllContents \in [Files -> Seq(Pieces)]
BY ContentsTyped DEF AllContents

\* What a file reads as depends on its list and on the blocks in it.
LEMMA SameContents ==
    ASSUME TypeInv, TypeInv', NEW f \in Files, inode'[f].list = inode[f].list,
           \A b \in BlocksOf(inode[f].list) : store'[b] = store[b]
    PROVE  Contents(f)' = Contents(f)
<1>1. \A i \in DOMAIN inode[f].list :
         inode[f].list[i] # HOLE => inode[f].list[i] \in BlocksOf(inode[f].list)
  BY DEF BlocksOf
<1> QED  BY <1>1 DEF Contents

\* While a call that writes or removes runs, no other file changes.
LEMMA RewriteStep ==
    ASSUME TypeInv, TypeInv', call.op \in {"write", "stream", "remove"},
           call'.op = call.op, call'.file = call.file, call'.data = call.data,
           result' = result, \A f \in Others : Contents(f)' = Contents(f)
    PROVE  Promise!Next
<1> DEFINE r == [file |-> call.file, data |-> call.data]
<1>1. Asked = {r} /\ Asked' = {r} /\ r.file = call.file
  BY DEF Asked
<1>2. AllContents' \in [Files -> Seq(Pieces)]
  <2>1. (TypeInv => AllContents \in [Files -> Seq(Pieces)])'
    BY AllContentsTyped, PTL
  <2> QED  BY <2>1
<1>3. \A f \in Files \ {r.file} : AllContents'[f] = AllContents[f]
  BY <1>1 DEF AllContents, Others
<1>4. Promise!Rewrite(r)
  BY <1>1, <1>2, <1>3 DEF Promise!Rewrite, AllContents, Pieces
<1> QED  BY <1>1, <1>4 DEF Promise!Next

\* A step that gives back, writes or takes blocks of the running call and of its
\* file leaves what other files read as.
LEMMA OthersKept ==
    ASSUME TypeInv, TypeInv', Owned,
           NEW S, S \subseteq Refs(Running) \cup InHand \cup (Blocks \ used),
           \A b \in 0 .. BlockCount : b \notin S => store'[b] = store[b],
           \A f \in Others : inode'[f] = inode[f]
    PROVE  \A f \in Others : Contents(f)' = Contents(f)
<1> SUFFICES ASSUME NEW f \in Others  PROVE  Contents(f)' = Contents(f)
  OBVIOUS
<1>1. f \in Files /\ f # call.file /\ call.file \in Files
  BY TypeFacts DEF Others
<1>2. /\ Refs(inode[f]) \subseteq used /\ Refs(inode[f]) \cap InHand = {}
      /\ Refs(inode[f]) \cap Refs(Running) = {}
  BY <1>1 DEF Owned, Running
<1>3. /\ BlocksOf(inode[f].list) \subseteq Refs(inode[f])
      /\ Refs(inode[f]) \subseteq 0 .. BlockCount
  <2>1. Refs(inode[f]) \subseteq Blocks
    BY <1>1, TypeFacts
  <2>2. Blocks \subseteq 0 .. BlockCount
    BY SizesAssumption DEF Blocks
  <2>3. BlocksOf(inode[f].list) \subseteq Refs(inode[f])
    BY DEF Refs
  <2> QED  BY <2>1, <2>2, <2>3
<1>4. \A b \in BlocksOf(inode[f].list) : store'[b] = store[b]
  BY <1>2, <1>3
<1> QED  BY <1>1, <1>4, SameContents

(***************************************************************************)
(* What a call has stored so far.                                          *)
(***************************************************************************)
Asks == {"write", "stream", "remove"}

Stored(n) == \A i \in 1 .. n : store[call.list[i]] = call.data[i]

\* Which call is at which step, and how much of what it was asked for is there.
Written ==
    /\ pc = "idle" => call.op = "none"
    /\ pc \in {"inline", "spill", "attrs"} => call.op = "xattrs"
    /\ pc \in {"truncate", "empty"} => call.op \in Asks
    /\ pc \in {"excess", "take", "map"} => call.op \in {"write", "stream"}
    /\ pc \in {"acl", "release"} => call.op = "remove"
    /\ call.op = "remove" => call.data = <<>>
    /\ \A f \in Files : Whole(inode[f].list)
    /\ Whole(call.list)
    /\ pc = "take" => call.at <= Len(call.list) + 1 /\ Stored(call.at - 1)
    /\ pc = "map" => Len(call.list) = Len(call.data) /\ Stored(Len(call.list))
    /\ pc = "return" /\ call.op \in Asks => Contents(call.file) = call.data

\* A call's request is taken, and nothing has changed yet.
LEMMA StartStep ==
    ASSUME TypeInv, Written, TypeInv',
           NEW op \in {"write", "stream", "remove", "xattrs"}, NEW f \in Files,
           NEW data, op = "remove" => data = <<>>,
           NEW first \in {"truncate", "excess", "inline", "spill"},
           first = "truncate" => op \in Asks,
           first = "excess" => op = "write",
           first \in {"inline", "spill"} => op = "xattrs",
           Start(op, f, data, first)
    PROVE  Written' /\ [Promise!Next]_Promise!vars
<1>1. /\ pc = "idle" /\ pc' = first /\ UNCHANGED <<inode, store, result>>
      /\ call' = [NoCall EXCEPT !.op = op, !.file = f, !.data = data]
  BY DEF Start, Idle
<1>2. call'.op = op /\ call'.file = f /\ call'.data = data /\ call'.list = <<>>
  BY <1>1, NoCallFacts DEF CallType
<1>3. call.op = "none" /\ data \in Seq(Pieces)
  BY <1>1, <1>2 DEF Written, TypeInv, CallFits, CallType, Pieces
<1>4. Written'
  BY <1>1, <1>2 DEF Written, Whole, Asks
<1>5. AllContents' = AllContents
  BY <1>1 DEF AllContents, Contents
<1>6. CASE op = "xattrs"
  BY <1>1, <1>2, <1>3, <1>4, <1>5, <1>6 DEF Asked, AllContents, Promise!vars
<1>7. CASE op # "xattrs"
  <2> DEFINE r == [file |-> f, data |-> data]
  <2>1. Asked = {} /\ Asked' = {r}
    BY <1>2, <1>3, <1>7 DEF Asked
  <2>2. Promise!Call(r)
    <3>1. r \in Promise!Requests
      BY <1>3 DEF Promise!Requests, Pieces
    <3>2. UNCHANGED <<AllContents, result>>
      BY <1>1, <1>5
    <3> QED  BY <2>1, <3>1, <3>2 DEF Promise!Call, AllContents
  <2> QED  BY <1>4, <2>1, <2>2 DEF Promise!Next
<1> QED  BY <1>4, <1>6, <1>7

\* Every way a call may begin.
LEMMA CallBeginsStep ==
    ASSUME TypeInv, Written, CallBegins, TypeInv'
    PROVE  Written' /\ [Promise!Next]_Promise!vars
<1>1. ASSUME NEW f \in Files, NEW v \in Values, AppendTo(f, v)
      PROVE  Written' /\ [Promise!Next]_Promise!vars
  BY <1>1, StartStep DEF AppendTo
<1>2. ASSUME NEW f \in Files, NEW v \in Values, NEW at \in Offsets, WriteAt(f, at, v)
      PROVE  Written' /\ [Promise!Next]_Promise!vars
  <2>1. PICK data : Start("write", f, data, "excess")
    BY <1>2 DEF WriteAt
  <2> QED  BY <2>1, StartStep
<1>3. ASSUME NEW f \in Files, NEW v \in Values, NEW n \in Lengths,
             Replace(f, n, v) \/ Stream(f, n, v)
      PROVE  Written' /\ [Promise!Next]_Promise!vars
  <2>1. PICK op, data : op \in {"write", "stream"} /\ Start(op, f, data, "truncate")
    BY <1>3 DEF Replace, Stream
  <2> QED  BY <2>1, StartStep DEF Asks
<1>4. ASSUME NEW f \in Files, Remove(f)
      PROVE  Written' /\ [Promise!Next]_Promise!vars
  BY <1>4, StartStep DEF Remove, Asks
<1>5. ASSUME NEW f \in Files, NEW inline \in BOOLEAN, SetXattrs(f, inline)
      PROVE  Written' /\ [Promise!Next]_Promise!vars
  BY <1>5, StartStep DEF SetXattrs
<1> QED  BY <1>1, <1>2, <1>3, <1>4, <1>5 DEF CallBegins

(***************************************************************************)
(* The steps of a call that writes or removes.                             *)
(***************************************************************************)

\* truncate_inode gives the contents' blocks back.
LEMMA TruncateFreeStep ==
    ASSUME TypeInv, Owned, Written, TruncateFree, TypeInv'
    PROVE  Written' /\ Promise!Next
<1> DEFINE S == BlocksOf(Running.list) \cup Running.meta
<1>1. /\ pc = "truncate" /\ pc' = "empty" /\ GiveBack(S) /\ UNCHANGED <<inode, result>>
      /\ store' = [b \in DOMAIN store |-> IF b \in S THEN Other ELSE store[b]]
  BY DEF TruncateFree, GiveBack, Free
<1>2. /\ call'.op = call.op /\ call'.file = call.file /\ call'.data = call.data
      /\ call'.list = call.list
  BY <1>1, GiveBackTyped
<1>3. S \subseteq Refs(Running) /\ DOMAIN store = 0 .. BlockCount
  BY DEF Refs, TypeInv, TypeOK
<1>4. \A f \in Others : Contents(f)' = Contents(f)
  BY <1>1, <1>3, OthersKept
<1>5. Promise!Next
  BY <1>1, <1>2, <1>4, RewriteStep DEF Written, Asks
<1>6. Written'
  BY <1>1, <1>2 DEF Written
<1> QED  BY <1>5, <1>6

\* The inode names no contents any more.
LEMMA TruncateWriteStep ==
    ASSUME TypeInv, Owned, Written, TruncateWrite, TypeInv'
    PROVE  Written' /\ Promise!Next
<1>1. /\ pc = "empty" /\ UNCHANGED <<store, result>>
      /\ pc' = IF call.op = "remove" THEN "acl" ELSE "excess"
      /\ inode' = [inode EXCEPT ![call.file] = Emptied(@)]
      /\ call' = [call EXCEPT !.gave = FALSE]
  BY DEF TruncateWrite
<1>2. /\ call'.op = call.op /\ call'.file = call.file /\ call'.data = call.data
      /\ call'.list = call.list
  BY <1>1, TypeFacts DEF CallType
<1>3. \A f \in Others : inode'[f] = inode[f]
  BY <1>1, TypeFacts DEF Others
<1>4. inode'[call.file].list = <<>>
  BY <1>1, TypeFacts DEF Emptied, InodeType
<1>5. \A f \in Others : Contents(f)' = Contents(f)
  BY <1>1, <1>3, OthersKept
<1>6. Promise!Next
  BY <1>1, <1>2, <1>5, RewriteStep DEF Written, Asks
<1>7. \A f \in Files : Whole(inode'[f].list)
  BY <1>3, <1>4 DEF Written, Whole, Others
<1>8. Written'
  BY <1>1, <1>2, <1>7 DEF Written, Asks
<1> QED  BY <1>6, <1>8

\* write_data begins with the blocks the file keeps, and has stored nothing.
LEMMA FreeExcessStep ==
    ASSUME TypeInv, Owned, Written, FreeExcess, TypeInv'
    PROVE  Written' /\ Promise!Next
<1> DEFINE keep == Smaller(Len(Running.list), Len(call.data))
           list == SubSeq(Running.list, 1, keep)
           past == BlocksOf(SubSeq(Running.list, keep + 1, Len(Running.list)))
<1>1. /\ pc = "excess" /\ pc' = "take" /\ UNCHANGED <<inode, result>>
      /\ store' = [b \in DOMAIN store |-> IF b \in past THEN Other ELSE store[b]]
      /\ call' = [call EXCEPT !.list = list, !.goal = Last(list),
                              !.at = StoreFrom(keep), !.gave = @ \/ past # {}]
  BY DEF FreeExcess, Free
<1>2. Running.list \in ListType /\ keep \in 0 .. Len(Running.list)
  BY TypeFacts, ListFacts DEF InodeType, Smaller
<1>3. /\ list \in ListType /\ Len(list) = keep /\ past \subseteq Refs(Running)
      /\ \A i \in 1 .. keep : list[i] = Running.list[i]
  BY <1>2, CutList DEF Refs
<1>4. Whole(Running.list)
  BY TypeFacts DEF Written, Running
<1>5. Whole(list)
  <2>1. DOMAIN list = 1 .. keep /\ DOMAIN Running.list = 1 .. Len(Running.list)
    BY <1>2, <1>3, ListFacts
  <2>2. \A i \in 1 .. keep : i \in 1 .. Len(Running.list)
    BY <1>2, ListFacts
  <2> QED  BY <1>3, <1>4, <2>1, <2>2 DEF Whole
<1> HIDE DEF list, past, keep
<1>6. /\ call'.op = call.op /\ call'.file = call.file /\ call'.data = call.data
      /\ call'.list = list /\ call'.at = 1
  BY <1>1, TypeFacts DEF CallType, StoreFrom
<1>7. DOMAIN store = 0 .. BlockCount
  BY DEF TypeInv, TypeOK
<1>8. \A f \in Others : Contents(f)' = Contents(f)
  BY <1>1, <1>3, <1>7, OthersKept
<1>9. Promise!Next
  BY <1>1, <1>6, <1>8, RewriteStep DEF Written
<1>10. call'.at <= Len(call'.list) + 1 /\ Stored(call.at - 1)'
  <2>1. Len(list) \in Nat
    BY <1>3, ListFacts
  <2> QED  BY <1>6, <2>1 DEF Stored
<1>11. Written'
  BY <1>1, <1>5, <1>6, <1>10 DEF Written, Asks
<1> QED  BY <1>9, <1>11

\* What has been stored stays in place when the list grows.
LEMMA TakeDataStep ==
    ASSUME TypeInv, Owned, Written, TakeData, TypeInv'
    PROVE  Written' /\ Promise!Next
<1> DEFINE b == AllocFrom(DataGoal)
<1>1. /\ pc = "take" /\ pc' = "take" /\ UNCHANGED <<inode, store, result>>
      /\ call' = [call EXCEPT !.list = Append(@, b)]
  BY DEF TakeData, WantsBlock
<1>2. b \in Blocks /\ b # HOLE
  BY AllocIsFree DEF TakeData, Blocks, HOLE
<1> HIDE DEF b
<1>3. /\ call'.op = call.op /\ call'.file = call.file /\ call'.data = call.data
      /\ call'.list = Append(call.list, b) /\ call'.at = call.at
  BY <1>1, TypeFacts DEF CallType
<1>4. /\ call'.list \in ListType /\ Len(call'.list) = Len(call.list) + 1
      /\ \A i \in 1 .. Len(call.list) : call'.list[i] = call.list[i]
      /\ call'.list[Len(call.list) + 1] = b /\ Len(call.list) \in Nat
  BY <1>2, <1>3, AppendBlock, TypeFacts
<1>5. Whole(call.list)'
  <2>1. DOMAIN call'.list = 1 .. Len(call.list) + 1 /\ DOMAIN call.list = 1 .. Len(call.list)
    BY <1>4, ListFacts, TypeFacts
  <2> QED  BY <1>2, <1>4, <2>1 DEF Whole, Written
<1>6. \A f \in Others : Contents(f)' = Contents(f)
  BY <1>1, OthersKept
<1>7. Promise!Next
  BY <1>1, <1>3, <1>6, RewriteStep DEF Written
<1>8. call'.at <= Len(call'.list) + 1 /\ Stored(call.at - 1)'
  <2>1. call.at \in Nat /\ call.at <= Len(call.list) + 1 /\ Stored(call.at - 1)
    BY <1>1, TypeFacts DEF Written
  <2> QED  BY <1>1, <1>3, <1>4, <2>1 DEF Stored
<1>9. Written'
  BY <1>1, <1>3, <1>5, <1>8 DEF Written, Asks
<1> QED  BY <1>7, <1>9

\* A block that is stored is the call's own, and not one it has stored already.
LEMMA StoreDataStep ==
    ASSUME TypeInv, Owned, Written, StoreData, TypeInv'
    PROVE  Written' /\ Promise!Next
<1> DEFINE b == call.list[call.at]
<1>1. /\ pc = "take" /\ pc' = "take" /\ UNCHANGED <<inode, result>>
      /\ call.at <= Len(call.list)
      /\ store' = [store EXCEPT ![b] = call.data[call.at]]
      /\ call' = [call EXCEPT !.at = @ + 1]
  BY DEF StoreData
<1>2. /\ call'.op = call.op /\ call'.file = call.file /\ call'.data = call.data
      /\ call'.list = call.list /\ call'.at = call.at + 1
  BY <1>1, TypeFacts DEF CallType
<1>3. /\ call.at \in Nat /\ call.at # 0 /\ Len(call.list) \in Nat
      /\ DOMAIN call.list = 1 .. Len(call.list) /\ DOMAIN store = 0 .. BlockCount
  BY <1>1, TypeFacts, ListFacts DEF TypeInv, TypeOK, CallFits
<1>4. call.at \in DOMAIN call.list /\ b # HOLE /\ b \in BlocksOf(call.list)
  BY <1>1, <1>3 DEF Written, Whole, BlocksOf
<1>5. b \in InHand /\ b \in 0 .. BlockCount
  BY <1>3, <1>4, ListFacts, TypeFacts DEF InHand
<1>6. \A f \in Others : Contents(f)' = Contents(f)
  <2>1. {b} \subseteq Refs(Running) \cup InHand \cup (Blocks \ used)
    BY <1>5
  <2>2. \A x \in 0 .. BlockCount : x \notin {b} => store'[x] = store[x]
    BY <1>1, <1>3
  <2> QED  BY <1>1, <2>1, <2>2, OthersKept
<1>7. Promise!Next
  BY <1>1, <1>2, <1>6, RewriteStep DEF Written
<1>8. \A i \in 1 .. call.at - 1 : call.list[i] \in 0 .. BlockCount /\ call.list[i] # b
  <2> SUFFICES ASSUME NEW i \in 1 .. call.at - 1
               PROVE  call.list[i] \in 0 .. BlockCount /\ call.list[i] # b
    OBVIOUS
  <2>1. i \in DOMAIN call.list /\ i # call.at
    BY <1>1, <1>3
  <2> QED  BY <1>3, <1>4, <2>1, OwnFacts, ListFacts, TypeFacts DEF Alone, DistinctBlocks
<1>9. Stored(call.at - 1)'
  <2>1. store'[b] = call.data[call.at]
    BY <1>1, <1>3, <1>5
  <2>2. \A i \in 1 .. call.at - 1 : store'[call.list[i]] = call.data[i]
    BY <1>1, <1>3, <1>8 DEF Written, Stored
  <2>3. \A i \in 1 .. call.at : i = call.at \/ i \in 1 .. call.at - 1
    BY <1>3
  <2>4. \A i \in 1 .. call.at : store'[call.list[i]] = call.data[i]
    BY <2>1, <2>2, <2>3
  <2>5. call'.at - 1 = call.at
    BY <1>2, <1>3
  <2> QED  BY <1>2, <2>4, <2>5 DEF Stored
<1>10. Written'
  BY <1>1, <1>2, <1>3, <1>9 DEF Written, Asks, Stored
<1> QED  BY <1>7, <1>10

\* When the old map goes back everything asked for has been stored, in blocks
\* that are not the map's.
LEMMA FreeOldMapStep ==
    ASSUME TypeInv, Owned, Written, FreeOldMap, TypeInv'
    PROVE  Written' /\ Promise!Next
<1> DEFINE S == Running.meta
<1>1. /\ pc = "take" /\ pc' = "map" /\ GiveBack(S) /\ UNCHANGED <<inode, result>>
      /\ store' = [b \in DOMAIN store |-> IF b \in S THEN Other ELSE store[b]]
      /\ call.at > Len(call.data)
  BY DEF FreeOldMap, GiveBack, Free, OldMapOf
<1>2. /\ call'.op = call.op /\ call'.file = call.file /\ call'.data = call.data
      /\ call'.list = call.list
  BY <1>1, GiveBackTyped
<1>3. S \subseteq Refs(Running) /\ DOMAIN store = 0 .. BlockCount
  BY DEF Refs, TypeInv, TypeOK
<1>4. \A f \in Others : Contents(f)' = Contents(f)
  BY <1>1, <1>3, OthersKept
<1>5. Promise!Next
  BY <1>1, <1>2, <1>4, RewriteStep DEF Written
<1>6. Len(call.list) = Len(call.data) /\ call.at - 1 = Len(call.list)
  BY <1>1, TypeFacts DEF Written
<1>7. \A i \in 1 .. Len(call.list) : call.list[i] \in 0 .. BlockCount /\ call.list[i] \notin S
  <2>1. BlocksOf(call.list) \cap S = {}
    BY <1>1, OwnFacts DEF Alone, Kept
  <2> QED  BY <2>1, ListFacts, TypeFacts DEF BlocksOf, Written, Whole
<1>8. Stored(Len(call.list))'
  BY <1>1, <1>2, <1>3, <1>6, <1>7 DEF Written, Stored
<1>9. Written'
  BY <1>1, <1>2, <1>6, <1>8 DEF Written, Asks
<1> QED  BY <1>5, <1>9

\* A map block that is taken is none of those that were stored.
LEMMA TakeMapBlockStep ==
    ASSUME TypeInv, Owned, Written, TakeMapBlock, TypeInv'
    PROVE  Written' /\ Promise!Next
<1> DEFINE b == AllocFrom(MapGoal)
<1>1. /\ pc = "map" /\ pc' = "map" /\ UNCHANGED <<inode, result>>
      /\ store' = [store EXCEPT ![b] = Other]
      /\ call' = [call EXCEPT !.meta = Append(@, b)]
  BY DEF TakeMapBlock
<1>2. b \in Blocks /\ b \notin used
  BY AllocIsFree DEF TakeMapBlock
<1> HIDE DEF b
<1>3. /\ call'.op = call.op /\ call'.file = call.file /\ call'.data = call.data
      /\ call'.list = call.list
  BY <1>1, TypeFacts DEF CallType
<1>4. /\ DOMAIN store = 0 .. BlockCount
      /\ \A x \in 0 .. BlockCount : x # b => store'[x] = store[x]
  BY <1>1 DEF TypeInv, TypeOK
<1>5. \A f \in Others : Contents(f)' = Contents(f)
  <2>1. {b} \subseteq Refs(Running) \cup InHand \cup (Blocks \ used)
    BY <1>2
  <2> QED  BY <1>1, <1>4, <2>1, OthersKept
<1>6. Promise!Next
  BY <1>1, <1>3, <1>5, RewriteStep DEF Written
<1>7. \A i \in 1 .. Len(call.list) : call.list[i] \in 0 .. BlockCount /\ call.list[i] # b
  <2>1. b \notin BlocksOf(call.list) /\ b # HOLE
    BY <1>2, OwnFacts DEF Alone, Blocks, HOLE
  <2> QED  BY <2>1, ListFacts, TypeFacts DEF BlocksOf
<1>8. Stored(Len(call.list))'
  BY <1>1, <1>3, <1>4, <1>7 DEF Written, Stored
<1>9. Written'
  BY <1>1, <1>3, <1>8 DEF Written, Asks
<1> QED  BY <1>6, <1>9

\* The inode that is written names blocks that hold what was asked for.
LEMMA WriteInodeStep ==
    ASSUME TypeInv, Owned, Written, WriteInode, TypeInv'
    PROVE  Written' /\ Promise!Next
<1>1. /\ pc = "map" /\ pc' = "return" /\ UNCHANGED <<store, result>>
      /\ inode' = [inode EXCEPT ![call.file] =
                      [@ EXCEPT !.list = call.list, !.meta = Ranged(call.meta),
                                !.blocks = CountBlocks(call.list, call.meta)]]
      /\ call' = [call EXCEPT !.gave = FALSE]
  BY DEF WriteInode
<1>2. /\ call'.op = call.op /\ call'.file = call.file /\ call'.data = call.data
      /\ call'.list = call.list
  BY <1>1, TypeFacts DEF CallType
<1>3. \A f \in Others : inode'[f] = inode[f]
  BY <1>1, TypeFacts DEF Others
<1>4. inode'[call.file].list = call.list
  BY <1>1, TypeFacts DEF InodeType
<1>5. \A f \in Others : Contents(f)' = Contents(f)
  BY <1>1, <1>3, OthersKept
<1>6. Promise!Next
  BY <1>1, <1>2, <1>5, RewriteStep DEF Written
<1>7. \A f \in Files : Whole(inode'[f].list)
  BY <1>3, <1>4 DEF Written, Others
<1>8. Contents(call.file)' = call.data
  <2>1. /\ DOMAIN call.list = 1 .. Len(call.data) /\ Stored(Len(call.data))
        /\ Whole(call.list)
    BY <1>1, ListFacts, TypeFacts DEF Written
  <2>2. call.data = [i \in 1 .. Len(call.data) |-> call.data[i]]
    BY TypeFacts
  <2>3. Contents(call.file)' = [i \in DOMAIN call.list |->
                                  IF call.list[i] = HOLE THEN Zero ELSE store[call.list[i]]]
    BY <1>1, <1>2, <1>4 DEF Contents
  <2>4. \A i \in 1 .. Len(call.data) :
           (IF call.list[i] = HOLE THEN Zero ELSE store[call.list[i]]) = call.data[i]
    BY <2>1 DEF Stored, Whole
  <2>5. [i \in 1 .. Len(call.data) |->
            IF call.list[i] = HOLE THEN Zero ELSE store[call.list[i]]]
          = [i \in 1 .. Len(call.data) |-> call.data[i]]
    BY <2>4
  <2> QED  BY <2>1, <2>2, <2>3, <2>5
<1>9. Written'
  BY <1>1, <1>2, <1>7, <1>8 DEF Written, Asks
<1> QED  BY <1>6, <1>9

\* The attributes' block of a file that is removed holds no contents.
LEMMA FreeXattrBlockStep ==
    ASSUME TypeInv, Owned, Written, FreeXattrBlock, TypeInv'
    PROVE  Written' /\ Promise!Next
<1> DEFINE S == {Running.acl} \ {HOLE}
<1>1. /\ pc = "acl" /\ pc' = "release" /\ GiveBack(S) /\ UNCHANGED <<inode, result>>
      /\ store' = [b \in DOMAIN store |-> IF b \in S THEN Other ELSE store[b]]
  BY DEF FreeXattrBlock, GiveBack, Free
<1>2. /\ call'.op = call.op /\ call'.file = call.file /\ call'.data = call.data
      /\ call'.list = call.list
  BY <1>1, GiveBackTyped
<1>3. S \subseteq Refs(Running) /\ DOMAIN store = 0 .. BlockCount
  BY DEF Refs, TypeInv, TypeOK
<1>4. \A f \in Others : Contents(f)' = Contents(f)
  BY <1>1, <1>3, OthersKept
<1>5. Promise!Next
  BY <1>1, <1>2, <1>4, RewriteStep DEF Written
<1>6. Written'
  BY <1>1, <1>2 DEF Written
<1> QED  BY <1>5, <1>6

\* A file that is removed reads as empty.
LEMMA ReleaseInodeStep ==
    ASSUME TypeInv, Owned, Written, ReleaseInode, TypeInv'
    PROVE  Written' /\ Promise!Next
<1>1. /\ pc = "release" /\ pc' = "return" /\ UNCHANGED <<store, result>>
      /\ inode' = [inode EXCEPT ![call.file] = EmptyInode]
      /\ call' = [call EXCEPT !.gave = FALSE]
  BY DEF ReleaseInode
<1>2. /\ call'.op = call.op /\ call'.file = call.file /\ call'.data = call.data
      /\ call'.list = call.list
  BY <1>1, TypeFacts DEF CallType
<1>3. \A f \in Others : inode'[f] = inode[f]
  BY <1>1, TypeFacts DEF Others
<1>4. inode'[call.file].list = <<>>
  BY <1>1, TypeFacts DEF EmptyInode
<1>5. \A f \in Others : Contents(f)' = Contents(f)
  BY <1>1, <1>3, OthersKept
<1>6. Promise!Next
  BY <1>1, <1>2, <1>5, RewriteStep DEF Written
<1>7. \A f \in Files : Whole(inode'[f].list)
  BY <1>3, <1>4 DEF Written, Whole, Others
<1>8. Contents(call.file)' = call.data
  <2>1. Contents(call.file)' = [i \in DOMAIN inode'[call.file].list |->
            IF inode'[call.file].list[i] = HOLE THEN Zero
            ELSE store[inode'[call.file].list[i]]]
    BY <1>1, <1>2 DEF Contents
  <2>2. Contents(call.file)' = <<>>
    BY <1>4, <2>1
  <2> QED  BY <1>1, <2>2 DEF Written
<1>9. Written'
  BY <1>1, <1>2, <1>7, <1>8 DEF Written, Asks
<1> QED  BY <1>6, <1>9

(***************************************************************************)
(* The steps of a call that sets attributes: nothing any file reads as     *)
(* changes.                                                                *)
(***************************************************************************)

\* write_xattrs, before its call returns.
LEMMA AttributeStep ==
    ASSUME TypeInv, Owned, Written, TypeInv',
           XattrsInline \/ XattrsSpillAgain \/ XattrsSpill \/ WriteXattrInode
    PROVE  Written' /\ UNCHANGED Promise!vars
<1>1. /\ pc \in {"inline", "spill", "attrs"} /\ pc' \in {"attrs", "return"}
      /\ UNCHANGED result
  BY DEF XattrsInline, XattrsSpillAgain, XattrsSpill, WriteXattrInode
<1>2. /\ call'.op = call.op /\ call'.file = call.file /\ call'.list = call.list
      /\ call'.data = call.data
  <2>1. CASE XattrsInline
    BY <2>1, GiveBackTyped DEF XattrsInline
  <2>2. CASE XattrsSpillAgain \/ XattrsSpill \/ WriteXattrInode
    BY <2>2, TypeFacts DEF XattrsSpillAgain, XattrsSpill, WriteXattrInode, CallType
  <2> QED  BY <2>1, <2>2
<1>3. \A f \in Files : inode'[f].list = inode[f].list
  <2>1. CASE WriteXattrInode
    BY <2>1, TypeFacts DEF WriteXattrInode, InodeType
  <2>2. CASE XattrsInline \/ XattrsSpillAgain \/ XattrsSpill
    BY <2>2 DEF XattrsInline, XattrsSpillAgain, XattrsSpill
  <2> QED  BY <2>1, <2>2
<1>4. PICK S : /\ S \subseteq ({Running.acl} \ {HOLE}) \cup (Blocks \ used)
              /\ \A b \in 0 .. BlockCount : b \notin S => store'[b] = store[b]
  <2>1. DOMAIN store = 0 .. BlockCount
    BY DEF TypeInv, TypeOK
  <2>2. CASE XattrsInline
    BY <2>1, <2>2 DEF XattrsInline, GiveBack, Free
  <2>3. CASE XattrsSpillAgain
    <3>1. \A b \in 0 .. BlockCount : b \notin {Running.acl} => store'[b] = store[b]
      BY <2>1, <2>3 DEF XattrsSpillAgain
    <3> QED  BY <2>3, <3>1 DEF XattrsSpillAgain
  <2>4. CASE XattrsSpill
    <3>1. AllocFrom(0) \in Blocks \ used
      BY <2>4, AllocIsFree DEF XattrsSpill
    <3>2. \A b \in 0 .. BlockCount : b \notin {AllocFrom(0)} => store'[b] = store[b]
      BY <2>1, <2>4 DEF XattrsSpill
    <3> QED  BY <3>1, <3>2
  <2>5. CASE WriteXattrInode
    BY <2>5 DEF WriteXattrInode
  <2> QED  BY <2>2, <2>3, <2>4, <2>5
<1>5. \A f \in Files : Contents(f)' = Contents(f)
  <2>1. \A f \in Others : Contents(f)' = Contents(f)
    <3>1. CASE WriteXattrInode
      <4>1. \A f \in Others : inode'[f] = inode[f]
        BY <3>1, TypeFacts DEF WriteXattrInode, Others
      <4> QED  BY <1>4, <4>1, OwnFacts, OthersKept
    <3>2. CASE XattrsInline \/ XattrsSpillAgain \/ XattrsSpill
      <4>1. \A f \in Others : inode'[f] = inode[f]
        BY <3>2 DEF XattrsInline, XattrsSpillAgain, XattrsSpill
      <4> QED  BY <1>4, <4>1, OwnFacts, OthersKept
    <3> QED  BY <3>1, <3>2
  <2>2. \A b \in BlocksOf(Running.list) : b \in 0 .. BlockCount /\ b \notin S
    <3>1. BlocksOf(Running.list) \subseteq used
      <4>1. pc \in {"inline", "spill", "attrs"} => BlocksOf(Running.list) \subseteq Kept
        BY OwnFacts DEF Kept
      <4> QED  BY <1>1, <4>1, OwnFacts DEF Alone
    <3> QED  BY <1>4, <3>1, OwnFacts, TypeFacts, SizesAssumption DEF Blocks
  <2>3. ASSUME NEW f \in Files, f = call.file  PROVE  Contents(f)' = Contents(f)
    BY <1>3, <1>4, <2>2, <2>3, OwnFacts, SameContents
  <2> QED  BY <2>1, <2>3 DEF Others
<1>6. UNCHANGED <<AllContents, Asked>>
  BY <1>2, <1>5 DEF AllContents, Asked
<1>7. Written'
  BY <1>1, <1>2, <1>3 DEF Written, Asks
<1> QED  BY <1>1, <1>6, <1>7 DEF Promise!vars, AllContents

(***************************************************************************)
(* The end of a call, and every step.                                      *)
(***************************************************************************)

\* A call that returns Ok leaves its file with what was asked for.
LEMMA ReturnStep ==
    ASSUME TypeInv, Written, Return
    PROVE  Written' /\ Promise!Next
<1>1. /\ pc = "return" /\ pc' = "idle" /\ UNCHANGED <<inode, store>>
      /\ call' = NoCall /\ result' = "ok"
  BY DEF Return
<1>2. call'.op = "none" /\ call'.list = <<>> /\ Asked' = {} /\ AllContents' = AllContents
  BY <1>1, NoCallFacts DEF NoCall, Asked, AllContents, Contents
<1>3. Written'
  BY <1>1, <1>2 DEF Written, Whole, Asks
<1>4. CASE call.op \in Asks
  <2> DEFINE r == [file |-> call.file, data |-> call.data]
  <2>1. Asked = {r} /\ r.file = call.file /\ r.data = call.data
    BY <1>4 DEF Asked, Asks
  <2>2. AllContents[call.file] = call.data /\ call.file \in Files
    BY <1>1, <1>4, TypeFacts DEF AllContents, Written
  <2>3. AllContents' = [AllContents EXCEPT ![r.file] = r.data]
    BY <1>2, <2>1, <2>2 DEF AllContents
  <2>4. Promise!Return(r)
    BY <1>1, <1>2, <2>1, <2>3 DEF Promise!Return, AllContents
  <2> QED  BY <1>3, <2>1, <2>4 DEF Promise!Next
<1>5. CASE call.op \notin Asks
  <2>1. Asked = {}
    BY <1>5 DEF Asked, Asks
  <2>2. Promise!OtherCall
    BY <1>1, <1>2, <2>1 DEF Promise!OtherCall, AllContents
  <2> QED  BY <1>3, <2>2 DEF Promise!Next
<1> QED  BY <1>4, <1>5

\* A call that fails leaves its file as it is.
LEMMA GiveUpStep ==
    ASSUME TypeInv, Written, GiveUp
    PROVE  Written' /\ Promise!Next
<1>1. /\ pc' = "idle" /\ UNCHANGED <<inode, store>>
      /\ call' = NoCall /\ result' = "error"
  BY DEF GiveUp
<1>2. call'.op = "none" /\ call'.list = <<>> /\ Asked' = {} /\ AllContents' = AllContents
  BY <1>1, NoCallFacts DEF NoCall, Asked, AllContents, Contents
<1>3. Written'
  BY <1>1, <1>2 DEF Written, Whole, Asks
<1>4. CASE call.op \in Asks
  <2> DEFINE r == [file |-> call.file, data |-> call.data]
  <2>1. Asked = {r}
    BY <1>4 DEF Asked, Asks
  <2>2. Promise!Fail(r)
    BY <1>1, <1>2, <2>1 DEF Promise!Fail, AllContents
  <2> QED  BY <1>3, <2>1, <2>2 DEF Promise!Next
<1>5. CASE call.op \notin Asks
  <2>1. Asked = {}
    BY <1>5 DEF Asked, Asks
  <2>2. Promise!OtherCall
    BY <1>1, <1>2, <2>1 DEF Promise!OtherCall, AllContents
  <2> QED  BY <1>3, <2>2 DEF Promise!Next
<1> QED  BY <1>4, <1>5

\* Every step is a step of FileStore or a stutter.
LEMMA PromiseStep ==
    ASSUME Inv, Written, [Next]_vars
    PROVE  Written' /\ [Promise!Next]_Promise!vars
<1>1. TypeInv /\ TypeInv'
  BY TypeStep DEF Inv
<1>2. CASE Next /\ harm # "torn"
  <2>1. Owned
    BY <1>2 DEF Inv
  <2>2. CASE CallBegins
    BY <1>1, <2>2, CallBeginsStep
  <2>3. CASE TruncateFree
    BY <1>1, <2>1, <2>3, TruncateFreeStep
  <2>4. CASE TruncateWrite
    BY <1>1, <2>1, <2>4, TruncateWriteStep
  <2>5. CASE FreeExcess
    BY <1>1, <2>1, <2>5, FreeExcessStep
  <2>6. CASE TakeData
    BY <1>1, <2>1, <2>6, TakeDataStep
  <2>7. CASE StoreData
    BY <1>1, <2>1, <2>7, StoreDataStep
  <2>8. CASE FreeOldMap
    BY <1>1, <2>1, <2>8, FreeOldMapStep
  <2>9. CASE TakeMapBlock
    BY <1>1, <2>1, <2>9, TakeMapBlockStep
  <2>10. CASE WriteInode
    BY <1>1, <2>1, <2>10, WriteInodeStep
  <2>11. CASE FreeXattrBlock
    BY <1>1, <2>1, <2>11, FreeXattrBlockStep
  <2>12. CASE ReleaseInode
    BY <1>1, <2>1, <2>12, ReleaseInodeStep
  <2>13. CASE XattrsInline \/ XattrsSpillAgain \/ XattrsSpill \/ WriteXattrInode
    BY <1>1, <2>1, <2>13, AttributeStep
  <2>14. CASE Return
    BY <1>1, <2>14, ReturnStep
  <2>15. CASE NoSpace \/ TooFragmented \/ Fault
    BY <1>1, <2>15, GiveUpStep DEF NoSpace, TooFragmented, Fault
  <2> QED
    BY <1>2, <2>2, <2>3, <2>4, <2>5, <2>6, <2>7, <2>8, <2>9, <2>10, <2>11, <2>12, <2>13,
       <2>14, <2>15 DEF Next
<1>3. CASE UNCHANGED vars
  <2>1. /\ UNCHANGED <<AllContents, Asked, result, pc, call, inode, store>>
        /\ \A f \in Files : Contents(f)' = Contents(f)
    BY <1>3 DEF vars, AllContents, Asked, Contents
  <2>2. Written'
    BY <1>1, <2>1, TypeFacts DEF Written, Stored
  <2> QED  BY <2>1, <2>2 DEF Promise!vars, AllContents
<1>4. CASE harm = "torn" /\ Next
  BY <1>1, <1>4, TornStops
<1> QED  BY <1>2, <1>3, <1>4

\* A volume that has just been opened is one FileStore begins with.
LEMMA PromiseInit ==
    ASSUME InitiallyWhole, Init  PROVE  Written /\ Promise!Init
<1>1. /\ call = NoCall /\ pc = "idle" /\ store = [b \in 0 .. BlockCount |-> Other]
      /\ result = "ok"
  BY DEF Init
<1>2. call.op = "none" /\ call.list = <<>> /\ Asked = {}
  BY <1>1, NoCallFacts DEF NoCall, Asked
<1>3. \A f \in Files : inode[f].list = InitialLists[f]
  BY DEF Init, EmptyInode
<1>4. Written
  BY <1>1, <1>2, <1>3 DEF Written, InitiallyWhole, Whole, Asks
<1>5. ASSUME NEW f \in Files, NEW i \in DOMAIN InitialLists[f]
      PROVE  InitialLists[f][i] \in 0 .. BlockCount
  <2>1. InitialLists[f] \in ListType
    BY InitialAssumption DEF ListType
  <2> QED  BY <2>1, ListFacts
<1>6. AllContents = InitialContents
  BY <1>1, <1>3, <1>5 DEF AllContents, Contents, InitialContents
<1> QED  BY <1>1, <1>2, <1>4, <1>6 DEF Promise!Init, AllContents

\* A volume whose files have no holes keeps the promise of FileStore, for every
\* number of files and blocks: a call changes only the file it names, attribute
\* calls change no contents, and a write that returns Ok reads back.
THEOREM FileMapKeepsPromise ==
    ASSUME InitiallyWhole  PROVE  Spec => KeepsPromise
<1>1. Init => Written /\ Promise!Init
  BY PromiseInit
<1>2. Inv /\ Written /\ [Next]_vars => Written' /\ [Promise!Next]_Promise!vars
  BY PromiseStep
<1> QED  BY <1>1, <1>2, InvInvariant, PTL DEF Spec, KeepsPromise, Promise!Spec

(***************************************************************************)
(* i_blocks.                                                               *)
(***************************************************************************)

\* A sequence that repeats nothing has as many members as its length.
LEMMA DistinctCount ==
    ASSUME NEW s, NEW n \in Nat, DOMAIN s = 1 .. n,
           \A i, j \in 1 .. n : i # j => s[i] # s[j]
    PROVE  /\ IsFiniteSet({s[i] : i \in 1 .. n})
           /\ Cardinality({s[i] : i \in 1 .. n}) = n
<1> DEFINE S == {s[i] : i \in 1 .. n}
           F == [i \in 1 .. n |-> s[i]]
<1>1. IsFiniteSet(1 .. n) /\ Cardinality(1 .. n) = n
  BY FS_Interval
<1>2. F \in [1 .. n -> S] /\ (\A i, j \in 1 .. n : F[i] = F[j] => i = j)
      /\ \A x \in S : \E i \in 1 .. n : F[i] = x
  OBVIOUS
<1>3. F \in Bijection(1 .. n, S)
  BY <1>2, Zenon DEF Bijection, Injection, Surjection, IsInjective
<1>4. ExistsBijection(1 .. n, S)
  BY <1>3, Zenon DEF ExistsBijection
<1> QED  BY <1>1, <1>4, FS_Bijection

\* A list without holes that names no block twice names as many as its length.
LEMMA ListCount ==
    ASSUME NEW list \in ListType, Whole(list), DistinctBlocks(list)
    PROVE  Cardinality(BlocksOf(list)) = Len(list)
<1>1. DOMAIN list = 1 .. Len(list) /\ Len(list) \in Nat
  BY ListFacts
<1>2. BlocksOf(list) = {list[i] : i \in 1 .. Len(list)}
  BY <1>1 DEF BlocksOf, Whole
<1>3. \A i, j \in 1 .. Len(list) : i # j => list[i] # list[j]
  BY <1>1 DEF DistinctBlocks, Whole
<1> QED  BY <1>1, <1>2, <1>3, DistinctCount

DistinctMeta == \A i, j \in DOMAIN call.meta : i # j => call.meta[i] # call.meta[j]

\* The map blocks a call has taken are as many as it counts.
LEMMA MetaCount ==
    ASSUME TypeInv, DistinctMeta
    PROVE  Cardinality(Ranged(call.meta)) = Len(call.meta)
<1>1. DOMAIN call.meta = 1 .. Len(call.meta) /\ Len(call.meta) \in Nat
  BY TypeFacts, LenProperties
<1> QED  BY <1>1, DistinctCount DEF DistinctMeta, Ranged

\* i_blocks is right at every step, but for the files whose contents were
\* replaced while they had an attribute block.
Counted ==
    /\ DistinctMeta
    /\ \A f \in Files \ undercounted : inode[f].blocks = BlocksHeld(inode[f])

\* Only the running file's inode is written, with a count that is right.
LEMMA OneInodeCounted ==
    ASSUME Counted, TypeInv, DistinctMeta', undercounted' \cup {call.file} =
               undercounted \cup {call.file},
           \A f \in Others : inode'[f] = inode[f],
           call.file \notin undercounted' =>
               inode'[call.file].blocks = BlocksHeld(inode'[call.file])
    PROVE  Counted'
<1> SUFFICES ASSUME NEW f \in Files \ undercounted'
             PROVE  inode'[f].blocks = BlocksHeld(inode'[f])
  BY DEF Counted, BlocksHeld
<1>1. CASE f = call.file
  BY <1>1
<1>2. CASE f # call.file
  BY <1>2 DEF Counted, Others
<1> QED  BY <1>1, <1>2

\* Steps that write no inode.
LEMMA NoMetaCounted ==
    ASSUME Counted, call'.meta = <<>> \/ call'.meta = call.meta,
           UNCHANGED <<inode, undercounted>>
    PROVE  Counted'
BY DEF Counted, DistinctMeta, BlocksHeld

\* The parts of a count are numbers.
LEMMA HeldParts ==
    ASSUME NEW nd \in InodeType
    PROVE  /\ Cardinality(BlocksOf(nd.list)) \in Nat /\ Cardinality(nd.meta) \in Nat
<1>1. BlockCount \in Nat
  BY SizesAssumption
<1>2. IsFiniteSet(Blocks)
  BY <1>1, FS_Interval DEF Blocks
<1>3. BlocksOf(nd.list) \subseteq Blocks /\ nd.meta \subseteq Blocks
  BY ListFacts DEF InodeType
<1> QED  BY <1>2, <1>3, FS_Subset, FS_CardinalityType

\* An inode without contents and attributes holds nothing.
LEMMA EmptyHolds ==
    ASSUME NEW nd, nd.list = <<>>, nd.meta = {}, nd.acl = HOLE
    PROVE  BlocksHeld(nd) = 0
<1>1. BlocksOf(nd.list) = {} /\ Cardinality({}) = 0
  BY EmptyList, FS_EmptySet
<1>2. BlocksHeld(nd) = 0 + 0 + 0
  BY <1>1, Zenon DEF BlocksHeld
<1> QED  BY <1>2

\* An inode without contents counts none.
LEMMA TruncateWriteCounted ==
    ASSUME TypeInv, Counted, TruncateWrite  PROVE  Counted'
<1>1. /\ inode' = [inode EXCEPT ![call.file] = Emptied(@)]
      /\ undercounted' = IF Running.acl # HOLE
                         THEN undercounted \cup {call.file} ELSE undercounted
      /\ call' = [call EXCEPT !.gave = FALSE]
  BY DEF TruncateWrite
<1>2. DistinctMeta'
  BY <1>1, TypeFacts DEF CallType, Counted, DistinctMeta
<1>3. /\ \A f \in Others : inode'[f] = inode[f]
      /\ inode'[call.file] = Emptied(Running)
  BY <1>1, TypeFacts DEF Others, Running
<1>4. call.file \notin undercounted' =>
         inode'[call.file].blocks = BlocksHeld(inode'[call.file])
  <2>1. call.file \notin undercounted' => Running.acl = HOLE
    BY <1>1
  <2>2. /\ Emptied(Running).list = <<>> /\ Emptied(Running).meta = {}
        /\ Emptied(Running).blocks = 0 /\ Emptied(Running).acl = Running.acl
    BY TypeFacts DEF Emptied, InodeType
  <2> QED  BY <1>3, <2>1, <2>2, EmptyHolds
<1> QED  BY <1>1, <1>2, <1>3, <1>4, OneInodeCounted

\* write_data counts the data and the map, which is all a file without
\* attributes holds.
LEMMA WriteInodeCounted ==
    ASSUME TypeInv, Owned, Written, Counted, WriteInode  PROVE  Counted'
<1>1. /\ inode' = [inode EXCEPT ![call.file] =
                      [@ EXCEPT !.list = call.list, !.meta = Ranged(call.meta),
                                !.blocks = CountBlocks(call.list, call.meta)]]
      /\ undercounted' = IF Running.acl # HOLE
                         THEN undercounted \cup {call.file} ELSE undercounted
      /\ call' = [call EXCEPT !.gave = FALSE]
  BY DEF WriteInode
<1>2. DistinctMeta'
  BY <1>1, TypeFacts DEF CallType, Counted, DistinctMeta
<1>3. /\ \A f \in Others : inode'[f] = inode[f]
      /\ inode'[call.file].list = call.list
      /\ inode'[call.file].meta = Ranged(call.meta)
      /\ inode'[call.file].blocks = Len(call.list) + Len(call.meta)
      /\ inode'[call.file].acl = Running.acl
  BY <1>1, TypeFacts DEF Others, Running, InodeType, CountBlocks
<1>4. call.file \notin undercounted' =>
         inode'[call.file].blocks = BlocksHeld(inode'[call.file])
  <2>1. Cardinality(BlocksOf(call.list)) = Len(call.list)
    BY ListCount, OwnFacts, TypeFacts DEF Written, Alone
  <2>2. Cardinality(Ranged(call.meta)) = Len(call.meta)
    BY MetaCount DEF Counted
  <2>3. Len(call.list) \in Nat /\ Len(call.meta) \in Nat
    BY TypeFacts, LenProperties
  <2>4. call.file \notin undercounted' => Running.acl = HOLE
    BY <1>1
  <2>5. Running.acl = HOLE =>
          BlocksHeld(inode'[call.file]) = Len(call.list) + Len(call.meta) + 0
    BY <1>3, <2>1, <2>2, Zenon DEF BlocksHeld
  <2>6. Len(call.list) + Len(call.meta) + 0 = Len(call.list) + Len(call.meta)
    BY <2>3
  <2> QED  BY <1>3, <2>4, <2>5, <2>6
<1> QED  BY <1>1, <1>2, <1>3, <1>4, OneInodeCounted

\* An inode that is released counts none.
LEMMA ReleaseInodeCounted ==
    ASSUME TypeInv, Counted, ReleaseInode  PROVE  Counted'
<1>1. /\ inode' = [inode EXCEPT ![call.file] = EmptyInode]
      /\ undercounted' = undercounted \ {call.file}
      /\ call' = [call EXCEPT !.gave = FALSE]
  BY DEF ReleaseInode
<1>2. DistinctMeta'
  BY <1>1, TypeFacts DEF CallType, Counted, DistinctMeta
<1>3. \A f \in Others : inode'[f] = inode[f]
  BY <1>1, TypeFacts DEF Others
<1>4. inode'[call.file].blocks = BlocksHeld(inode'[call.file])
  <2>1. inode'[call.file] = EmptyInode
    BY <1>1, TypeFacts
  <2> QED  BY <2>1, EmptyHolds DEF EmptyInode
<1> QED  BY <1>1, <1>2, <1>3, <1>4, OneInodeCounted

\* write_xattrs moves the count by one when the attributes' block comes or goes.
LEMMA WriteXattrInodeCounted ==
    ASSUME TypeInv, Counted, WriteXattrInode  PROVE  Counted'
<1>1. /\ inode' = [inode EXCEPT ![call.file] =
                      [@ EXCEPT !.acl = call.acl,
                                !.blocks = CountXattrs(Running, call.acl)]]
      /\ UNCHANGED undercounted
      /\ call' = [call EXCEPT !.gave = FALSE]
  BY DEF WriteXattrInode
<1>2. DistinctMeta'
  BY <1>1, TypeFacts DEF CallType, Counted, DistinctMeta
<1>3. /\ \A f \in Others : inode'[f] = inode[f]
      /\ inode'[call.file].list = Running.list
      /\ inode'[call.file].meta = Running.meta
      /\ inode'[call.file].blocks = CountXattrs(Running, call.acl)
      /\ inode'[call.file].acl = call.acl
  BY <1>1, TypeFacts DEF Others, Running, InodeType
<1>4. ASSUME call.file \notin undercounted
      PROVE  inode'[call.file].blocks = BlocksHeld(inode'[call.file])
  <2> DEFINE n == Cardinality(BlocksOf(Running.list)) + Cardinality(Running.meta)
  <2>1. /\ Cardinality(BlocksOf(Running.list)) \in Nat
        /\ Cardinality(Running.meta) \in Nat
    BY TypeFacts, HeldParts
  <2>2. n \in Nat
    BY <2>1
  <2>3. Running.blocks = n + (IF Running.acl = HOLE THEN 0 ELSE 1)
    BY <1>4, TypeFacts DEF Counted, Running, BlocksHeld
  <2>4. BlocksHeld(inode'[call.file]) = n + (IF call.acl = HOLE THEN 0 ELSE 1)
    BY <1>3 DEF BlocksHeld
  <2> HIDE DEF n
  <2> QED  BY <1>3, <2>2, <2>3, <2>4 DEF CountXattrs, Over
<1> QED  BY <1>1, <1>2, <1>3, <1>4, OneInodeCounted

\* A map block that is taken is not one the call has already.
LEMMA TakeMapBlockCounted ==
    ASSUME TypeInv, Owned, Counted, TakeMapBlock  PROVE  Counted'
<1> DEFINE b == AllocFrom(MapGoal)
<1>1. UNCHANGED <<inode, undercounted>> /\ call' = [call EXCEPT !.meta = Append(@, b)]
  BY DEF TakeMapBlock
<1>2. b \in Blocks /\ b \notin Ranged(call.meta)
  BY AllocIsFree, OwnFacts DEF TakeMapBlock, Alone
<1> HIDE DEF b
<1>3. call'.meta = Append(call.meta, b)
  BY <1>1, TypeFacts DEF CallType
<1>4. /\ call.meta \in Seq(Blocks) /\ Len(call.meta) \in Nat
      /\ DOMAIN call.meta = 1 .. Len(call.meta)
  BY TypeFacts, LenProperties
<1>5. /\ Len(call'.meta) = Len(call.meta) + 1
      /\ DOMAIN call'.meta = 1 .. Len(call.meta) + 1
      /\ \A i \in 1 .. Len(call.meta) : call'.meta[i] = call.meta[i]
      /\ call'.meta[Len(call.meta) + 1] = b
  BY <1>2, <1>3, <1>4, AppendProperties, LenProperties
<1>6. \A i \in 1 .. Len(call.meta) : call.meta[i] # b
  BY <1>2, <1>4 DEF Ranged
<1>7. DistinctMeta'
  <2>1. \A i, j \in 1 .. Len(call.meta) : i # j => call.meta[i] # call.meta[j]
    BY <1>4 DEF DistinctMeta, Counted
  <2>2. \A i, j \in 1 .. Len(call.meta) : i # j => call'.meta[i] # call'.meta[j]
    BY <1>5, <2>1
  <2>3. \A i \in 1 .. Len(call.meta) : call'.meta[i] # call'.meta[Len(call.meta) + 1]
    BY <1>5, <1>6
  <2>4. \A i \in 1 .. Len(call.meta) + 1 : i \in 1 .. Len(call.meta) \/ i = Len(call.meta) + 1
    BY <1>4
  <2> QED  BY <1>5, <2>2, <2>3, <2>4 DEF DistinctMeta
<1> QED  BY <1>1, <1>7 DEF Counted, BlocksHeld

\* Every step leaves i_blocks right.
LEMMA CountedStep ==
    ASSUME Inv, Written, Counted, [Next]_vars  PROVE  Counted'
<1>1. TypeInv /\ (harm # "torn" => Owned)
  BY DEF Inv
<1>2. CASE TruncateWrite \/ WriteInode \/ ReleaseInode \/ WriteXattrInode \/ TakeMapBlock
  <2>1. harm # "torn"
    BY <1>1, <1>2 DEF TypeInv, CallFits, TruncateWrite, WriteInode, ReleaseInode,
       WriteXattrInode, TakeMapBlock
  <2> QED
    BY <1>1, <1>2, <2>1, TruncateWriteCounted, WriteInodeCounted, ReleaseInodeCounted,
       WriteXattrInodeCounted, TakeMapBlockCounted
<1>3. CASE TruncateFree \/ FreeOldMap \/ FreeXattrBlock \/ XattrsInline
  BY <1>1, <1>3, GiveBackTyped, NoMetaCounted
     DEF TruncateFree, FreeOldMap, FreeXattrBlock, XattrsInline
<1>4. CASE FreeExcess \/ TakeData \/ StoreData \/ XattrsSpillAgain \/ XattrsSpill
  BY <1>1, <1>4, TypeFacts, NoMetaCounted
     DEF FreeExcess, TakeData, StoreData, XattrsSpillAgain, XattrsSpill, CallType
<1>5. CASE CallBegins
  <2>1. PICK op, f, data, first : Start(op, f, data, first)
    BY <1>5 DEF CallBegins, AppendTo, WriteAt, Replace, Stream, Remove, SetXattrs
  <2>2. call'.meta = <<>> /\ UNCHANGED <<inode, undercounted>>
    BY <2>1, NoCallFacts DEF Start, CallType
  <2> QED  BY <2>2, NoMetaCounted
<1>6. CASE Return \/ NoSpace \/ TooFragmented \/ Fault
  BY <1>6, NoCallFacts, NoMetaCounted DEF Return, NoSpace, TooFragmented, Fault, GiveUp
<1>7. CASE UNCHANGED vars
  BY <1>7, NoMetaCounted DEF vars
<1> QED  BY <1>2, <1>3, <1>4, <1>5, <1>6, <1>7 DEF Next

\* i_blocks counts the data, the map and the attribute block of a file between
\* calls, also after calls that failed, unless its contents were replaced while it
\* had an attribute block: for every volume whose files have no holes at first.
THEOREM BlocksStayCounted ==
    ASSUME InitiallyWhole  PROVE  Spec => []BlocksCounted
<1>1. Init => Written /\ Counted
  <2> SUFFICES ASSUME Init  PROVE  Written /\ Counted
    OBVIOUS
  <2>1. call.meta = <<>>
    BY NoCallFacts DEF Init
  <2>2. ASSUME NEW f \in Files  PROVE  inode[f].blocks = BlocksHeld(inode[f])
    <3>1. /\ inode[f].list = InitialLists[f] /\ inode[f].meta = {} /\ inode[f].acl = HOLE
          /\ inode[f].blocks = Cardinality(BlocksOf(InitialLists[f]))
      BY DEF Init, EmptyInode
    <3>2. inode[f].blocks \in Nat
      BY TypeInit, TypeFacts DEF InodeType
    <3> QED  BY <3>1, <3>2, FS_EmptySet DEF BlocksHeld
  <2> QED  BY <2>1, <2>2, PromiseInit DEF Counted, DistinctMeta
<1>2. Inv /\ Written /\ Counted /\ [Next]_vars => Written' /\ Counted'
  BY PromiseStep, CountedStep
<1>3. Counted => BlocksCounted
  BY DEF Counted, BlocksCounted
<1> QED  BY <1>1, <1>2, <1>3, InvInvariant, PTL DEF Spec
=============================================================================
