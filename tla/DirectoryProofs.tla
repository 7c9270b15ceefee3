-------------------------- MODULE DirectoryProofs --------------------------
(***************************************************************************)
(* A directory through its calls, for every set of names, sizes, hashes    *)
(* and limits.  First its blocks one at a time: a block to which a name is *)
(* added (insert_into_block), from which one is cut (remove_from_block),   *)
(* or that is packed afresh (build_block) is tiled by its entries, and a   *)
(* name keeps its place while others come and go; the leaves a rebuild     *)
(* packs (pack_leaves) hold every name once, in hash order.                *)
(* Then the calls.  The invariant: every block is tiled, a name lies in    *)
(* one block, and under an index there are hashes, those the leaves had    *)
(* when the index was planned, between which the names of each leaf lie.   *)
(* The index hides some of them: the first entry of a node carries none.   *)
(* From it: nothing but a rebuild moves an entry, the leaves stay in hash  *)
(* order, and a stored name is found unless a node begins in the middle of *)
(* a run of equal hashes; then the directory is the set of names NameSet   *)
(* promises.                                                               *)
(***************************************************************************)
EXTENDS Directory, Induction, FiniteSetTheorems, SequenceTheorems

(***************************************************************************)
(* Sums over a sequence.                                                   *)
(***************************************************************************)
\* The lengths of a block's entries, and the sizes of names.
SpansOf(block) == [i \in 1 .. Len(block) |-> block[i].span]
SizesOf(seq)   == [i \in 1 .. Len(seq) |-> Size(seq[i])]

\* The lengths of a block's entries add up one after the other.
LEMMA SpansAre ==
    ASSUME NEW E, NEW block \in Seq(E), \A i \in 1 .. Len(block) : block[i].span \in Nat
    PROVE  \E p : Sums(Len(block), SpansOf(block), p) /\ p[Len(block)] = Spans(block)
<1> DEFINE n == Len(block)
           v == SpansOf(block)
           Folds(it) == it = [s \in SUBSET (DOMAIN block) |->
                                IF s = {} THEN 0 ELSE it[s \ {Max(s)}] + block[Max(s)].span]
           c == CHOOSE it : Folds(it)
<1>1. n \in Nat /\ DOMAIN block = 1 .. n /\ v \in [1 .. n -> Nat]
  BY DEF SpansOf
<1>2. \A s \in SUBSET (1 .. n) : s # {} => v[Max(s)] = block[Max(s)].span
  BY <1>1, MaxIs DEF SpansOf
<1>3. Folds(c)
  <2>1. PICK it \in [SUBSET (1 .. n) -> Nat] : SumOf(n, v, it)
    BY <1>1, SumExists
  <2>2. Folds(it)
    BY <1>1, <1>2, <2>1 DEF SumOf
  <2> HIDE DEF Folds
  <2> QED  BY <2>2
<1>4. Spans(block) = c[DOMAIN block]
  BY Zenon DEF Spans, FoldLeft, MapThenFoldSet
<1> HIDE DEF c
<1>5. SumOf(n, v, c)
  BY <1>1, <1>2, <1>3 DEF SumOf
<1> HIDE DEF n, v
<1>6. \E p : Sums(n, v, p) /\ p[n] = c[1 .. n]
  BY <1>1, <1>5, SumSteps
<1> QED  BY <1>1, <1>4, <1>6 DEF n, v

\* And so do the sizes of names.
LEMMA TotalIs ==
    ASSUME NEW E, NEW seq \in Seq(E), \A i \in 1 .. Len(seq) : Size(seq[i]) \in Nat
    PROVE  \E p : Sums(Len(seq), SizesOf(seq), p) /\ p[Len(seq)] = Total(seq)
<1> DEFINE n == Len(seq)
           v == SizesOf(seq)
           Folds(it) == it = [s \in SUBSET (DOMAIN seq) |->
                                IF s = {} THEN 0 ELSE it[s \ {Max(s)}] + Size(seq[Max(s)])]
           c == CHOOSE it : Folds(it)
<1>1. n \in Nat /\ DOMAIN seq = 1 .. n /\ v \in [1 .. n -> Nat]
  BY DEF SizesOf
<1>2. \A s \in SUBSET (1 .. n) : s # {} => v[Max(s)] = Size(seq[Max(s)])
  BY <1>1, MaxIs DEF SizesOf
<1>3. Folds(c)
  <2>1. PICK it \in [SUBSET (1 .. n) -> Nat] : SumOf(n, v, it)
    BY <1>1, SumExists
  <2>2. Folds(it)
    BY <1>1, <1>2, <2>1 DEF SumOf
  <2> HIDE DEF Folds
  <2> QED  BY <2>2
<1>4. Total(seq) = c[DOMAIN seq]
  BY Zenon DEF Total, FoldLeft, MapThenFoldSet
<1> HIDE DEF c
<1>5. SumOf(n, v, c)
  BY <1>1, <1>2, <1>3 DEF SumOf
<1> HIDE DEF n, v
<1>6. \E p : Sums(n, v, p) /\ p[n] = c[1 .. n]
  BY <1>1, <1>5, SumSteps
<1> QED  BY <1>1, <1>4, <1>6 DEF n, v

(***************************************************************************)
(* Sequences with an element more, or less.                                *)
(***************************************************************************)
\* A function on 1 .. n is a sequence.
LEMMA SeqIs ==
    ASSUME NEW S, NEW n \in Nat, NEW s \in [1 .. n -> S]
    PROVE  s \in Seq(S) /\ Len(s) = n /\ DOMAIN s = 1 .. n
OBVIOUS

\* What InsertAt returns.
LEMMA InsertAtIs ==
    ASSUME NEW S, NEW s \in Seq(S), NEW e \in S, NEW i \in 1 .. Len(s) + 1
    PROVE  /\ InsertAt(s, i, e) \in Seq(S) /\ Len(InsertAt(s, i, e)) = Len(s) + 1
           /\ \A k \in 1 .. Len(s) + 1 :
                 InsertAt(s, i, e)[k] = IF k < i THEN s[k] ELSE IF k = i THEN e ELSE s[k - 1]
<1> DEFINE a == SubSeq(s, 1, i - 1)
           b == SubSeq(s, i, Len(s))
<1>0. Len(s) \in Nat /\ i \in Nat \ {0}
  OBVIOUS
<1>1. a \in Seq(S) /\ Len(a) = i - 1 /\ \A k \in 1 .. i - 1 : a[k] = s[k]
  OBVIOUS
<1>2. b \in Seq(S) /\ Len(b) = Len(s) - i + 1 /\ \A k \in 1 .. Len(s) - i + 1 : b[k] = s[i + k - 1]
  OBVIOUS
<1> HIDE DEF a, b
<1>3. (a \o <<e>>) \in Seq(S) /\ Len(a \o <<e>>) = i
      /\ \A k \in 1 .. i : (a \o <<e>>)[k] = IF k < i THEN s[k] ELSE e
  BY <1>1
<1>4. /\ (a \o <<e>> \o b) \in Seq(S) /\ Len(a \o <<e>> \o b) = Len(s) + 1
      /\ \A k \in 1 .. Len(s) + 1 :
            (a \o <<e>> \o b)[k] = IF k < i THEN s[k] ELSE IF k = i THEN e ELSE s[k - 1]
  <2> DEFINE c == a \o <<e>>
  <2> HIDE DEF c
  <2>1. c \in Seq(S) /\ Len(c) = i /\ \A k \in 1 .. i : c[k] = IF k < i THEN s[k] ELSE e
    BY <1>3 DEF c
  <2>2. (c \o b) \in Seq(S) /\ Len(c \o b) = Len(s) + 1
    <3>1. (c \o b) \in Seq(S) /\ Len(c \o b) = Len(c) + Len(b)
      BY <1>2, <2>1, ConcatProperties
    <3> QED  BY <1>0, <1>2, <2>1, <3>1
  <2>3. ASSUME NEW k \in 1 .. Len(s) + 1
        PROVE  (c \o b)[k] = IF k < i THEN s[k] ELSE IF k = i THEN e ELSE s[k - 1]
    <3>1. CASE k <= i
      BY <1>2, <2>1, <3>1
    <3>2. CASE k > i
      <4>1. k - i \in 1 .. Len(s) - i + 1 /\ i + (k - i) - 1 = k - 1
        BY <3>2
      <4>2. (c \o b)[k] = b[k - i]
        BY <1>2, <2>1, <3>2
      <4> QED  BY <1>2, <3>2, <4>1, <4>2
    <3>3. k <= i \/ k > i
      BY <1>0
    <3> QED  BY <3>1, <3>2, <3>3, Zenon
  <2> QED  BY <2>2, <2>3 DEF c
<1> QED  BY <1>4 DEF a, b, InsertAt

\* What RemoveAt returns.
LEMMA RemoveAtIs ==
    ASSUME NEW S, NEW s \in Seq(S), NEW i \in 1 .. Len(s)
    PROVE  /\ RemoveAt(s, i) \in Seq(S) /\ Len(RemoveAt(s, i)) = Len(s) - 1
           /\ \A k \in 1 .. Len(s) - 1 : RemoveAt(s, i)[k] = IF k < i THEN s[k] ELSE s[k + 1]
<1> DEFINE a == SubSeq(s, 1, i - 1)
           b == SubSeq(s, i + 1, Len(s))
<1>0. Len(s) \in Nat /\ i \in Nat \ {0}
  OBVIOUS
<1>1. a \in Seq(S) /\ Len(a) = i - 1 /\ \A k \in 1 .. i - 1 : a[k] = s[k]
  OBVIOUS
<1>2. b \in Seq(S) /\ Len(b) = Len(s) - i /\ \A k \in 1 .. Len(s) - i : b[k] = s[i + k]
  OBVIOUS
<1> HIDE DEF a, b
<1>3. (a \o b) \in Seq(S) /\ Len(a \o b) = Len(s) - 1
  <2>1. (a \o b) \in Seq(S) /\ Len(a \o b) = Len(a) + Len(b)
    BY <1>1, <1>2, ConcatProperties
  <2> QED  BY <1>0, <1>1, <1>2, <2>1
<1>4. ASSUME NEW k \in 1 .. Len(s) - 1
      PROVE  (a \o b)[k] = IF k < i THEN s[k] ELSE s[k + 1]
  <2>1. CASE k < i
    BY <1>1, <1>2, <2>1
  <2>2. CASE k >= i
    <3>1. k - (i - 1) \in 1 .. Len(s) - i /\ i + (k - (i - 1)) = k + 1
      BY <2>2
    <3>2. (a \o b)[k] = b[k - (i - 1)]
      BY <1>0, <1>1, <1>2, <2>2
    <3> QED  BY <1>2, <2>2, <3>1, <3>2
  <2>3. k < i \/ k >= i
    BY <1>0
  <2> QED  BY <2>1, <2>2, <2>3, Zenon
<1> QED  BY <1>3, <1>4 DEF a, b, RemoveAt

(***************************************************************************)
(* A block: entries end to end, none twice, each with room for its name.   *)
(***************************************************************************)
RawEntries == [name : Names \cup {Dead, Dots}, span : Nat \ {0}]

Lawful(block) ==
    /\ block # <<>>
    /\ \A i \in 1 .. Len(block) :
          /\ block[i].span >= Size(block[i].name)
          /\ block[i].name = Dead => i = 1
    /\ \A i, j \in 1 .. Len(block) : block[i].name = block[j].name => i = j

Block(block) == block \in Seq(Entries) /\ Lawful(block) /\ Spans(block) = Limit

\* The sizes of what an entry may hold.
LEMMA Sizes ==
    /\ Limit \in Nat \ {0} /\ Names \subseteq Nat \ {0}
    /\ Dead \notin Names /\ Dots \notin Names /\ Dead # Dots
    /\ Size(Dead) = 0 /\ Size(Dots) \in 1 .. Limit
    /\ \A n \in Names : Size(n) = Need[n] /\ Need[n] \in 1 .. Limit
<1>1. /\ Limit \in Nat \ {0} /\ Names \subseteq Nat \ {0}
      /\ Dead \notin Names /\ Dots \notin Names /\ Dead # Dots
      /\ \A n \in Names : Need[n] \in 1 .. Limit
  BY NamesAssumption DEF Dead, Dots
<1>2. Size(Dead) = 0 /\ Size(Dots) = DotsNeed
  BY <1>1 DEF Size
<1>3. \A n \in Names : Size(n) = Need[n]
  BY <1>1 DEF Size
<1> QED  BY <1>1, <1>2, <1>3, NamesAssumption

\* The lengths of a block's entries add up to the limit.
LEMMA BlockSums ==
    ASSUME NEW block, Block(block)
    PROVE  /\ block \in Seq(RawEntries)
           /\ \E p : Sums(Len(block), SpansOf(block), p) /\ p[Len(block)] = Limit
<1>1. Entries \subseteq RawEntries
  BY Sizes DEF Entries, RawEntries
<1>2. block \in Seq(RawEntries)
  BY <1>1 DEF Block
<1>3. \A i \in 1 .. Len(block) : block[i].span \in Nat
  <2>1. \A i \in 1 .. Len(block) : block[i] \in RawEntries
    BY <1>2
  <2> QED  BY <2>1 DEF RawEntries
<1> QED  BY <1>2, <1>3, SpansAre DEF Block

\* Entries whose lengths add up to the limit make a block: none is longer than that.
LEMMA SumsMakeBlock ==
    ASSUME NEW block \in Seq(RawEntries), Lawful(block),
           NEW p, Sums(Len(block), SpansOf(block), p), p[Len(block)] = Limit
    PROVE  Block(block)
<1>1. \A i \in 1 .. Len(block) : block[i].span \in Nat \ {0} /\ block[i] \in RawEntries
  <2>1. \A i \in 1 .. Len(block) : block[i] \in RawEntries
    OBVIOUS
  <2> QED  BY <2>1 DEF RawEntries
<1>2. Spans(block) = Limit
  <2>1. PICK q : Sums(Len(block), SpansOf(block), q) /\ q[Len(block)] = Spans(block)
    BY <1>1, SpansAre
  <2>2. /\ Len(block) \in Nat /\ Len(block) \in 0 .. Len(block)
        /\ Agree(Len(block), SpansOf(block), SpansOf(block))
    BY DEF Agree
  <2>3. p[Len(block)] = q[Len(block)]
    BY <2>1, <2>2, SumsAgree
  <2> QED  BY <2>1, <2>3
<1>3. ASSUME NEW i \in 1 .. Len(block)  PROVE  block[i] \in Entries
  <2>1. SpansOf(block) \in [1 .. Len(block) -> Nat] /\ SpansOf(block)[i] = block[i].span
    BY <1>1 DEF SpansOf
  <2>2. p[i] = p[i - 1] + block[i].span /\ p[i] \in Nat /\ p[i - 1] \in Nat
    BY <2>1 DEF Sums
  <2>3. p[i] <= p[Len(block)]
    <3>1. Len(block) \in Nat /\ i \in 0 .. Len(block) /\ Len(block) \in i .. Len(block)
      OBVIOUS
    <3> QED  BY <2>1, <3>1, SumsRise
  <2>4. block[i].span \in 1 .. Limit
    BY <1>1, <2>2, <2>3, Sizes
  <2> QED  BY <1>1, <2>4 DEF Entries, RawEntries
<1>4. block \in Seq(Entries)
  BY <1>3
<1> QED  BY <1>2, <1>4 DEF Block

\* Where a name's entry starts in a block.
StartsOf(block, n) ==
    {Spans(SubSeq(block, 1, i - 1)) : i \in {j \in DOMAIN block : block[j].name = n}}

\* An entry starts where those before it end.
LEMMA StartsAre ==
    ASSUME NEW block \in Seq(RawEntries), NEW p, Sums(Len(block), SpansOf(block), p),
           NEW i \in 1 .. Len(block)
    PROVE  Spans(SubSeq(block, 1, i - 1)) = p[i - 1]
<1> DEFINE s == SubSeq(block, 1, i - 1)
<1>1. Len(block) \in Nat /\ i - 1 \in Nat /\ i - 1 \in 0 .. Len(block)
      /\ i - 1 \in 0 .. i - 1
  OBVIOUS
<1>2. s \in Seq(RawEntries) /\ Len(s) = i - 1 /\ \A k \in 1 .. i - 1 : s[k] = block[k]
  OBVIOUS
<1> HIDE DEF s
<1>3. \A k \in 1 .. Len(s) : s[k].span \in Nat
  <2>1. \A k \in 1 .. Len(s) : s[k] \in RawEntries
    BY <1>2
  <2> QED  BY <2>1 DEF RawEntries
<1>4. PICK q : Sums(Len(s), SpansOf(s), q) /\ q[Len(s)] = Spans(s)
  BY <1>2, <1>3, SpansAre
<1>5. \A k \in 1 .. i - 1 : SpansOf(s)[k] = SpansOf(block)[k]
  BY <1>1, <1>2 DEF SpansOf
<1>6. Sums(i - 1, SpansOf(s), q)
  BY <1>2, <1>4
<1>7. i - 1 <= i - 1 /\ i - 1 <= Len(block)
  BY <1>1
<1>8. q[i - 1] = p[i - 1]
  <2> DEFINE j == i - 1
  <2> HIDE DEF j
  <2>1. /\ j \in Nat /\ j <= j /\ j \in 0 .. Len(block) /\ Len(block) \in Nat
        /\ Sums(j, SpansOf(s), q) /\ Sums(Len(block), SpansOf(block), p)
        /\ Agree(j, SpansOf(block), SpansOf(s))
    BY <1>1, <1>2, <1>4, <1>5, <1>6, <1>7 DEF j, Agree
  <2>2. p[j] = q[j]
    BY <2>1, SumsAgree
  <2> QED  BY <2>2 DEF j
<1> QED  BY <1>2, <1>4, <1>8 DEF s

\* A name is added to a block in the first gap it fits.
LEMMA AddedIs ==
    ASSUME NEW block, Block(block), NEW n \in Names, n \notin EntryNames(block),
           Gaps(block, n) # {}
    PROVE  /\ Block(AddEntry(block, n))
           /\ EntryNames(AddEntry(block, n)) \ {Dead} = (EntryNames(block) \ {Dead}) \cup {n}
           /\ \A m \in Names \ {n} : StartsOf(AddEntry(block, n), m) = StartsOf(block, m)
<1> DEFINE i == Min(Gaps(block, n))
           used == Size(block[i].name)
           new == AddEntry(block, n)
<1>1. block \in Seq(RawEntries) /\ Len(block) \in Nat /\ DOMAIN block = 1 .. Len(block)
  BY BlockSums
<1>2. PICK p : Sums(Len(block), SpansOf(block), p) /\ p[Len(block)] = Limit
  BY BlockSums
<1>3. i \in 1 .. Len(block) /\ block[i].span - used >= Need[n]
  <2>1. Gaps(block, n) \in SUBSET Nat
    BY <1>1 DEF Gaps
  <2>2. i \in Gaps(block, n)
    BY <2>1, MinIs
  <2> QED  BY <1>1, <2>2 DEF Gaps
<1>4. \A k \in 1 .. Len(block) :
         /\ block[k] \in RawEntries /\ block[k].span \in Nat \ {0}
         /\ block[k].name \in Names \cup {Dead, Dots}
         /\ block[k].name # n
  <2>1. \A k \in 1 .. Len(block) : block[k] \in RawEntries
    BY <1>1
  <2>2. \A k \in 1 .. Len(block) : block[k].name # n
    BY <1>1 DEF EntryNames
  <2> QED  BY <2>1, <2>2 DEF RawEntries
<1>5. used \in Nat /\ (used = 0 <=> block[i].name = Dead) /\ Need[n] \in Nat \ {0} /\ n # Dead
  <2>1. block[i].name \in Names \cup {Dead, Dots}
    BY <1>3, <1>4
  <2> DEFINE x == block[i].name
  <2>2. x \in Names \cup {Dead, Dots}
    BY <2>1
  <2> HIDE DEF x, i
  <2>3. Size(x) \in Nat /\ (Size(x) = 0 <=> x = Dead)
    BY <2>2, Sizes
  <2> QED  BY <2>3, Sizes DEF x
<1>6. Lawful(block)
  BY DEF Block
<1> HIDE DEF i
<1>7. CASE used = 0
  <2>1. new = [block EXCEPT ![i].name = n]
    BY <1>7 DEF AddEntry, i
  <2> HIDE DEF new
  <2>2. /\ Len(new) = Len(block) /\ DOMAIN new = 1 .. Len(block)
        /\ \A k \in 1 .. Len(block) :
              /\ new[k].span = block[k].span
              /\ new[k].name = IF k = i THEN n ELSE block[k].name
              /\ new[k] \in RawEntries
    BY <1>1, <1>3, <1>4, <2>1 DEF RawEntries
  <2>3. new \in Seq(RawEntries)
    <3>1. new \in [1 .. Len(block) -> RawEntries]
      BY <1>1, <2>1, <2>2
    <3> QED  BY <1>1, <3>1, SeqIs
  <2>4. SpansOf(new) = SpansOf(block)
    BY <2>2 DEF SpansOf
  <2>5. block[i].name = Dead /\ i = 1
    BY <1>3, <1>5, <1>6, <1>7 DEF Lawful
  <2>6. Lawful(new)
    <3>1. new # <<>>
      BY <1>3, <2>2
    <3>2. \A k \in 1 .. Len(new) : new[k].span >= Size(new[k].name) /\ (new[k].name = Dead => k = 1)
      <4>1. \A k \in 1 .. Len(new) : k # i =>
               new[k].span >= Size(new[k].name) /\ (new[k].name = Dead => k = 1)
        BY <1>6, <2>2 DEF Lawful
      <4>2. new[i].span >= Size(new[i].name) /\ new[i].name # Dead
        <5>1. new[i].span = block[i].span /\ new[i].name = n /\ Size(n) = Need[n]
          BY <1>3, <2>2, Sizes
        <5>2. block[i].span \in Nat
          BY <1>3, <1>4
        <5> QED  BY <1>3, <1>5, <1>7, <5>1, <5>2
      <4> QED  BY <4>1, <4>2
    <3>3. \A k, l \in 1 .. Len(new) : new[k].name = new[l].name => k = l
      BY <1>4, <1>6, <2>2 DEF Lawful
    <3> QED  BY <3>1, <3>2, <3>3 DEF Lawful
  <2>7. Block(new)
    BY <1>2, <2>2, <2>3, <2>4, <2>6, SumsMakeBlock
  <2>8. EntryNames(new) \ {Dead} = (EntryNames(block) \ {Dead}) \cup {n}
    BY <1>1, <1>3, <1>5, <2>2, <2>5 DEF EntryNames
  <2>9. ASSUME NEW m \in Names \ {n}  PROVE  StartsOf(new, m) = StartsOf(block, m)
    <3>1. \A k \in 1 .. Len(block) : new[k].name = m <=> block[k].name = m
      BY <2>2, <2>5, Sizes
    <3>2. \A k \in 1 .. Len(block) :
             Spans(SubSeq(new, 1, k - 1)) = p[k - 1] /\ Spans(SubSeq(block, 1, k - 1)) = p[k - 1]
      BY <1>1, <1>2, <2>2, <2>3, <2>4, StartsAre
    <3> QED  BY <1>1, <2>2, <3>1, <3>2 DEF StartsOf
  <2> QED  BY <2>7, <2>8, <2>9 DEF new
<1>8. CASE used # 0
  <2> DEFINE mid == [block EXCEPT ![i].span = used]
             e == [name |-> n, span |-> block[i].span - used]
             q == [k \in 0 .. Len(block) + 1 |->
                     IF k < i THEN p[k] ELSE IF k = i THEN p[i - 1] + used ELSE p[k - 1]]
  <2>1. new = InsertAt(mid, i + 1, e)
    BY <1>8 DEF AddEntry, i
  <2>2. /\ mid \in Seq(RawEntries) /\ Len(mid) = Len(block)
        /\ mid[i] = [name |-> block[i].name, span |-> used]
        /\ \A k \in 1 .. Len(block) : k # i => mid[k] = block[k]
    <3>1. Len(mid) = Len(block) /\ \A k \in 1 .. Len(block) : k # i => mid[k] = block[k]
      BY <1>1, <1>3
    <3>2. block[i] \in RawEntries /\ mid[i] = [block[i] EXCEPT !.span = used]
      BY <1>1, <1>3, <1>4
    <3>3. mid[i] = [name |-> block[i].name, span |-> used] /\ mid[i] \in RawEntries
      BY <1>3, <1>4, <1>5, <1>8, <3>2 DEF RawEntries
    <3>4. \A k \in 1 .. Len(block) : mid[k] \in RawEntries
      BY <1>4, <3>1, <3>3
    <3>5. mid \in Seq(RawEntries)
      <4>1. mid \in [1 .. Len(block) -> RawEntries]
        BY <1>1, <3>4
      <4> HIDE DEF mid
      <4> QED  BY <1>1, <4>1, SeqIs
    <3> QED  BY <3>1, <3>3, <3>5
  <2>3. e \in RawEntries /\ e.name = n /\ e.span = block[i].span - used
    BY <1>3, <1>4, <1>5 DEF RawEntries
  <2> HIDE DEF mid, e, new
  <2>4. /\ new \in Seq(RawEntries) /\ Len(new) = Len(block) + 1
        /\ \A k \in 1 .. Len(block) + 1 :
              new[k] = IF k < i + 1 THEN mid[k] ELSE IF k = i + 1 THEN e ELSE mid[k - 1]
    <3>1. i + 1 \in 1 .. Len(mid) + 1
      BY <1>3, <2>2
    <3> QED  BY <2>1, <2>2, <2>3, <3>1, InsertAtIs
  <2>5. \A k \in 1 .. Len(block) + 1 :
           new[k] = IF k < i THEN block[k]
                    ELSE IF k = i THEN [name |-> block[i].name, span |-> used]
                    ELSE IF k = i + 1 THEN e ELSE block[k - 1]
    <3> TAKE k \in 1 .. Len(block) + 1
    <3>1. CASE k < i
      BY <1>3, <2>2, <2>4, <3>1
    <3>2. CASE k = i
      BY <1>3, <2>2, <2>4, <3>2
    <3>3. CASE k = i + 1
      BY <1>3, <2>4, <3>3
    <3>4. CASE k > i + 1
      <4>1. k - 1 \in 1 .. Len(block) /\ k - 1 # i
        BY <1>3, <3>4
      <4>2. new[k] = mid[k - 1]
        BY <1>3, <2>4, <3>4
      <4>3. mid[k - 1] = block[k - 1]
        BY <2>2, <4>1
      <4> QED  BY <1>3, <3>4, <4>2, <4>3
    <3> QED  BY <1>1, <1>3, <3>1, <3>2, <3>3, <3>4
  <2>6. \A k \in 1 .. Len(block) + 1 :
           /\ new[k].name = IF k <= i THEN block[k].name
                            ELSE IF k = i + 1 THEN n ELSE block[k - 1].name
           /\ new[k].span = IF k < i THEN block[k].span ELSE IF k = i THEN used
                            ELSE IF k = i + 1 THEN block[i].span - used ELSE block[k - 1].span
    BY <1>1, <1>3, <2>3, <2>5
  <2>7. Sums(Len(new), SpansOf(new), q) /\ q[Len(new)] = Limit
    <3>1. p \in [0 .. Len(block) -> Nat] /\ p[0] = 0
          /\ \A k \in 1 .. Len(block) : p[k] = p[k - 1] + block[k].span
      BY <1>2 DEF Sums, SpansOf
    <3>2. q \in [0 .. Len(block) + 1 -> Nat] /\ q[0] = 0 /\ q[Len(block) + 1] = Limit
      BY <1>1, <1>2, <1>3, <1>5, <3>1
    <3>3. ASSUME NEW k \in 1 .. Len(block) + 1  PROVE  q[k] = q[k - 1] + new[k].span
      <4>1. CASE k < i
        BY <1>1, <1>3, <2>6, <3>1, <4>1
      <4>2. CASE k = i
        BY <1>1, <1>3, <2>6, <3>1, <4>2
      <4>3. CASE k = i + 1
        <5>1. q[k] = p[i] /\ q[k - 1] = p[i - 1] + used
          BY <1>1, <1>3, <4>3
        <5>2. p[i] = p[i - 1] + block[i].span /\ p[i - 1] \in Nat /\ block[i].span \in Nat
          BY <1>3, <1>4, <3>1
        <5>3. new[k].span = block[i].span - used
          BY <1>3, <2>6, <4>3
        <5> QED  BY <1>5, <5>1, <5>2, <5>3
      <4>4. CASE k > i + 1
        <5>1. k - 1 \in 1 .. Len(block) /\ k - 1 > i
          BY <1>1, <1>3, <4>4
        <5>2. q[k] = p[k - 1] /\ q[k - 1] = p[(k - 1) - 1]
          BY <1>1, <1>3, <4>4, <5>1
        <5> QED  BY <1>3, <2>6, <3>1, <4>4, <5>1, <5>2
      <4> QED  BY <1>1, <1>3, <4>1, <4>2, <4>3, <4>4
    <3> HIDE DEF q
    <3> QED  BY <2>4, <3>2, <3>3 DEF Sums, SpansOf
  <2> HIDE DEF q
  <2>8. Lawful(new)
    <3>1. new # <<>>
      BY <1>1, <2>4
    <3>2. ASSUME NEW k \in 1 .. Len(new)
          PROVE  new[k].span >= Size(new[k].name) /\ (new[k].name = Dead => k = 1)
      <4>1. CASE k < i
        BY <1>1, <1>3, <1>6, <2>4, <2>6, <4>1 DEF Lawful
      <4>2. CASE k = i
        BY <1>1, <1>3, <1>5, <1>6, <2>4, <2>6, <4>2 DEF Lawful
      <4>3. CASE k = i + 1
        <5>1. new[k].span = block[i].span - used /\ new[k].name = n
          BY <1>1, <1>3, <2>4, <2>6, <4>3
        <5>2. Size(n) = Need[n]
          BY Sizes
        <5> QED  BY <1>3, <1>5, <5>1, <5>2
      <4>4. CASE k > i + 1
        <5>1. k - 1 \in 1 .. Len(block) /\ k - 1 > 1
          BY <1>1, <1>3, <2>4, <4>4
        <5>2. block[k - 1].span >= Size(block[k - 1].name) /\ block[k - 1].name # Dead
          BY <1>6, <5>1 DEF Lawful
        <5> QED  BY <1>1, <1>3, <2>4, <2>6, <4>4, <5>1, <5>2
      <4> QED  BY <1>1, <1>3, <2>4, <4>1, <4>2, <4>3, <4>4
    <3>3. ASSUME NEW k \in 1 .. Len(new), NEW l \in 1 .. Len(new), new[k].name = new[l].name
          PROVE  k = l
      <4> DEFINE f(j) == IF j <= i THEN j ELSE j - 1
      <4>1. \A j \in 1 .. Len(new) :
               j # i + 1 => f(j) \in 1 .. Len(block) /\ new[j].name = block[f(j)].name
        BY <1>1, <1>3, <2>4, <2>6
      <4>2. new[i + 1].name = n
        BY <1>1, <1>3, <2>6
      <4>3. \A j \in 1 .. Len(new) : j # i + 1 => new[j].name # n
        BY <1>4, <4>1
      <4>4. CASE k = i + 1 \/ l = i + 1
        BY <3>3, <4>2, <4>3, <4>4
      <4>5. CASE k # i + 1 /\ l # i + 1
        <5>1. f(k) = f(l)
          <6> HIDE DEF f
          <6> QED  BY <1>6, <3>3, <4>1, <4>5 DEF Lawful
        <5> QED  BY <1>1, <1>3, <2>4, <4>5, <5>1
      <4> QED  BY <4>4, <4>5
    <3> QED  BY <3>1, <3>2, <3>3 DEF Lawful
  <2>9. Block(new)
    BY <2>4, <2>7, <2>8, SumsMakeBlock
  <2>10. /\ DOMAIN new = 1 .. Len(block) + 1
         /\ \A k \in 1 .. Len(block) : new[IF k <= i THEN k ELSE k + 1].name = block[k].name
         /\ \A k \in 1 .. Len(block) + 1 : k = i + 1 \/
               \E l \in 1 .. Len(block) : k = (IF l <= i THEN l ELSE l + 1)
         /\ i + 1 \in 1 .. Len(block) + 1 /\ new[i + 1].name = n
    <3>1. DOMAIN new = 1 .. Len(block) + 1
      BY <2>4
    <3>2. \A k \in 1 .. Len(block) : new[IF k <= i THEN k ELSE k + 1].name = block[k].name
      BY <1>1, <1>3, <2>6
    <3>3. ASSUME NEW k \in 1 .. Len(block) + 1, k # i + 1
          PROVE  \E l \in 1 .. Len(block) : k = (IF l <= i THEN l ELSE l + 1)
      <4>1. CASE k <= i
        BY <1>3, <4>1
      <4>2. CASE k > i + 1
        <5>1. k - 1 \in 1 .. Len(block) /\ ~ (k - 1 <= i) /\ k = (k - 1) + 1
          BY <1>1, <1>3, <4>2
        <5> QED  BY <5>1
      <4> QED  BY <1>1, <1>3, <3>3, <4>1, <4>2
    <3>4. i + 1 \in 1 .. Len(block) + 1 /\ new[i + 1].name = n
      BY <1>1, <1>3, <2>6
    <3> QED  BY <3>1, <3>2, <3>3, <3>4
  <2>11. EntryNames(new) = EntryNames(block) \cup {n}
    <3>1. ASSUME NEW x \in EntryNames(new)  PROVE  x \in EntryNames(block) \cup {n}
      <4>1. PICK k \in 1 .. Len(block) + 1 : x = new[k].name
        BY <2>10 DEF EntryNames
      <4>2. CASE k = i + 1
        BY <2>10, <4>1, <4>2
      <4>3. CASE k # i + 1
        <5>1. PICK l \in 1 .. Len(block) : k = (IF l <= i THEN l ELSE l + 1)
          BY <2>10, <4>3
        <5>2. new[k].name = block[l].name
          BY <2>10, <5>1
        <5> QED  BY <1>1, <4>1, <5>2 DEF EntryNames
      <4> QED  BY <4>2, <4>3
    <3>2. \A k \in 1 .. Len(block) : (IF k <= i THEN k ELSE k + 1) \in 1 .. Len(block) + 1
      BY <1>1, <1>3
    <3>3. \A x \in EntryNames(block) \cup {n} : x \in EntryNames(new)
      BY <1>1, <2>10, <3>2 DEF EntryNames
    <3> QED  BY <3>1, <3>3
  <2>12. ASSUME NEW m \in Names \ {n}  PROVE  StartsOf(new, m) = StartsOf(block, m)
    <3>1. \A k \in 1 .. Len(block) : Spans(SubSeq(block, 1, k - 1)) = p[k - 1]
      BY <1>1, <1>2, StartsAre
    <3>2. \A k \in 1 .. Len(block) + 1 : Spans(SubSeq(new, 1, k - 1)) = q[k - 1]
      BY <2>4, <2>7, StartsAre
    <3>3. \A k \in 1 .. Len(block) :
             LET l == IF k <= i THEN k ELSE k + 1
             IN  l \in 1 .. Len(block) + 1 /\ q[l - 1] = p[k - 1]
      BY <1>1, <1>3 DEF q
    <3>4. \A x \in StartsOf(new, m) : x \in StartsOf(block, m)
      <4> TAKE x \in StartsOf(new, m)
      <4>1. PICK k \in 1 .. Len(block) + 1 :
               new[k].name = m /\ x = Spans(SubSeq(new, 1, k - 1))
        BY <2>10 DEF StartsOf
      <4>2. PICK l \in 1 .. Len(block) : k = (IF l <= i THEN l ELSE l + 1)
        BY <2>10, <4>1
      <4>3. block[l].name = m /\ x = Spans(SubSeq(block, 1, l - 1))
        BY <2>10, <3>1, <3>2, <3>3, <4>1, <4>2
      <4> QED  BY <1>1, <4>3 DEF StartsOf
    <3>5. \A x \in StartsOf(block, m) : x \in StartsOf(new, m)
      <4> TAKE x \in StartsOf(block, m)
      <4>1. PICK k \in 1 .. Len(block) :
               block[k].name = m /\ x = Spans(SubSeq(block, 1, k - 1))
        BY <1>1 DEF StartsOf
      <4> DEFINE l == IF k <= i THEN k ELSE k + 1
      <4>2. l \in 1 .. Len(block) + 1 /\ new[l].name = m /\ q[l - 1] = p[k - 1]
        BY <2>10, <3>3, <4>1
      <4> HIDE DEF l
      <4>3. x = Spans(SubSeq(new, 1, l - 1))
        BY <3>1, <3>2, <4>1, <4>2
      <4> QED  BY <2>10, <4>2, <4>3 DEF StartsOf
    <3> QED  BY <3>4, <3>5
  <2> QED  BY <1>5, <2>9, <2>11, <2>12 DEF new
<1> QED  BY <1>5, <1>7, <1>8

\* A name is taken out of a block: the entry before it grows by its length, or, where
\* there is none, it is dead.
LEMMA CutIs ==
    ASSUME NEW block, Block(block), NEW n \in Names, n \in EntryNames(block)
    PROVE  /\ Block(CutEntry(block, n))
           /\ EntryNames(CutEntry(block, n)) \ {Dead} = EntryNames(block) \ {n, Dead}
           /\ \A m \in Names \ {n} : StartsOf(CutEntry(block, n), m) = StartsOf(block, m)
<1> DEFINE at == {j \in DOMAIN block : block[j].name = n}
           i == Min(at)
           new == CutEntry(block, n)
<1>1. block \in Seq(RawEntries) /\ Len(block) \in Nat /\ DOMAIN block = 1 .. Len(block)
  BY BlockSums
<1>2. PICK p : Sums(Len(block), SpansOf(block), p) /\ p[Len(block)] = Limit
  BY BlockSums
<1>3. i \in 1 .. Len(block) /\ block[i].name = n
  <2>1. at \in SUBSET Nat /\ at # {}
    BY <1>1 DEF EntryNames
  <2>2. i \in at
    <3> HIDE DEF at
    <3> QED  BY <2>1, MinIs
  <2> QED  BY <1>1, <2>2
<1>4. \A k \in 1 .. Len(block) :
         /\ block[k] \in RawEntries /\ block[k].span \in Nat \ {0}
         /\ block[k].name \in Names \cup {Dead, Dots}
  <2>1. \A k \in 1 .. Len(block) : block[k] \in RawEntries
    BY <1>1
  <2> QED  BY <2>1 DEF RawEntries
<1>5. Lawful(block) /\ n # Dead
  BY Sizes DEF Block
<1>6. \A k \in 1 .. Len(block) : block[k].name = n <=> k = i
  BY <1>3, <1>5 DEF Lawful
<1>7. new = IF i = 1 THEN [block EXCEPT ![1].name = Dead]
            ELSE RemoveAt([block EXCEPT ![i - 1].span = @ + block[i].span], i)
  BY DEF CutEntry
<1>8. \A k \in 1 .. Len(block) : Spans(SubSeq(block, 1, k - 1)) = p[k - 1]
  BY <1>1, <1>2, StartsAre
<1> HIDE DEF i, new
<1>9. CASE i = 1
  <2>1. new = [block EXCEPT ![1].name = Dead]
    BY <1>7, <1>9
  <2>2. /\ Len(new) = Len(block) /\ DOMAIN new = 1 .. Len(block)
        /\ \A k \in 1 .. Len(block) :
              /\ new[k].span = block[k].span
              /\ new[k].name = IF k = 1 THEN Dead ELSE block[k].name
              /\ new[k] \in RawEntries
    BY <1>1, <1>3, <1>4, <1>9, <2>1 DEF RawEntries
  <2>3. new \in Seq(RawEntries)
    <3>1. new \in [1 .. Len(block) -> RawEntries]
      BY <1>1, <2>1, <2>2
    <3> QED  BY <1>1, <3>1, SeqIs
  <2>4. SpansOf(new) = SpansOf(block)
    BY <2>2 DEF SpansOf
  <2>5. \A k \in 1 .. Len(block) : k # 1 => block[k].name # Dead
    BY <1>5 DEF Lawful
  <2>6. Lawful(new)
    <3>1. new # <<>>
      BY <1>3, <2>2
    <3>2. ASSUME NEW k \in 1 .. Len(new)
          PROVE  new[k].span >= Size(new[k].name) /\ (new[k].name = Dead => k = 1)
      <4>1. CASE k = 1
        BY <1>4, <2>2, <4>1, Sizes
      <4>2. CASE k # 1
        BY <1>5, <2>2, <4>2 DEF Lawful
      <4> QED  BY <4>1, <4>2
    <3>3. \A k, l \in 1 .. Len(new) : new[k].name = new[l].name => k = l
      BY <1>5, <2>2, <2>5 DEF Lawful
    <3> QED  BY <3>1, <3>2, <3>3 DEF Lawful
  <2>7. Block(new)
    BY <1>2, <2>2, <2>3, <2>4, <2>6, SumsMakeBlock
  <2>8. EntryNames(new) \ {Dead} = EntryNames(block) \ {n, Dead}
    BY <1>1, <1>3, <1>6, <1>9, <2>2 DEF EntryNames
  <2>9. ASSUME NEW m \in Names \ {n}  PROVE  StartsOf(new, m) = StartsOf(block, m)
    <3>1. \A k \in 1 .. Len(block) : new[k].name = m <=> block[k].name = m
      BY <1>3, <1>9, <2>2, Sizes
    <3>2. \A k \in 1 .. Len(block) : Spans(SubSeq(new, 1, k - 1)) = p[k - 1]
      BY <1>1, <1>2, <2>2, <2>3, <2>4, StartsAre
    <3> QED  BY <1>1, <1>8, <2>2, <3>1, <3>2 DEF StartsOf
  <2> QED  BY <2>7, <2>8, <2>9 DEF new
<1>10. CASE i # 1
  <2> DEFINE mid == [block EXCEPT ![i - 1].span = @ + block[i].span]
             f(k) == IF k < i THEN k ELSE k + 1
             q == [k \in 0 .. Len(block) - 1 |-> IF k < i - 1 THEN p[k] ELSE p[k + 1]]
  <2>1. new = RemoveAt(mid, i)
    BY <1>7, <1>10
  <2>2. /\ mid \in Seq(RawEntries) /\ Len(mid) = Len(block)
        /\ mid[i - 1].name = block[i - 1].name
        /\ mid[i - 1].span = block[i - 1].span + block[i].span
        /\ \A k \in 1 .. Len(block) : k # i - 1 => mid[k] = block[k]
    <3>0. i - 1 \in 1 .. Len(block)
      BY <1>3, <1>10
    <3>1. Len(mid) = Len(block) /\ \A k \in 1 .. Len(block) : k # i - 1 => mid[k] = block[k]
      BY <1>1, <3>0
    <3>2. /\ block[i - 1] \in RawEntries /\ block[i].span \in Nat \ {0}
          /\ mid[i - 1] = [block[i - 1] EXCEPT !.span = @ + block[i].span]
      BY <1>1, <1>3, <1>4, <3>0
    <3>3. /\ mid[i - 1].name = block[i - 1].name /\ mid[i - 1] \in RawEntries
          /\ mid[i - 1].span = block[i - 1].span + block[i].span
      BY <3>2 DEF RawEntries
    <3>4. \A k \in 1 .. Len(block) : mid[k] \in RawEntries
      BY <1>4, <3>1, <3>3
    <3>5. mid \in Seq(RawEntries)
      <4>1. mid \in [1 .. Len(block) -> RawEntries]
        BY <1>1, <3>4
      <4> HIDE DEF mid
      <4> QED  BY <1>1, <4>1, SeqIs
    <3> QED  BY <3>1, <3>3, <3>5
  <2> HIDE DEF mid
  <2>3. /\ new \in Seq(RawEntries) /\ Len(new) = Len(block) - 1 /\ DOMAIN new = 1 .. Len(block) - 1
        /\ \A k \in 1 .. Len(block) - 1 : new[k] = IF k < i THEN mid[k] ELSE mid[k + 1]
    BY <1>3, <2>1, <2>2, RemoveAtIs
  <2>4. \A k \in 1 .. Len(block) - 1 :
           /\ f(k) \in 1 .. Len(block) /\ f(k) # i /\ new[k].name = block[f(k)].name
           /\ new[k].span = IF k = i - 1 THEN block[i - 1].span + block[i].span
                            ELSE block[f(k)].span
    <3> TAKE k \in 1 .. Len(block) - 1
    <3>1. f(k) \in 1 .. Len(block) /\ f(k) # i
      BY <1>1, <1>3
    <3>2. CASE k < i - 1
      BY <1>3, <2>2, <2>3, <3>1, <3>2
    <3>3. CASE k = i - 1
      BY <1>3, <2>2, <2>3, <3>1, <3>3
    <3>4. CASE k >= i
      <4>1. f(k) = k + 1 /\ k + 1 # i - 1 /\ k # i - 1
        BY <1>3, <3>4
      <4>2. new[k] = mid[k + 1]
        BY <1>3, <2>3, <3>4
      <4>3. mid[k + 1] = block[k + 1]
        BY <2>2, <3>1, <4>1
      <4> QED  BY <3>1, <4>1, <4>2, <4>3
    <3> QED  BY <1>1, <1>3, <3>2, <3>3, <3>4
  <2>5. Sums(Len(new), SpansOf(new), q) /\ q[Len(new)] = Limit
    <3>1. p \in [0 .. Len(block) -> Nat] /\ p[0] = 0
          /\ \A k \in 1 .. Len(block) : p[k] = p[k - 1] + block[k].span
      BY <1>2 DEF Sums, SpansOf
    <3>2. q \in [0 .. Len(block) - 1 -> Nat] /\ q[0] = 0 /\ q[Len(block) - 1] = Limit
      BY <1>1, <1>2, <1>3, <1>10, <3>1
    <3>3. ASSUME NEW k \in 1 .. Len(block) - 1  PROVE  q[k] = q[k - 1] + new[k].span
      <4>1. CASE k < i - 1
        <5>1. q[k] = p[k] /\ q[k - 1] = p[k - 1] /\ new[k].span = block[k].span
          BY <1>1, <1>3, <2>4, <4>1
        <5> QED  BY <1>1, <3>1, <5>1
      <4>2. CASE k = i - 1
        <5>1. q[k] = p[i] /\ q[k - 1] = p[i - 2]
          BY <1>1, <1>3, <1>10, <4>2
        <5>2. p[i] = p[i - 1] + block[i].span /\ p[i - 1] = p[i - 2] + block[i - 1].span
          <6>1. i - 1 \in 1 .. Len(block) /\ (i - 1) - 1 = i - 2
            BY <1>1, <1>3, <1>10
          <6> QED  BY <1>3, <3>1, <6>1
        <5>3. /\ p[i - 2] \in Nat /\ block[i].span \in Nat /\ block[i - 1].span \in Nat
          <6>1. i - 1 \in 1 .. Len(block) /\ i - 2 \in 0 .. Len(block)
            BY <1>1, <1>3, <1>10
          <6> QED  BY <1>3, <1>4, <3>1, <6>1
        <5>4. new[k].span = block[i - 1].span + block[i].span
          BY <2>4, <4>2
        <5> QED  BY <5>1, <5>2, <5>3, <5>4
      <4>3. CASE k >= i
        <5>1. q[k] = p[k + 1] /\ q[k - 1] = p[(k + 1) - 1] /\ new[k].span = block[k + 1].span
          BY <1>1, <1>3, <2>4, <4>3
        <5> QED  BY <1>1, <3>1, <5>1
      <4> QED  BY <1>1, <1>3, <4>1, <4>2, <4>3
    <3> HIDE DEF q
    <3> QED  BY <2>3, <3>2, <3>3 DEF Sums, SpansOf
  <2> HIDE DEF q
  <2>6. \A k, l \in 1 .. Len(block) - 1 : f(k) = f(l) => k = l
    BY <1>1, <1>3
  <2>7. Lawful(new)
    <3>1. new # <<>>
      BY <1>1, <1>3, <1>10, <2>3
    <3>2. ASSUME NEW k \in 1 .. Len(new)
          PROVE  new[k].span >= Size(new[k].name) /\ (new[k].name = Dead => k = 1)
      <4>1. new[k].span >= block[f(k)].span
        <5>1. CASE k = i - 1
          <6>1. f(k) = i - 1 /\ new[k].span = block[i - 1].span + block[i].span
            BY <1>3, <2>3, <2>4, <5>1
          <6>2. block[i - 1].span \in Nat /\ block[i].span \in Nat
            BY <1>1, <1>3, <1>4, <1>10
          <6> QED  BY <6>1, <6>2
        <5>2. CASE k # i - 1
          BY <1>4, <2>3, <2>4, <5>2
        <5> QED  BY <5>1, <5>2
      <4> DEFINE l == f(k)
      <4>2. l \in 1 .. Len(block) /\ new[k].name = block[l].name
        BY <2>3, <2>4
      <4> HIDE DEF f
      <4>3. block[l].span >= Size(block[l].name) /\ (block[l].name = Dead => l = 1)
        BY <1>5, <4>2 DEF Lawful
      <4>4. l = 1 => k = 1
        BY <1>3, <2>3 DEF f
      <4>5. new[k].span \in Nat /\ block[l].span \in Nat /\ Size(block[l].name) \in Nat
        <5>1. new[k] \in RawEntries
          BY <2>3
        <5>2. block[l].name \in Names \cup {Dead, Dots} /\ block[l].span \in Nat
          BY <1>4, <4>2
        <5> HIDE DEF l
        <5>3. Size(block[l].name) \in Nat
          <6> DEFINE x == block[l].name
          <6>1. x \in Names \cup {Dead, Dots}
            BY <5>2
          <6> HIDE DEF x
          <6>2. Size(x) \in Nat
            BY <6>1, Sizes
          <6> QED  BY <6>2 DEF x
        <5> QED  BY <5>1, <5>2, <5>3 DEF RawEntries
      <4> QED  BY <4>1, <4>2, <4>3, <4>4, <4>5
    <3>3. \A k, l \in 1 .. Len(new) : new[k].name = new[l].name => k = l
      <4> HIDE DEF f
      <4> QED  BY <1>5, <2>3, <2>4, <2>6 DEF Lawful
    <3> QED  BY <3>1, <3>2, <3>3 DEF Lawful
  <2>8. Block(new)
    BY <2>3, <2>5, <2>7, SumsMakeBlock
  <2>9. \A l \in 1 .. Len(block) : l = i \/ \E k \in 1 .. Len(block) - 1 : f(k) = l
    <3> TAKE l \in 1 .. Len(block)
    <3>1. CASE l < i
      <4>1. l \in 1 .. Len(block) - 1 /\ f(l) = l
        BY <1>1, <1>3, <3>1
      <4> QED  BY <4>1
    <3>2. CASE l > i
      <4>1. l - 1 \in 1 .. Len(block) - 1 /\ f(l - 1) = l
        BY <1>1, <1>3, <3>2
      <4> QED  BY <4>1
    <3> QED  BY <1>1, <1>3, <3>1, <3>2
  <2>10. \A k \in 1 .. Len(block) - 1 : q[k - 1] = p[f(k) - 1]
    BY <1>1, <1>3 DEF q
  <2> HIDE DEF f
  <2>11. EntryNames(new) = EntryNames(block) \ {n}
    <3>1. \A x \in EntryNames(new) : x \in EntryNames(block) \ {n}
      BY <1>1, <1>6, <2>3, <2>4 DEF EntryNames
    <3>2. ASSUME NEW x \in EntryNames(block) \ {n}  PROVE  x \in EntryNames(new)
      <4>1. PICK l \in 1 .. Len(block) : x = block[l].name
        BY <1>1 DEF EntryNames
      <4>2. PICK k \in 1 .. Len(block) - 1 : f(k) = l
        BY <1>3, <2>9, <4>1
      <4> QED  BY <2>3, <2>4, <4>1, <4>2 DEF EntryNames
    <3> QED  BY <3>1, <3>2
  <2>12. ASSUME NEW m \in Names \ {n}  PROVE  StartsOf(new, m) = StartsOf(block, m)
    <3>1. \A k \in 1 .. Len(block) - 1 : Spans(SubSeq(new, 1, k - 1)) = q[k - 1]
      BY <2>3, <2>5, StartsAre
    <3>2. \A x \in StartsOf(new, m) : x \in StartsOf(block, m)
      <4> TAKE x \in StartsOf(new, m)
      <4>1. PICK k \in 1 .. Len(block) - 1 :
               new[k].name = m /\ x = Spans(SubSeq(new, 1, k - 1))
        BY <2>3 DEF StartsOf
      <4>2. f(k) \in 1 .. Len(block) /\ block[f(k)].name = m
        BY <2>4, <4>1
      <4>3. x = Spans(SubSeq(block, 1, f(k) - 1))
        BY <1>8, <2>10, <3>1, <4>1, <4>2
      <4> QED  BY <1>1, <4>2, <4>3 DEF StartsOf
    <3>3. \A x \in StartsOf(block, m) : x \in StartsOf(new, m)
      <4> TAKE x \in StartsOf(block, m)
      <4>1. PICK l \in 1 .. Len(block) :
               block[l].name = m /\ x = Spans(SubSeq(block, 1, l - 1))
        BY <1>1 DEF StartsOf
      <4>2. PICK k \in 1 .. Len(block) - 1 : f(k) = l
        BY <1>3, <2>9, <4>1
      <4>3. new[k].name = m /\ x = Spans(SubSeq(new, 1, k - 1))
        BY <1>8, <2>4, <2>10, <3>1, <4>1, <4>2
      <4> QED  BY <2>3, <4>3 DEF StartsOf
    <3> QED  BY <3>2, <3>3
  <2> QED  BY <1>5, <2>8, <2>11, <2>12 DEF new
<1> QED  BY <1>9, <1>10

(***************************************************************************)
(* Names in hash order.                                                    *)
(***************************************************************************)
\* Hash order is an order, and total.
LEMMA BeforeOrders ==
    /\ \A m, n \in Names : Before(m, n) \/ Before(n, m) \/ m = n
    /\ \A m, n \in Names : Before(m, n) => ~ Before(n, m) /\ m # n /\ Hash[m] <= Hash[n]
    /\ \A l, m, n \in Names : Before(l, m) /\ Before(m, n) => Before(l, n)
<1>1. \A n \in Names : Hash[n] \in Nat /\ n \in Nat
  BY NamesAssumption
<1> QED  BY <1>1 DEF Before

Upto(S, n) == {m \in S : m = n \/ Before(m, n)}

\* A later name has more names up to it, and for every number up to how many there are
\* there is a name with that many.
LEMMA Ranks ==
    ASSUME NEW S \in SUBSET Names
    PROVE  /\ IsFiniteSet(S) /\ Cardinality(S) \in Nat
           /\ \A n \in S : Cardinality(Upto(S, n)) \in 1 .. Cardinality(S)
           /\ \A m, n \in S : Before(m, n) => Cardinality(Upto(S, m)) < Cardinality(Upto(S, n))
           /\ \A i \in 1 .. Cardinality(S) : \E n \in S : Cardinality(Upto(S, n)) = i
<1>1. IsFiniteSet(S) /\ Cardinality(S) \in Nat
  BY NamesAssumption, FS_Subset, FS_CardinalityType
<1>2. \A n \in S : IsFiniteSet(Upto(S, n)) /\ Cardinality(Upto(S, n)) \in 1 .. Cardinality(S)
  <2> TAKE n \in S
  <2>1. Upto(S, n) \in SUBSET S /\ n \in Upto(S, n)
    BY DEF Upto
  <2>2. IsFiniteSet(Upto(S, n)) /\ Cardinality(Upto(S, n)) <= Cardinality(S)
    BY <1>1, <2>1, FS_Subset
  <2>3. Cardinality(Upto(S, n)) \in Nat /\ Cardinality(Upto(S, n)) # 0
    BY <2>1, <2>2, FS_CardinalityType, FS_EmptySet
  <2> QED  BY <1>1, <2>2, <2>3
<1>3. ASSUME NEW m \in S, NEW n \in S, Before(m, n)
      PROVE  Cardinality(Upto(S, m)) < Cardinality(Upto(S, n))
  <2>1. Upto(S, m) \in SUBSET Upto(S, n) /\ n \in Upto(S, n) /\ n \notin Upto(S, m)
    BY <1>3, BeforeOrders DEF Upto
  <2>2. /\ Cardinality(Upto(S, m)) <= Cardinality(Upto(S, n))
        /\ Cardinality(Upto(S, n)) = Cardinality(Upto(S, m)) => Upto(S, n) = Upto(S, m)
    BY <1>2, <2>1, FS_Subset
  <2> QED  BY <1>2, <2>1, <2>2
<1>4. ASSUME NEW i \in 1 .. Cardinality(S), \A n \in S : Cardinality(Upto(S, n)) # i
      PROVE  FALSE
  <2> DEFINE T == (1 .. Cardinality(S)) \ {i}
             f == [n \in S |-> Cardinality(Upto(S, n))]
  <2>1. f \in [S -> T]
    BY <1>2, <1>4
  <2>2. IsFiniteSet(T) /\ Cardinality(T) = Cardinality(S) - 1
    <3>1. IsFiniteSet(1 .. Cardinality(S)) /\ Cardinality(1 .. Cardinality(S)) = Cardinality(S)
      BY <1>1, FS_Interval
    <3> QED  BY <3>1, FS_RemoveElement
  <2>3. Cardinality(T) < Cardinality(S)
    BY <1>1, <2>2
  <2>4. \E x, y \in S : x # y /\ f[x] = f[y]
    <3> HIDE DEF f, T
    <3> QED  BY <1>1, <2>1, <2>2, <2>3, FS_PigeonHole
  <2>5. PICK x, y \in S : x # y /\ Cardinality(Upto(S, x)) = Cardinality(Upto(S, y))
    BY <2>4
  <2>6. Before(x, y) \/ Before(y, x)
    BY <2>5, BeforeOrders
  <2>7. Cardinality(Upto(S, x)) \in Nat /\ Cardinality(Upto(S, y)) \in Nat
    BY <1>2
  <2> QED  BY <1>3, <2>5, <2>6, <2>7
<1> QED  BY <1>1, <1>2, <1>3, <1>4

\* InOrder lists the names of a set, each once, in hash order.
LEMMA InOrderIs ==
    ASSUME NEW S \in SUBSET Names
    PROVE  /\ InOrder(S) \in Seq(S) /\ Len(InOrder(S)) = Cardinality(S) /\ Cardinality(S) \in Nat
           /\ \A n \in S : \E i \in 1 .. Cardinality(S) : InOrder(S)[i] = n
           /\ \A i, j \in 1 .. Cardinality(S) : i < j => Before(InOrder(S)[i], InOrder(S)[j])
<1> DEFINE o == InOrder(S)
<1>1. o = [i \in 1 .. Cardinality(S) |-> CHOOSE n \in S : Cardinality(Upto(S, n)) = i]
  BY Zenon DEF InOrder, Upto
<1>2. Cardinality(S) \in Nat
  BY Ranks
<1>3. \A i \in 1 .. Cardinality(S) : o[i] \in S /\ Cardinality(Upto(S, o[i])) = i
  <2> HIDE DEF o
  <2> TAKE i \in 1 .. Cardinality(S)
  <2>1. \E n \in S : Cardinality(Upto(S, n)) = i
    BY Ranks
  <2>2. o[i] = CHOOSE n \in S : Cardinality(Upto(S, n)) = i
    BY <1>1
  <2> QED  BY <2>1, <2>2
<1> HIDE DEF o
<1>4. o \in [1 .. Cardinality(S) -> S]
  BY <1>1, <1>3
<1>5. o \in Seq(S) /\ Len(o) = Cardinality(S)
  BY <1>2, <1>4, SeqIs
<1>6. ASSUME NEW m \in S, NEW n \in S, Cardinality(Upto(S, m)) = Cardinality(Upto(S, n))
      PROVE  m = n
  <2>1. Cardinality(Upto(S, n)) \in Nat
    BY Ranks
  <2>2. ~ Before(m, n) /\ ~ Before(n, m)
    BY <1>6, <2>1, Ranks
  <2> QED  BY <2>2, BeforeOrders
<1>7. \A n \in S : \E i \in 1 .. Cardinality(S) : o[i] = n
  <2> TAKE n \in S
  <2>1. Cardinality(Upto(S, n)) \in 1 .. Cardinality(S)
    BY Ranks
  <2>2. o[Cardinality(Upto(S, n))] = n
    BY <1>3, <1>6, <2>1
  <2> QED  BY <2>1, <2>2
<1>8. ASSUME NEW i \in 1 .. Cardinality(S), NEW j \in 1 .. Cardinality(S), i < j
      PROVE  Before(o[i], o[j])
  <2>1. o[i] \in S /\ o[j] \in S
    BY <1>3
  <2>2. ~ Before(o[j], o[i])
    <3> SUFFICES ASSUME Before(o[j], o[i])  PROVE  FALSE
      OBVIOUS
    <3>1. Cardinality(Upto(S, o[j])) < Cardinality(Upto(S, o[i]))
      BY <2>1, Ranks
    <3> QED  BY <1>2, <1>3, <1>8, <3>1
  <2>3. o[i] # o[j]
    BY <1>2, <1>3, <1>8
  <2> QED  BY <2>1, <2>2, <2>3, BeforeOrders
<1> QED  BY <1>2, <1>5, <1>7, <1>8 DEF o

(***************************************************************************)
(* What a leaf holds, and the block it is written as.                      *)
(***************************************************************************)
\* A list of names, and the bytes each takes.
LEMMA NamesIn ==
    ASSUME NEW names \in Seq(Names), NEW k \in 1 .. Len(names)
    PROVE  /\ names[k] \in Names /\ names[k] # Dead /\ names[k] # Dots
           /\ Size(names[k]) = Need[names[k]] /\ Size(names[k]) \in Nat
           /\ Need[names[k]] \in Nat \ {0} /\ Need[names[k]] <= Limit
<1> DEFINE x == names[k]
<1>1. x \in Names
  OBVIOUS
<1> HIDE DEF x
<1>2. /\ x # Dead /\ x # Dots /\ Size(x) = Need[x] /\ Need[x] \in 1 .. Limit
      /\ Limit \in Nat
  BY <1>1, Sizes
<1>3. Need[x] \in Nat \ {0} /\ Need[x] <= Limit /\ Size(x) \in Nat
  BY <1>2
<1> QED  BY <1>1, <1>2, <1>3 DEF x

\* The bytes that names take, one after the other.
LEMMA TotalSums ==
    ASSUME NEW names \in Seq(Names)
    PROVE  \E p : /\ Sums(Len(names), SizesOf(names), p) /\ p[Len(names)] = Total(names)
                  /\ \A k \in 1 .. Len(names) : p[k] = p[k - 1] + Need[names[k]]
<1>2. \A k \in 1 .. Len(names) : Size(names[k]) = Need[names[k]] /\ Size(names[k]) \in Nat
  BY NamesIn
<1>3. PICK p : Sums(Len(names), SizesOf(names), p) /\ p[Len(names)] = Total(names)
  BY <1>2, TotalIs
<1>4. \A k \in 1 .. Len(names) : p[k] = p[k - 1] + Need[names[k]]
  BY <1>2, <1>3 DEF Sums, SizesOf
<1> QED  BY <1>3, <1>4

\* The first of some names take the sum of their sizes.
LEMMA TotalOfFirst ==
    ASSUME NEW names \in Seq(Names), NEW p, Sums(Len(names), SizesOf(names), p),
           NEW first \in Seq(Names), Len(first) <= Len(names),
           \A k \in 1 .. Len(first) : first[k] = names[k]
    PROVE  Total(first) = p[Len(first)]
<1>1. PICK q : Sums(Len(first), SizesOf(first), q) /\ q[Len(first)] = Total(first)
  BY TotalSums
<1>2. Agree(Len(first), SizesOf(first), SizesOf(names))
  BY DEF Agree, SizesOf
<1>3. Len(first) \in Nat /\ Len(names) \in Nat /\ Len(first) \in 0 .. Len(first)
  OBVIOUS
<1>4. q[Len(first)] = p[Len(first)]
  BY <1>1, <1>2, <1>3, SumsAgree
<1> QED  BY <1>1, <1>4

\* A name more takes what it needs more.
LEMMA TotalGrows ==
    ASSUME NEW names \in Seq(Names), NEW n \in Names
    PROVE  /\ Total(names) \in Nat /\ Total(Append(names, n)) = Total(names) + Need[n]
           /\ Total(<<n>>) = Need[n]
<1> DEFINE all == Append(names, n)
<1>1. /\ all \in Seq(Names) /\ Len(all) = Len(names) + 1 /\ all[Len(names) + 1] = n
      /\ \A k \in 1 .. Len(names) : all[k] = names[k]
  OBVIOUS
<1> HIDE DEF all
<1>2. PICK p : /\ Sums(Len(all), SizesOf(all), p) /\ p[Len(all)] = Total(all)
               /\ \A k \in 1 .. Len(all) : p[k] = p[k - 1] + Need[all[k]]
  BY <1>1, TotalSums
<1>3. Total(names) = p[Len(names)]
  BY <1>1, <1>2, TotalOfFirst
<1>4. Len(all) \in 1 .. Len(all) /\ Len(all) - 1 = Len(names) /\ Len(names) \in 0 .. Len(all)
  BY <1>1
<1>5. Total(all) = Total(names) + Need[n] /\ Total(names) \in Nat
  BY <1>1, <1>2, <1>3, <1>4 DEF Sums
<1>6. Total(<<n>>) = Need[n]
  <2>1. <<n>> \in Seq(Names) /\ Len(<<n>>) = 1 /\ <<n>>[1] = n
    OBVIOUS
  <2>2. PICK q : /\ Sums(1, SizesOf(<<n>>), q) /\ q[1] = Total(<<n>>)
                 /\ \A k \in 1 .. 1 : q[k] = q[k - 1] + Need[<<n>>[k]]
    BY <2>1, TotalSums
  <2>3. q[0] = 0 /\ q[1] = q[0] + Need[n] /\ Need[n] \in Nat
    BY <2>1, <2>2, Sizes DEF Sums
  <2> QED  BY <2>2, <2>3
<1> QED  BY <1>5, <1>6 DEF all

\* Names that fit a block make one.
LEMMA PackedIs ==
    ASSUME NEW names \in Seq(Names), names # <<>>, Total(names) <= Limit,
           \A i, j \in 1 .. Len(names) : names[i] = names[j] => i = j
    PROVE  /\ Block(PackedBlock(names))
           /\ EntryNames(PackedBlock(names)) = {names[i] : i \in 1 .. Len(names)}
<1> DEFINE L == Len(names)
           new == PackedBlock(names)
           room == Limit - Total(Front(names))
<1>1. /\ L \in Nat \ {0} /\ DOMAIN names = 1 .. L
      /\ \A k \in 1 .. L : /\ names[k] \in Names /\ names[k] # Dead
                           /\ Size(names[k]) = Need[names[k]]
                           /\ Need[names[k]] \in Nat \ {0}
  BY NamesIn
<1>0. Limit \in Nat \ {0}
  BY Sizes
<1>2. PICK t : /\ Sums(L, SizesOf(names), t) /\ t[L] = Total(names)
               /\ \A k \in 1 .. L : t[k] = t[k - 1] + Need[names[k]]
  BY TotalSums
<1>3. t \in [0 .. L -> Nat] /\ t[0] = 0
  BY <1>2 DEF Sums
<1>4. Total(Front(names)) = t[L - 1]
  <2> DEFINE f == Front(names)
  <2>1. f \in Seq(Names) /\ Len(f) = L - 1 /\ \A k \in 1 .. L - 1 : f[k] = names[k]
    BY <1>1 DEF Front
  <2> HIDE DEF f
  <2>2. Len(f) <= Len(names) /\ \A k \in 1 .. Len(f) : f[k] = names[k]
    BY <1>1, <2>1
  <2>3. Total(f) = t[Len(f)]
    BY <1>2, <2>1, <2>2, TotalOfFirst
  <2> QED  BY <2>1, <2>3 DEF f
<1>5. room >= Need[names[L]] /\ room \in Nat \ {0} /\ t[L - 1] + room = Limit
  <2>1. t[L] = t[L - 1] + Need[names[L]] /\ t[L - 1] \in Nat /\ Need[names[L]] \in Nat \ {0}
    BY <1>1, <1>2, <1>3
  <2> QED  BY <1>0, <1>2, <1>4, <2>1
<1> HIDE DEF room
<1>6. /\ Len(new) = L /\ DOMAIN new = 1 .. L /\ new \in Seq(RawEntries)
      /\ \A k \in 1 .. L : /\ new[k].name = names[k]
                           /\ new[k].span = IF k = L THEN room ELSE Need[names[k]]
  <2>1. new = [k \in 1 .. L |-> [name |-> names[k],
                                 span |-> IF k = L THEN room ELSE Need[names[k]]]]
    BY <1>1 DEF PackedBlock, room
  <2> HIDE DEF new
  <2>2. new \in [1 .. L -> RawEntries]
    <3> SUFFICES ASSUME NEW k \in 1 .. L  PROVE  new[k] \in RawEntries
      BY <2>1
    <3>1. new[k] = [name |-> names[k], span |-> IF k = L THEN room ELSE Need[names[k]]]
      BY <2>1
    <3> QED  BY <1>1, <1>5, <3>1 DEF RawEntries
  <2>3. new \in Seq(RawEntries) /\ Len(new) = L /\ DOMAIN new = 1 .. L
    BY <1>1, <2>2, SeqIs
  <2> QED  BY <1>1, <2>1, <2>3
<1> HIDE DEF new
<1> DEFINE q == [k \in 0 .. L |-> IF k = L THEN Limit ELSE t[k]]
<1>7. Sums(Len(new), SpansOf(new), q) /\ q[Len(new)] = Limit
  <2>0. \A k \in 0 .. L : q[k] = IF k = L THEN Limit ELSE t[k]
    OBVIOUS
  <2>1. q \in [0 .. L -> Nat] /\ q[0] = 0 /\ q[L] = Limit
    BY <1>0, <1>1, <1>3
  <2> HIDE DEF q
  <2>2. ASSUME NEW k \in 1 .. L  PROVE  q[k] = q[k - 1] + new[k].span
    <3>1. CASE k = L
      <4>1. k - 1 \in 0 .. L /\ k \in 0 .. L /\ k - 1 # L
        BY <1>1
      <4>2. q[k] = Limit /\ q[k - 1] = t[k - 1]
        BY <2>0, <3>1, <4>1
      <4>3. new[k].span = room
        BY <1>6, <3>1
      <4> QED  BY <1>5, <3>1, <4>2, <4>3
    <3>2. CASE k # L
      <4>1. k - 1 \in 0 .. L /\ k \in 0 .. L /\ k - 1 # L
        BY <1>1
      <4>2. q[k] = t[k] /\ q[k - 1] = t[k - 1]
        BY <2>0, <3>2, <4>1
      <4>3. new[k].span = Need[names[k]]
        BY <1>6, <3>2
      <4> QED  BY <1>2, <4>2, <4>3
    <3> QED  BY <3>1, <3>2
  <2> QED  BY <1>6, <2>1, <2>2 DEF Sums, SpansOf
<1>8. Lawful(new)
  <2>1. new # <<>>
    BY <1>1, <1>6
  <2>2. ASSUME NEW k \in 1 .. L
        PROVE  new[k].span >= Size(new[k].name) /\ new[k].name # Dead
    <3>1. new[k].name = names[k] /\ Size(new[k].name) = Need[names[k]] /\ new[k].name # Dead
      <4>1. new[k].name = names[k]
        BY <1>6
      <4>2. Size(names[k]) = Need[names[k]] /\ names[k] # Dead
        BY <1>1
      <4> QED  BY <4>1, <4>2
    <3>2. CASE k = L
      <4>1. new[k].span = room /\ room >= Need[names[k]]
        BY <1>5, <1>6, <3>2
      <4> QED  BY <3>1, <4>1
    <3>3. CASE k # L
      <4>1. new[k].span = Need[names[k]] /\ Need[names[k]] \in Nat
        BY <1>1, <1>6, <3>3
      <4> QED  BY <3>1, <4>1
    <3> QED  BY <3>2, <3>3
  <2>3. ASSUME NEW i \in 1 .. L, NEW j \in 1 .. L, new[i].name = new[j].name  PROVE  i = j
    <3>1. names[i] = names[j]
      BY <1>6, <2>3
    <3> QED  BY <3>1
  <2> QED  BY <1>6, <2>1, <2>2, <2>3 DEF Lawful
<1>9. Block(new)
  BY <1>6, <1>7, <1>8, SumsMakeBlock
<1>10. EntryNames(new) = {names[i] : i \in 1 .. Len(names)}
  <2>1. EntryNames(new) = {new[i].name : i \in 1 .. L}
    BY <1>6 DEF EntryNames
  <2>2. \A i \in 1 .. L : new[i].name = names[i]
    BY <1>6
  <2> QED  BY <2>1, <2>2
<1> QED  BY <1>9, <1>10 DEF new

(***************************************************************************)
(* Packing names into leaves.                                              *)
(***************************************************************************)
LeafSet == [hash : Nat, names : Seq(Names)]

NamesOf(leaf) == {leaf.names[i] : i \in 1 .. Len(leaf.names)}

\* A leaf holds names in hash order that fit a block.
Leaf(leaf) ==
    /\ leaf \in LeafSet /\ leaf.names # <<>> /\ Total(leaf.names) <= Limit
    /\ \A a, b \in 1 .. Len(leaf.names) : a < b => Before(leaf.names[a], leaf.names[b])

\* A leaf starts at the hash of its first name, plus one where the leaf before ends on
\* a name of that hash.
StartsAt(leaves, j) ==
    LET hash == Hash[leaves[j].names[1]]
    IN  IF j > 1 /\ Hash[Last(leaves[j - 1].names)] = hash THEN hash + 1 ELSE hash

\* The leaves hold the names of S and no other, in hash order.
Packed(leaves, S) ==
    /\ leaves \in Seq(LeafSet)
    /\ \A j \in 1 .. Len(leaves) : Leaf(leaves[j]) /\ leaves[j].hash = StartsAt(leaves, j)
    /\ \A i, j \in 1 .. Len(leaves) : i < j =>
          \A m \in NamesOf(leaves[i]), n \in NamesOf(leaves[j]) : Before(m, n)
    /\ \A n : n \in S <=> \E j \in 1 .. Len(leaves) : n \in NamesOf(leaves[j])

\* A name that comes after all others in hash order goes to the last leaf or a new one.
LEMMA PackOneKeeps ==
    ASSUME NEW leaves, NEW S, Packed(leaves, S), NEW n \in Names, \A m \in S : Before(m, n)
    PROVE  Packed(PackOne(leaves, n), S \cup {n})
<1> DEFINE K == Len(leaves)
           new == PackOne(leaves, n)
<1>1. /\ K \in Nat /\ leaves \in Seq(LeafSet)
      /\ \A j \in 1 .. K : /\ Leaf(leaves[j]) /\ leaves[j].hash = StartsAt(leaves, j)
                           /\ leaves[j] \in LeafSet
  BY DEF Packed
<1>2. \A j \in 1 .. K : \A m \in NamesOf(leaves[j]) : m \in S /\ Before(m, n)
  BY DEF Packed
<1>3. CASE leaves # <<>> /\ Accepts(Last(leaves), n)
  <2> DEFINE last == leaves[K]
             all == Append(last.names, n)
  <2>1. K \in 1 .. K /\ Last(leaves) = last /\ new = [leaves EXCEPT ![K].names = all]
    BY <1>1, <1>3 DEF PackOne, Last
  <2> HIDE DEF new
  <2>2. /\ last \in LeafSet /\ last.names \in Seq(Names) /\ last.hash \in Nat
        /\ last.names # <<>> /\ Leaf(last)
    BY <1>1, <2>1 DEF LeafSet, Leaf
  <2>3. /\ all \in Seq(Names) /\ Len(all) = Len(last.names) + 1 /\ all # <<>>
        /\ all[Len(all)] = n /\ \A i \in 1 .. Len(last.names) : all[i] = last.names[i]
    BY <2>2
  <2>4. Total(all) <= Limit
    BY <1>3, <2>1, <2>2, TotalGrows DEF Accepts
  <2> HIDE DEF all
  <2>5. /\ Len(new) = K /\ new[K] = [last EXCEPT !.names = all]
        /\ \A j \in 1 .. K : j # K => new[j] = leaves[j]
    BY <1>1, <2>1
  <2>6. new[K].names = all /\ new[K].hash = last.hash /\ new[K] \in LeafSet
    BY <2>2, <2>3, <2>5 DEF LeafSet
  <2>7. new \in Seq(LeafSet)
    <3>1. new \in [1 .. K -> LeafSet]
      BY <1>1, <2>1, <2>5, <2>6
    <3> QED  BY <1>1, <3>1, SeqIs
  <2>8. \A x : x \in NamesOf(new[K]) <=> x \in NamesOf(last) \/ x = n
    <3>1. \A x \in NamesOf(new[K]) : x \in NamesOf(last) \/ x = n
      BY <2>2, <2>3, <2>6 DEF NamesOf
    <3>2. ASSUME NEW x \in NamesOf(last)  PROVE  x \in NamesOf(new[K])
      <4>1. PICK i \in 1 .. Len(last.names) : x = last.names[i]
        BY DEF NamesOf
      <4>2. i \in 1 .. Len(all) /\ x = all[i]
        BY <2>2, <2>3, <4>1
      <4> QED  BY <2>6, <4>2 DEF NamesOf
    <3>3. n \in NamesOf(new[K])
      <4>1. Len(all) \in 1 .. Len(all)
        BY <2>3
      <4> QED  BY <2>3, <2>6, <4>1 DEF NamesOf
    <3> QED  BY <3>1, <3>2, <3>3
  <2>9. Leaf(new[K])
    <3>1. ASSUME NEW a \in 1 .. Len(all), NEW b \in 1 .. Len(all), a < b
          PROVE  Before(all[a], all[b])
      <4>1. a \in 1 .. Len(last.names) /\ all[a] = last.names[a]
        BY <2>2, <2>3, <3>1
      <4>2. CASE b = Len(all)
        <5>1. all[a] \in NamesOf(last)
          BY <4>1 DEF NamesOf
        <5> QED  BY <1>2, <2>1, <2>3, <4>2, <5>1
      <4>3. CASE b # Len(all)
        <5>1. b \in 1 .. Len(last.names) /\ all[b] = last.names[b]
          BY <2>2, <2>3, <4>3
        <5> QED  BY <2>2, <3>1, <4>1, <5>1 DEF Leaf
      <4> QED  BY <4>2, <4>3
    <3> QED  BY <2>3, <2>4, <2>6, <3>1 DEF Leaf
  <2>10. ASSUME NEW j \in 1 .. K
         PROVE  Leaf(new[j]) /\ new[j].hash = StartsAt(new, j)
    <3>1. Leaf(new[j])
      BY <1>1, <2>5, <2>9
    <3>2. new[j].names[1] = leaves[j].names[1] /\ new[j].hash = leaves[j].hash
      <4>1. CASE j = K
        <5>1. 1 \in 1 .. Len(last.names)
          BY <2>2
        <5> QED  BY <2>3, <2>6, <4>1, <5>1
      <4> QED  BY <2>5, <4>1
    <3>3. j > 1 => new[j - 1] = leaves[j - 1]
      BY <1>1, <2>5
    <3>4. StartsAt(new, j) = StartsAt(leaves, j)
      BY <3>2, <3>3 DEF StartsAt
    <3> QED  BY <1>1, <3>1, <3>2, <3>4
  <2>11. ASSUME NEW i \in 1 .. K, NEW j \in 1 .. K, i < j,
                NEW x \in NamesOf(new[i]), NEW y \in NamesOf(new[j])
         PROVE  Before(x, y)
    <3>1. new[i] = leaves[i] /\ x \in NamesOf(leaves[i])
      BY <1>1, <2>5, <2>11
    <3>2. CASE y \in NamesOf(leaves[j])
      BY <2>11, <3>1, <3>2 DEF Packed
    <3>3. CASE y = n
      BY <1>2, <3>1, <3>3
    <3> QED  BY <2>5, <2>8, <3>2, <3>3
  <2>12. \A x : x \in S \cup {n} <=> \E j \in 1 .. K : x \in NamesOf(new[j])
    <3>1. ASSUME NEW x, x \in S \cup {n}  PROVE  \E j \in 1 .. K : x \in NamesOf(new[j])
      <4>1. CASE x = n
        BY <2>1, <2>8, <4>1
      <4>2. CASE x \in S
        <5>1. PICK j \in 1 .. K : x \in NamesOf(leaves[j])
          BY <4>2 DEF Packed
        <5> QED  BY <2>5, <2>8, <5>1
      <4> QED  BY <3>1, <4>1, <4>2
    <3>2. ASSUME NEW x, NEW j \in 1 .. K, x \in NamesOf(new[j])  PROVE  x \in S \cup {n}
      BY <1>2, <2>5, <2>8, <3>2
    <3> QED  BY <3>1, <3>2
  <2> HIDE DEF K
  <2>13. Packed(new, S \cup {n})
    BY <2>5, <2>7, <2>10, <2>11, <2>12 DEF Packed
  <2> QED  BY <2>13 DEF new
<1>4. CASE ~ (leaves # <<>> /\ Accepts(Last(leaves), n))
  <2> DEFINE leaf == [hash |-> StartHash(leaves, n), names |-> <<n>>]
  <2>1. new = Append(leaves, leaf)
    BY <1>4 DEF PackOne
  <2>2. /\ leaf.names = <<n>> /\ leaf.hash = StartHash(leaves, n) /\ leaf \in LeafSet
        /\ Len(<<n>>) = 1 /\ <<n>>[1] = n
    <3>1. StartHash(leaves, n) \in Nat
      BY NamesAssumption DEF StartHash
    <3> QED  BY <3>1 DEF LeafSet
  <2> HIDE DEF leaf, new
  <2>3. /\ new \in Seq(LeafSet) /\ Len(new) = K + 1 /\ new[K + 1] = leaf
        /\ \A j \in 1 .. K : new[j] = leaves[j]
    BY <1>1, <2>1, <2>2
  <2>4. \A x : x \in NamesOf(leaf) <=> x = n
    BY <2>2 DEF NamesOf
  <2>5. Leaf(leaf)
    <3>1. <<>> \in Seq(Names)
      OBVIOUS
    <3>2. Total(<<n>>) <= Limit
      <4>1. Total(<<n>>) = Need[n]
        BY <3>1, TotalGrows
      <4>2. Need[n] \in 1 .. Limit
        BY Sizes
      <4> QED  BY <4>1, <4>2
    <3> QED  BY <2>2, <3>2 DEF Leaf
  <2>6. leaf.hash = StartsAt(new, K + 1)
    <3>1. CASE leaves = <<>>
      <4>1. K = 0
        BY <3>1
      <4>2. StartsAt(new, K + 1) = Hash[n]
        BY <2>2, <2>3, <4>1 DEF StartsAt
      <4> QED  BY <2>2, <3>1, <4>2 DEF StartHash
    <3>2. CASE leaves # <<>>
      <4>1. K \in 1 .. K /\ Last(leaves) = leaves[K] /\ new[(K + 1) - 1] = leaves[K] /\ K + 1 > 1
        BY <1>1, <2>3, <3>2 DEF Last
      <4> QED  BY <2>2, <2>3, <3>2, <4>1 DEF StartHash, StartsAt
    <3> QED  BY <3>1, <3>2
  <2>7. ASSUME NEW j \in 1 .. K + 1
        PROVE  Leaf(new[j]) /\ new[j].hash = StartsAt(new, j)
    <3>1. CASE j = K + 1
      BY <2>3, <2>5, <2>6, <3>1
    <3>2. CASE j # K + 1
      <4>1. j \in 1 .. K /\ new[j] = leaves[j] /\ (j > 1 => new[j - 1] = leaves[j - 1])
        BY <1>1, <2>3, <3>2
      <4>2. StartsAt(new, j) = StartsAt(leaves, j)
        BY <4>1 DEF StartsAt
      <4> QED  BY <1>1, <4>1, <4>2
    <3> QED  BY <3>1, <3>2
  <2>8. ASSUME NEW i \in 1 .. K + 1, NEW j \in 1 .. K + 1, i < j,
               NEW x \in NamesOf(new[i]), NEW y \in NamesOf(new[j])
        PROVE  Before(x, y)
    <3>1. i \in 1 .. K /\ x \in NamesOf(leaves[i])
      BY <1>1, <2>3, <2>8
    <3>2. CASE j = K + 1
      BY <1>2, <2>3, <2>4, <3>1, <3>2
    <3>3. CASE j # K + 1
      <4>1. j \in 1 .. K /\ y \in NamesOf(leaves[j])
        BY <1>1, <2>3, <3>3
      <4> QED  BY <2>8, <3>1, <4>1 DEF Packed
    <3> QED  BY <3>2, <3>3
  <2>9. \A x : x \in S \cup {n} <=> \E j \in 1 .. K + 1 : x \in NamesOf(new[j])
    <3>1. ASSUME NEW x, x \in S \cup {n}  PROVE  \E j \in 1 .. K + 1 : x \in NamesOf(new[j])
      <4>1. CASE x = n
        <5>1. K + 1 \in 1 .. K + 1
          BY <1>1
        <5> QED  BY <2>3, <2>4, <4>1, <5>1
      <4>2. CASE x \in S
        <5>1. PICK j \in 1 .. K : x \in NamesOf(leaves[j])
          BY <4>2 DEF Packed
        <5>2. j \in 1 .. K + 1
          BY <1>1
        <5> QED  BY <2>3, <5>1, <5>2
      <4> QED  BY <3>1, <4>1, <4>2
    <3>2. ASSUME NEW x, NEW j \in 1 .. K + 1, x \in NamesOf(new[j])  PROVE  x \in S \cup {n}
      <4>1. CASE j = K + 1
        BY <2>3, <2>4, <3>2, <4>1
      <4>2. CASE j # K + 1
        <5>1. j \in 1 .. K
          BY <1>1, <4>2
        <5> QED  BY <1>2, <2>3, <3>2, <5>1
      <4> QED  BY <4>1, <4>2
    <3> QED  BY <3>1, <3>2
  <2> HIDE DEF K
  <2>10. Packed(new, S \cup {n})
    BY <2>3, <2>7, <2>8, <2>9 DEF Packed
  <2> QED  BY <2>10 DEF new
<1> QED  BY <1>3, <1>4

\* PackLeaves packs the names of a set.
LEMMA PackLeavesIs ==
    ASSUME NEW S \in SUBSET Names
    PROVE  Packed(PackLeaves(S), S)
<1> DEFINE o == InOrder(S)
           N == Cardinality(S)
           R == Seq(LeafSet)
           step == [x \in (1 .. N) \X R |-> PackOne(x[2], o[x[1]])]
           Folds(it) == it = [s \in SUBSET (DOMAIN o) |->
                                IF s = {} THEN <<>> ELSE PackOne(it[s \ {Max(s)}], o[Max(s)])]
           c == CHOOSE it : Folds(it)
<1>1. /\ N \in Nat /\ o \in Seq(S) /\ DOMAIN o = 1 .. N
      /\ \A k \in 1 .. N : o[k] \in S /\ o[k] \in Names
  BY InOrderIs
<1>2. /\ \A n \in S : \E i \in 1 .. N : o[i] = n
      /\ \A i, j \in 1 .. N : i < j => Before(o[i], o[j])
  BY InOrderIs
<1>3. PackLeaves(S) = c[DOMAIN o]
  BY Zenon DEF PackLeaves, FoldLeft, MapThenFoldSet
<1> HIDE DEF o, N
<1>4. Folds(c)
  <2>1. \A l \in R, n \in Names : PackOne(l, n) \in R
    <3> TAKE l \in R, n \in Names
    <3>1. CASE l # <<>> /\ Accepts(Last(l), n)
      <4>1. l[Len(l)] \in LeafSet /\ Len(l) \in 1 .. Len(l) /\ Len(l) \in Nat
        BY <3>1
      <4>2. [l[Len(l)] EXCEPT !.names = Append(@, n)] \in LeafSet
        <5> DEFINE last == l[Len(l)]
        <5>1. last \in LeafSet
          BY <4>1
        <5> HIDE DEF last
        <5>2. [last EXCEPT !.names = Append(@, n)] \in LeafSet
          <6>1. last.names \in Seq(Names) /\ last.hash \in Nat
            BY <5>1 DEF LeafSet
          <6>2. Append(last.names, n) \in Seq(Names)
            BY <6>1
          <6>3. [last EXCEPT !.names = Append(@, n)]
                  = [hash |-> last.hash, names |-> Append(last.names, n)]
            <7> DEFINE more == Append(last.names, n)
            <7> HIDE DEF more
            <7>1. [last EXCEPT !.names = more] = [hash |-> last.hash, names |-> more]
              BY <5>1 DEF LeafSet
            <7> QED  BY <7>1 DEF more
          <6> QED  BY <6>1, <6>2, <6>3 DEF LeafSet
        <5> QED  BY <5>2 DEF last
      <4>3. PackOne(l, n) = [l EXCEPT ![Len(l)].names = Append(@, n)]
        BY <3>1 DEF PackOne
      <4>4. PackOne(l, n) \in [1 .. Len(l) -> LeafSet]
        BY <4>1, <4>2, <4>3
      <4> QED  BY <4>1, <4>4, SeqIs
    <3>2. CASE ~ (l # <<>> /\ Accepts(Last(l), n))
      <4>1. [hash |-> StartHash(l, n), names |-> <<n>>] \in LeafSet
        <5>1. StartHash(l, n) \in Nat
          BY NamesAssumption DEF StartHash
        <5> QED  BY <5>1 DEF LeafSet
      <4> QED  BY <3>2, <4>1 DEF PackOne
    <3> QED  BY <3>1, <3>2
  <2>2. <<>> \in R /\ StepOn(R, N, step)
    <3>1. step \in [(1 .. N) \X R -> R]
      <4> HIDE DEF R
      <4> QED  BY <1>1, <2>1
    <3> QED  BY <3>1 DEF StepOn
  <2>3. PICK it : FoldOf(R, N, <<>>, step, it)
    <3> HIDE DEF step, R
    <3> QED  BY <1>1, <2>2, FoldExists
  <2>4. \A s \in SUBSET (1 .. N) :
           s # {} => step[<<Max(s), it[s \ {Max(s)}]>>] = PackOne(it[s \ {Max(s)}], o[Max(s)])
    <3> TAKE s \in SUBSET (1 .. N)
    <3> HAVE s # {}
    <3>1. Max(s) \in 1 .. N /\ it[s \ {Max(s)}] \in R
      BY <1>1, <2>3, MaxIs DEF FoldOf
    <3> HIDE DEF R
    <3> QED  BY <3>1
  <2>5. Folds(it)
    <3> HIDE DEF step, R
    <3> QED  BY <1>1, <2>3, <2>4 DEF FoldOf
  <2> HIDE DEF Folds
  <2> QED  BY <2>5
<1> HIDE DEF c
<1> DEFINE First(k) == {o[i] : i \in 1 .. k}
           T == {k \in Nat : k <= N => Packed(c[1 .. k], First(k))}
<1>5. 0 \in T
  <2>1. 1 .. 0 = {} /\ {} \in SUBSET (DOMAIN o)
    OBVIOUS
  <2>2. c[1 .. 0] = <<>> /\ First(0) = {}
    BY <1>4, <2>1
  <2>3. Packed(<<>>, {})
    BY DEF Packed
  <2> QED  BY <2>2, <2>3
<1>6. ASSUME NEW k \in Nat, k \in T  PROVE  k + 1 \in T
  <2>1. ASSUME k + 1 <= N  PROVE  Packed(c[1 .. k + 1], First(k + 1))
    <3>1. Packed(c[1 .. k], First(k)) /\ k + 1 \in 1 .. N
      BY <1>1, <1>6, <2>1
    <3>2. c[1 .. k + 1] = PackOne(c[1 .. k], o[k + 1])
      <4>1. (1 .. k + 1) \in SUBSET (DOMAIN o) /\ k + 1 \in 1 .. k + 1 /\ k + 1 \in Nat \ {0}
        BY <1>1, <2>1
      <4>2. Max(1 .. k + 1) = k + 1 /\ (1 .. k + 1) \ {k + 1} = 1 .. k
        <5>1. (k + 1) - 1 = k
          OBVIOUS
        <5> QED  BY <4>1, <5>1, MaxOfFirst
      <4> QED  BY <1>4, <4>1, <4>2
    <3>3. \A m \in First(k) : Before(m, o[k + 1])
      BY <1>1, <1>2, <3>1
    <3>4. First(k + 1) = First(k) \cup {o[k + 1]}
      <4>1. \A i : i \in 1 .. k + 1 <=> i \in 1 .. k \/ i = k + 1
        OBVIOUS
      <4> QED  BY <4>1
    <3> HIDE DEF First
    <3>5. Packed(PackOne(c[1 .. k], o[k + 1]), First(k) \cup {o[k + 1]})
      BY <1>1, <3>1, <3>3, PackOneKeeps
    <3> QED  BY <3>2, <3>4, <3>5
  <2> QED  BY <2>1
<1>7. N \in T
  <2> HIDE DEF T
  <2> QED  BY <1>1, <1>5, <1>6, NumbersReached
<1>8. First(N) = S
  BY <1>1, <1>2
<1>9. Packed(c[1 .. N], First(N))
  <2> HIDE DEF First
  <2> QED  BY <1>1, <1>7
<1> HIDE DEF First
<1> QED  BY <1>1, <1>3, <1>8, <1>9

(***************************************************************************)
(* The index: nodes whose entries point at the leaves, in order.           *)
(***************************************************************************)
\* A rebuild needs at least one leaf, and the nodes it plans hold them all.
LEMMA NodesAre ==
    ASSUME NEW n \in Nat \ {0}, NEW per \in Nat \ {0}
    PROVE  /\ NodesFor(n, per) \in Nat \ {0}
           /\ (NodesFor(n, per) - 1) * per < n /\ n <= NodesFor(n, per) * per
<1> DEFINE a == n + per - 1
           k == a \div per
<1>1. a \in Nat /\ a >= per /\ k \in Nat /\ k * per <= a /\ a < (k + 1) * per
  <2>1. a \in Nat /\ a >= per
    OBVIOUS
  <2> HIDE DEF a
  <2> QED  BY <2>1
<1>2. k >= 1
  <2> SUFFICES ASSUME k = 0  PROVE  FALSE
    BY <1>1
  <2> HIDE DEF k, a
  <2> QED  BY <1>1
<1> HIDE DEF k
<1>3. (k - 1) * per = k * per - per /\ (k + 1) * per = k * per + per /\ k * per \in Nat
  BY <1>1, <1>2
<1> DEFINE kp == k * per
<1>4. (k - 1) * per < n /\ n <= k * per
  <2>1. /\ (k - 1) * per = kp - per /\ (k + 1) * per = kp + per /\ kp \in Nat
        /\ kp <= a /\ a < kp + per
    BY <1>1, <1>3
  <2> HIDE DEF kp
  <2>2. kp - per < n /\ n <= kp
    BY <2>1
  <2> QED  BY <2>1, <2>2 DEF kp
<1>5. NodesFor(n, per) = k
  BY DEF NodesFor, k
<1> QED  BY <1>1, <1>2, <1>4, <1>5

\* The nodes ix over n leaves with the hashes h: node k points at the leaves from
\* first[k] up to the next node's first.
Over(ix, n, h, first) ==
    /\ n \in Nat \ {0} /\ h \in [1 .. n -> Nat]
    /\ Len(ix) \in Nat \ {0} /\ DOMAIN ix = 1 .. Len(ix)
    /\ first \in [1 .. Len(ix) + 1 -> Nat] /\ first[1] = 1 /\ first[Len(ix) + 1] = n + 1
    /\ \A k, l \in 1 .. Len(ix) + 1 : k < l => first[k] < first[l]
    /\ \A l \in 1 .. n : \E k \in 1 .. Len(ix) : first[k] <= l /\ l < first[k + 1]
    /\ \A k \in 1 .. Len(ix) :
          /\ ix[k].hash = IF k = 1 THEN 0 ELSE h[first[k]]
          /\ Len(ix[k].entries) = first[k + 1] - first[k]
          /\ DOMAIN ix[k].entries = 1 .. first[k + 1] - first[k]
          /\ \A j \in 1 .. first[k + 1] - first[k] :
                /\ ix[k].entries[j].leaf = first[k] + j - 1
                /\ ix[k].entries[j].hash = IF j = 1 THEN 0 ELSE h[first[k] + j - 1]

HashesOf(leaves) == [l \in 1 .. Len(leaves) |-> leaves[l].hash]

\* Where the nodes of a new index begin.
LEMMA NodesBegin ==
    ASSUME NEW n \in Nat \ {0}, NEW per \in Nat \ {0}, NEW K \in Nat \ {0},
           (K - 1) * per < n, n <= K * per
    PROVE  LET last(k) == IF k = K THEN n ELSE k * per
           IN  /\ \A k \in 1 .. K : /\ (k - 1) * per + 1 \in 1 .. n
                                    /\ (k - 1) * per + 1 <= last(k)
                                    /\ last(k) \in 1 .. n /\ Min({k * per, n}) = last(k)
               /\ \A k, l \in 1 .. K : k < l => (k - 1) * per < (l - 1) * per
               /\ \A l \in 1 .. n : \E k \in 1 .. K : (k - 1) * per + 1 <= l /\ l <= last(k)
<1> DEFINE last(k) == IF k = K THEN n ELSE k * per
<1>1. \A k \in 1 .. K : k * per \in Nat /\ (k - 1) * per \in Nat /\ (k - 1) * per = k * per - per
  OBVIOUS
<1>2. \A k \in 1 .. K : (k - 1) * per <= (K - 1) * per
  OBVIOUS
<1>3. \A k \in 1 .. K : k < K => k * per <= (K - 1) * per
  OBVIOUS
<1>4. \A k, l \in 1 .. K : k < l => (k - 1) * per < (l - 1) * per
  <2> TAKE k, l \in 1 .. K
  <2> HAVE k < l
  <2>1. k * per <= (l - 1) * per
    OBVIOUS
  <2> DEFINE x == k * per
             y == (k - 1) * per
             z == (l - 1) * per
  <2>2. y = x - per /\ x \in Nat /\ y \in Nat /\ z \in Nat /\ x <= z
    BY <1>1, <2>1
  <2> HIDE DEF x, y, z
  <2>3. y < z
    BY <2>2
  <2> QED  BY <2>3 DEF y, z
<1>5. ASSUME NEW k \in 1 .. K
      PROVE  /\ (k - 1) * per + 1 \in 1 .. n /\ (k - 1) * per + 1 <= last(k)
             /\ last(k) \in 1 .. n /\ Min({k * per, n}) = last(k)
  <2> DEFINE x == k * per
             y == (k - 1) * per
             z == (K - 1) * per
  <2>1. /\ y = x - per /\ x \in Nat /\ y \in Nat /\ z \in Nat /\ y <= z /\ z < n
        /\ (k < K => x <= z) /\ (k = K => n <= x)
    BY <1>1, <1>2, <1>3
  <2>2. last(k) = IF k = K THEN n ELSE x
    OBVIOUS
  <2> HIDE DEF x, y, z, last
  <2>3. y + 1 \in 1 .. n /\ y + 1 <= last(k) /\ last(k) \in 1 .. n
    BY <2>1, <2>2
  <2>4. Min({x, n}) = last(k)
    <3>1. {x, n} \in SUBSET Nat /\ {x, n} # {}
      BY <2>1
    <3>2. Min({x, n}) \in {x, n} /\ \A y1 \in {x, n} : Min({x, n}) <= y1
      BY <3>1, MinIs
    <3> QED  BY <2>1, <2>2, <3>2
  <2> QED  BY <2>3, <2>4 DEF x, y
<1>6. ASSUME NEW l \in 1 .. n
      PROVE  \E k \in 1 .. K : (k - 1) * per + 1 <= l /\ l <= last(k)
  <2> DEFINE q == (l - 1) \div per
             k == q + 1
  <2>1. q \in Nat /\ q * per <= l - 1 /\ l - 1 < (q + 1) * per
    <3> DEFINE m == l - 1
    <3>1. m \in Nat
      OBVIOUS
    <3> HIDE DEF m
    <3>2. (m \div per) \in Nat /\ (m \div per) * per <= m /\ m < ((m \div per) + 1) * per
      BY <3>1
    <3> QED  BY <3>2 DEF m
  <2> HIDE DEF q
  <2>2. q < K
    <3> SUFFICES ASSUME q >= K  PROVE  FALSE
      BY <2>1
    <3>1. K * per <= q * per
      BY <2>1
    <3> DEFINE x == K * per
               y == q * per
    <3>2. x \in Nat /\ y \in Nat /\ x <= y /\ n <= x /\ y <= l - 1
      BY <2>1, <3>1
    <3> HIDE DEF x, y
    <3> QED  BY <3>2
  <2>3. k \in 1 .. K /\ k - 1 = q
    BY <2>1, <2>2
  <2>4. (k - 1) * per + 1 <= l /\ l <= last(k)
    <3> DEFINE x == q * per
               y == k * per
    <3>1. x \in Nat /\ y \in Nat /\ x <= l - 1 /\ l - 1 < y
      BY <2>1
    <3>2. last(k) = (IF k = K THEN n ELSE y) /\ (k - 1) * per = x
      BY <2>3
    <3> HIDE DEF x, y, k, last
    <3> QED  BY <3>1, <3>2
  <2> QED  BY <2>3, <2>4
<1> QED  BY <1>4, <1>5, <1>6

\* The index a rebuild plans has this shape.
LEMMA IndexOverIs ==
    ASSUME NEW leaves \in Seq(LeafSet), leaves # <<>>
    PROVE  \E first : Over(IndexOver(leaves), Len(leaves), HashesOf(leaves), first)
<1> DEFINE n == Len(leaves)
           per == PerNode(n)
           K == NodesFor(n, per)
           ix == IndexOver(leaves)
           h == HashesOf(leaves)
           last(k) == IF k = K THEN n ELSE k * per
           First(k) == (k - 1) * per + 1
           first == [k \in 1 .. K + 1 |-> IF k = K + 1 THEN n + 1 ELSE First(k)]
<1>1. n \in Nat \ {0} /\ \A l \in 1 .. n : leaves[l] \in LeafSet
  OBVIOUS
<1>2. per \in Nat \ {0}
  BY <1>1, LimitsAssumption DEF PerNode
<1>3. h \in [1 .. n -> Nat] /\ \A l \in 1 .. n : h[l] = leaves[l].hash
  BY <1>1 DEF HashesOf, LeafSet
<1>4. ix = [k \in 1 .. K |->
             [hash |-> IF k = 1 THEN 0 ELSE leaves[First(k)].hash,
              entries |-> [j \in 1 .. Min({k * per, n}) - First(k) + 1 |->
                 [hash |-> IndexHash(leaves, First(k), First(k) + j - 1),
                  leaf |-> First(k) + j - 1]]]]
  BY DEF IndexOver
<1> HIDE DEF n, per, ix, h
<1>5. K \in Nat \ {0} /\ (K - 1) * per < n /\ n <= K * per
  BY <1>1, <1>2, NodesAre
<1> HIDE DEF K
<1>6. /\ \A k \in 1 .. K : /\ First(k) \in 1 .. n /\ First(k) <= last(k)
                           /\ last(k) \in 1 .. n /\ Min({k * per, n}) = last(k)
      /\ \A k, l \in 1 .. K : k < l => (k - 1) * per < (l - 1) * per
      /\ \A l \in 1 .. n : \E k \in 1 .. K : First(k) <= l /\ l <= last(k)
  BY <1>1, <1>2, <1>5, NodesBegin
<1>7. \A k \in 1 .. K : First(k) \in Nat /\ last(k) \in Nat
  <2> HIDE DEF First, last
  <2> TAKE k \in 1 .. K
  <2>1. First(k) \in 1 .. n /\ last(k) \in 1 .. n
    BY <1>6
  <2> QED  BY <1>1, <2>1
<1>8. \A k \in 1 .. K : first[k] = First(k) /\ first[k + 1] = last(k) + 1
  <2> TAKE k \in 1 .. K
  <2>1. k \in 1 .. K + 1 /\ k # K + 1 /\ k + 1 \in 1 .. K + 1 /\ (k + 1 = K + 1 <=> k = K)
        /\ (k + 1) - 1 = k
    BY <1>5
  <2> QED  BY <2>1
<1>9. first[K + 1] = n + 1
  <2>1. K + 1 \in 1 .. K + 1
    BY <1>5
  <2> QED  BY <2>1
<1>10. DOMAIN first = 1 .. K + 1
  OBVIOUS
<1>11. \A k \in 1 .. K : (k - 1) * per \in Nat
  BY <1>2, <1>5
<1>12. first[1] = 1
  <2>1. 1 \in 1 .. K /\ 1 - 1 = 0 /\ 0 * per = 0
    BY <1>2, <1>5
  <2>2. first[1] = (1 - 1) * per + 1
    BY <1>8, <2>1
  <2>3. (1 - 1) * per = 0
    BY <1>2
  <2> QED  BY <2>2, <2>3
<1>13. first = [k \in 1 .. K + 1 |-> IF k = K + 1 THEN n + 1 ELSE First(k)]
  OBVIOUS
<1> HIDE DEF first, last
<1>14. first \in [1 .. K + 1 -> Nat]
  <2>1. \A k \in 1 .. K + 1 : first[k] \in Nat
    <3> TAKE k \in 1 .. K + 1
    <3>1. CASE k = K + 1
      BY <1>1, <1>9, <3>1
    <3>2. CASE k # K + 1
      <4>1. k \in 1 .. K
        BY <1>5, <3>2
      <4> HIDE DEF First
      <4> QED  BY <1>8, <1>7, <4>1
    <3> QED  BY <3>1, <3>2
  <2> QED  BY <1>13, <2>1
<1>15. \A k, l \in 1 .. K + 1 : k < l => first[k] < first[l]
  <2> TAKE k, l \in 1 .. K + 1
  <2> HAVE k < l
  <2>1. k \in 1 .. K
    BY <1>5
  <2>2. CASE l = K + 1
    <3>1. first[k] = First(k) /\ First(k) \in 1 .. n
      BY <1>6, <1>8, <2>1
    <3> HIDE DEF First
    <3> QED  BY <1>1, <1>9, <2>2, <3>1
  <2>3. CASE l # K + 1
    <3>1. l \in 1 .. K
      BY <1>5, <2>3
    <3> DEFINE x == (k - 1) * per
               y == (l - 1) * per
    <3>2. x \in Nat /\ y \in Nat /\ x < y /\ first[k] = x + 1 /\ first[l] = y + 1
      BY <1>6, <1>8, <1>11, <2>1, <3>1
    <3> HIDE DEF x, y
    <3> QED  BY <3>2
  <2> QED  BY <2>2, <2>3
<1>16. \A l \in 1 .. n : \E k \in 1 .. K : first[k] <= l /\ l < first[k + 1]
  <2> TAKE l \in 1 .. n
  <2> HIDE DEF First
  <2>1. PICK k \in 1 .. K : First(k) <= l /\ l <= last(k)
    BY <1>6
  <2>2. last(k) \in Nat
    BY <1>7
  <2>3. first[k] <= l /\ l < first[k + 1]
    BY <1>8, <2>1, <2>2
  <2> QED  BY <2>3
<1>17. Len(ix) = K /\ DOMAIN ix = 1 .. K
  BY <1>4, <1>5
<1>18. ASSUME NEW k \in 1 .. K
       PROVE  /\ ix[k].hash = IF k = 1 THEN 0 ELSE h[first[k]]
              /\ Len(ix[k].entries) = first[k + 1] - first[k]
              /\ DOMAIN ix[k].entries = 1 .. first[k + 1] - first[k]
              /\ \A j \in 1 .. first[k + 1] - first[k] :
                    /\ ix[k].entries[j].leaf = first[k] + j - 1
                    /\ ix[k].entries[j].hash = IF j = 1 THEN 0 ELSE h[first[k] + j - 1]
  <2> DEFINE a == first[k]
             b == first[k + 1]
  <2>1. /\ a = First(k) /\ b = Min({k * per, n}) + 1 /\ a \in 1 .. n /\ b \in 1 .. n + 1 /\ a < b
        /\ Min({k * per, n}) - First(k) + 1 = b - a
    <3> DEFINE m == Min({k * per, n})
    <3>1. a = First(k) /\ b = m + 1 /\ First(k) \in 1 .. n /\ m \in 1 .. n /\ First(k) <= m
      BY <1>6, <1>8
    <3> HIDE DEF m, a, b, First
    <3>2. a \in 1 .. n /\ b \in 1 .. n + 1 /\ a < b /\ m - First(k) + 1 = b - a
      BY <1>1, <3>1
    <3> QED  BY <3>1, <3>2 DEF m
  <2>2. ix[k] = [hash |-> IF k = 1 THEN 0 ELSE leaves[a].hash,
                 entries |-> [j \in 1 .. b - a |->
                     [hash |-> IndexHash(leaves, a, a + j - 1), leaf |-> a + j - 1]]]
    BY <1>4, <2>1
  <2> HIDE DEF a, b
  <2>3. b - a \in Nat
    BY <1>1, <2>1
  <2>4. ix[k].hash = IF k = 1 THEN 0 ELSE h[a]
    BY <1>3, <2>1, <2>2
  <2>5. Len(ix[k].entries) = b - a /\ DOMAIN ix[k].entries = 1 .. b - a
    BY <2>2, <2>3
  <2>6. ASSUME NEW j \in 1 .. b - a
        PROVE  /\ ix[k].entries[j].leaf = a + j - 1
               /\ ix[k].entries[j].hash = IF j = 1 THEN 0 ELSE h[a + j - 1]
    <3>1. a + j - 1 \in 1 .. n /\ (a + j - 1 = a <=> j = 1)
      BY <1>1, <2>1
    <3> QED  BY <1>3, <2>2, <3>1 DEF IndexHash
  <2> QED  BY <2>4, <2>5, <2>6 DEF a, b
<1>19. Over(ix, n, h, first)
  BY <1>1, <1>3, <1>5, <1>9, <1>12, <1>14, <1>15, <1>16, <1>17, <1>18 DEF Over
<1> QED  BY <1>19 DEF n, ix, h

(***************************************************************************)
(* Where a hash leads.                                                     *)
(***************************************************************************)
\* Find takes the last entry whose hash is not above the one looked for, or the first.
LEMMA FindIs ==
    ASSUME NEW entries, NEW n \in Nat \ {0}, DOMAIN entries = 1 .. n, NEW hash \in Nat,
           \A i \in 1 .. n : entries[i].hash \in Nat
    PROVE  /\ Find(entries, hash) \in 1 .. n
           /\ Find(entries, hash) = 1 \/ entries[Find(entries, hash)].hash <= hash
           /\ \A i \in 1 .. n : i > Find(entries, hash) => hash < entries[i].hash
<1> DEFINE S == {i \in 1 .. n : i = 1 \/ entries[i].hash <= hash}
           at == Max(S)
<1>1. Find(entries, hash) = at
  BY DEF Find
<1>2. S \in SUBSET (1 .. n) /\ S # {}
  <2>1. 1 \in S
    OBVIOUS
  <2> QED  BY <2>1
<1>3. at \in S /\ \A i \in S : i <= at
  <2> HIDE DEF S
  <2> QED  BY <1>2, MaxIs
<1> HIDE DEF at
<1>4. \A i \in 1 .. n : i > at => hash < entries[i].hash
  BY <1>3
<1> QED  BY <1>1, <1>3, <1>4

\* The hashes of the leaves do not fall.
Rising(n, h) == \A i, j \in 1 .. n : i <= j => h[i] <= h[j]

\* Where the leaves of a node begin and end.
LEMMA NodeBounds ==
    ASSUME NEW ix, NEW n, NEW h, NEW first, Over(ix, n, h, first)
    PROVE  /\ \A p \in 1 .. Len(ix) : /\ first[p] \in 1 .. n /\ first[p + 1] \in 1 .. n + 1
                                      /\ first[p] < first[p + 1]
<1> DEFINE K == Len(ix)
<1>1. /\ n \in Nat \ {0} /\ K \in Nat \ {0} /\ first \in [1 .. K + 1 -> Nat]
      /\ first[1] = 1 /\ first[K + 1] = n + 1
      /\ \A p, q \in 1 .. K + 1 : p < q => first[p] < first[q]
  BY DEF Over
<1> HIDE DEF K
<1>2. \A p \in 1 .. K : /\ first[p] \in 1 .. n /\ first[p + 1] \in 1 .. n + 1
                        /\ first[p] < first[p + 1]
  <2> TAKE p \in 1 .. K
  <2>1. p \in 1 .. K + 1 /\ p + 1 \in 1 .. K + 1 /\ K + 1 \in 1 .. K + 1 /\ 1 \in 1 .. K + 1
    BY <1>1
  <2>2. \A x, y \in 1 .. K + 1 : x < y => first[x] < first[y]
    BY <1>1
  <2>3. first[p] \in Nat /\ first[p + 1] \in Nat /\ first[K + 1] = n + 1 /\ first[1] = 1
    BY <1>1, <2>1
  <2>4. first[p] >= 1 /\ first[p] < first[p + 1] /\ first[p + 1] <= n + 1
    <3>1. p = 1 \/ first[1] < first[p]
      BY <2>1, <2>2
    <3>2. p + 1 = K + 1 \/ first[p + 1] < first[K + 1]
      <4>1. p + 1 = K + 1 \/ p + 1 < K + 1
        BY <1>1
      <4> QED  BY <2>1, <2>2, <4>1
    <3>3. first[p] < first[p + 1]
      <4>1. p < p + 1
        OBVIOUS
      <4> QED  BY <2>1, <2>2, <4>1
    <3> QED  BY <1>1, <2>3, <3>1, <3>2, <3>3
  <2> QED  BY <1>1, <2>3, <2>4
<1> QED  BY <1>2 DEF K

\* A hash leads to leaf l, the last that starts no later, and on to those after it,
\* up to the last leaf of the node, whose hash is odd.
LeadsTo(ix, n, h, first, hash, l, end) ==
    /\ l \in 1 .. n /\ end \in l .. n
    /\ l = 1 \/ h[l] <= hash
    /\ l < n => hash < h[l + 1]
    /\ end = n \/ \E k \in 2 .. Len(ix) : end + 1 = first[k]

\* LeafRun reads that leaf and those of the node that go on with its hash.
LEMMA LeafRunIs ==
    ASSUME NEW n, NEW h, NEW first, Over(index, n, h, first), NEW hash \in Nat
    PROVE  \E l, end :
              /\ LeadsTo(index, n, h, first, hash, l, end)
              /\ LeafRun(hash) = {m \in l .. end : \A i \in l + 1 .. m : h[i] % 2 = 1}
              /\ Min(LeafRun(hash)) = l
<1> DEFINE K == Len(index)
           k == Find(index, hash)
           node == index[k].entries
           j == Find(node, hash)
           a == first[k]
           b == first[k + 1]
           l == a + j - 1
           end == b - 1
           run == {m \in l .. end : \A i \in l + 1 .. m : h[i] % 2 = 1}
<1>1. /\ n \in Nat \ {0} /\ h \in [1 .. n -> Nat] /\ K \in Nat \ {0} /\ DOMAIN index = 1 .. K
      /\ first \in [1 .. K + 1 -> Nat] /\ first[1] = 1 /\ first[K + 1] = n + 1
      /\ \A p, q \in 1 .. K + 1 : p < q => first[p] < first[q]
      /\ \A p \in 1 .. K :
            /\ index[p].hash = IF p = 1 THEN 0 ELSE h[first[p]]
            /\ DOMAIN index[p].entries = 1 .. first[p + 1] - first[p]
            /\ Len(index[p].entries) = first[p + 1] - first[p]
            /\ \A i \in 1 .. first[p + 1] - first[p] :
                  /\ index[p].entries[i].leaf = first[p] + i - 1
                  /\ index[p].entries[i].hash = IF i = 1 THEN 0 ELSE h[first[p] + i - 1]
  BY DEF Over
<1>2. \A p \in 1 .. K : /\ first[p] \in 1 .. n /\ first[p + 1] \in 1 .. n + 1
                        /\ first[p] < first[p + 1]
  BY NodeBounds
<1>3. \A p \in 1 .. K : index[p].hash \in Nat
  BY <1>1, <1>2
<1>4. /\ k \in 1 .. K /\ (k = 1 \/ index[k].hash <= hash)
      /\ \A p \in 1 .. K : p > k => hash < index[p].hash
  BY <1>1, <1>3, FindIs
<1> HIDE DEF k
<1>5. /\ a \in 1 .. n /\ b \in 1 .. n + 1 /\ a < b
      /\ DOMAIN node = 1 .. b - a /\ Len(node) = b - a
      /\ \A i \in 1 .. b - a : node[i].leaf = a + i - 1
                               /\ node[i].hash = IF i = 1 THEN 0 ELSE h[a + i - 1]
      /\ index[k].hash = IF k = 1 THEN 0 ELSE h[a]
  BY <1>1, <1>2, <1>4
<1>6. k \in Nat /\ K \in Nat /\ k <= K
  BY <1>1, <1>4
<1>7. (k = K => b = n + 1) /\ (k = 1 => a = 1)
  BY <1>1
<1>8. k < K => k + 1 \in 2 .. K /\ hash < h[b]
  <2> HAVE k < K
  <2>1. k + 1 \in 1 .. K /\ k + 1 > k /\ k + 1 # 1
    BY <1>1, <1>4
  <2>2. index[k + 1].hash = h[b]
    BY <1>1, <2>1
  <2> QED  BY <1>1, <1>4, <2>1, <2>2
<1> HIDE DEF node, a, b
<1>9. b - a \in Nat \ {0} /\ \A i \in 1 .. b - a : a + i - 1 \in 1 .. n
  BY <1>1, <1>5
<1>10. \A i \in 1 .. b - a : node[i].hash \in Nat
  <2> TAKE i \in 1 .. b - a
  <2>1. a + i - 1 \in 1 .. n
    BY <1>9
  <2>2. h[a + i - 1] \in Nat
    BY <1>1, <2>1
  <2> QED  BY <1>5, <2>2
<1>11. /\ j \in 1 .. b - a /\ (j = 1 \/ node[j].hash <= hash)
       /\ \A i \in 1 .. b - a : i > j => hash < node[i].hash
  BY <1>5, <1>9, <1>10, FindIs
<1>12. LeafRun(hash) = {node[i].leaf : i \in {m \in j .. Len(node) :
                            \A p \in j + 1 .. m : node[p].hash % 2 = 1}}
  BY Zenon DEF LeafRun, node, k
<1> HIDE DEF j
<1>13. l \in 1 .. n /\ end \in l .. n /\ a \in Nat /\ b \in Nat
  BY <1>1, <1>5, <1>11
<1>14. l = 1 \/ h[l] <= hash
  <2>1. CASE j = 1
    <3>1. l = a
      BY <1>13, <2>1
    <3> QED  BY <1>1, <1>4, <1>5, <1>7, <2>1, <3>1
  <2>2. CASE j # 1
    BY <1>5, <1>11, <2>2
  <2> QED  BY <2>1, <2>2
<1>15. l < n => hash < h[l + 1]
  <2> HAVE l < n
  <2>1. CASE j = b - a
    <3>1. l + 1 = b
      BY <1>13, <2>1
    <3>2. b # n + 1
      BY <1>1, <1>13, <3>1
    <3>3. k < K
      BY <1>7, <1>6, <3>2
    <3> QED  BY <1>8, <3>1, <3>3
  <2>2. CASE j # b - a
    <3>1. j + 1 \in 1 .. b - a /\ j + 1 > j /\ j + 1 # 1 /\ a + (j + 1) - 1 = l + 1
      BY <1>9, <1>11, <1>13, <2>2
    <3> QED  BY <1>5, <1>11, <3>1
  <2> QED  BY <2>1, <2>2
<1>16. end = n \/ \E p \in 2 .. K : end + 1 = first[p]
  <2>1. CASE k = K
    BY <1>1, <1>7, <2>1
  <2>2. CASE k # K
    <3>1. k < K
      BY <1>6, <2>2
    <3>2. k + 1 \in 2 .. K /\ end + 1 = first[k + 1]
      BY <1>8, <1>13, <3>1 DEF b
    <3> QED  BY <3>2
  <2> QED  BY <2>1, <2>2
<1>17. LeafRun(hash) = run
  <2>1. ASSUME NEW m \in j .. b - a
        PROVE  /\ node[m].leaf = a + m - 1 /\ a + m - 1 \in l .. end
               /\ (\A p \in j + 1 .. m : node[p].hash % 2 = 1)
                    <=> (\A i \in l + 1 .. a + m - 1 : h[i] % 2 = 1)
    <3>1. m \in 1 .. b - a /\ node[m].leaf = a + m - 1 /\ a + m - 1 \in l .. end
      BY <1>5, <1>9, <1>11, <1>13
    <3>2. ASSUME NEW p \in j + 1 .. m
          PROVE  a + p - 1 \in l + 1 .. a + m - 1 /\ node[p].hash = h[a + p - 1]
      <4>1. p \in 1 .. b - a /\ p # 1 /\ a + p - 1 \in l + 1 .. a + m - 1
        BY <1>11, <1>13, <3>1
      <4> QED  BY <1>5, <4>1
    <3>3. ASSUME NEW i \in l + 1 .. a + m - 1
          PROVE  \E p \in j + 1 .. m : i = a + p - 1
      <4>1. i - a + 1 \in j + 1 .. m /\ i = a + (i - a + 1) - 1
        BY <1>11, <1>13, <3>1
      <4> QED  BY <4>1
    <3> HIDE DEF l, end
    <3>4. ASSUME \A p \in j + 1 .. m : node[p].hash % 2 = 1,
                 NEW i \in l + 1 .. a + m - 1
          PROVE  h[i] % 2 = 1
      <4>1. PICK p \in j + 1 .. m : i = a + p - 1
        BY <3>3
      <4> QED  BY <3>2, <3>4, <4>1
    <3>5. ASSUME \A i \in l + 1 .. a + m - 1 : h[i] % 2 = 1,
                 NEW p \in j + 1 .. m
          PROVE  node[p].hash % 2 = 1
      BY <3>2, <3>5
    <3> QED  BY <3>1, <3>4, <3>5
  <2>2. \A m \in l .. end : m - a + 1 \in j .. b - a /\ m = a + (m - a + 1) - 1
    BY <1>11, <1>13
  <2> DEFINE Odd(m) == \A p \in j + 1 .. m : node[p].hash % 2 = 1
             OddTo(m) == \A i \in l + 1 .. m : h[i] % 2 = 1
  <2>3. LeafRun(hash) = {node[i].leaf : i \in {m \in j .. b - a : Odd(m)}}
    BY <1>5, <1>12
  <2>4. run = {m \in l .. end : OddTo(m)}
    OBVIOUS
  <2>5. \A m \in j .. b - a : /\ node[m].leaf = a + m - 1 /\ a + m - 1 \in l .. end
                              /\ Odd(m) <=> OddTo(a + m - 1)
    BY <2>1
  <2> HIDE DEF Odd, OddTo, l, end, run
  <2>6. \A x \in LeafRun(hash) : x \in run
    BY <2>3, <2>4, <2>5
  <2>7. ASSUME NEW x \in run  PROVE  x \in LeafRun(hash)
    <3>1. x \in l .. end /\ OddTo(x)
      BY <2>4
    <3> DEFINE i == x - a + 1
    <3>2. i \in j .. b - a /\ x = a + i - 1
      BY <2>2, <3>1
    <3> HIDE DEF i
    <3>3. Odd(i) /\ node[i].leaf = x
      BY <2>5, <3>1, <3>2
    <3> QED  BY <2>3, <3>2, <3>3
  <2> QED  BY <2>6, <2>7
<1>18. Min(run) = l
  <2>1. run \in SUBSET Nat /\ l \in run
    <3>1. \A i \in l + 1 .. l : FALSE
      BY <1>13
    <3>2. l \in run
      BY <1>13, <3>1
    <3> QED  BY <1>13, <3>2
  <2>2. \A m \in run : l <= m
    BY <1>13
  <2> HIDE DEF run, l
  <2>3. Min(run) \in run /\ \A y \in run : Min(run) <= y
    BY <2>1, MinIs
  <2>4. Min(run) \in Nat /\ l \in Nat
    BY <2>1, <2>3
  <2> QED  BY <2>1, <2>2, <2>3, <2>4
<1>19. LeadsTo(index, n, h, first, hash, l, end)
  BY <1>13, <1>14, <1>15, <1>16 DEF LeadsTo
<1> HIDE DEF l, end
<1> QED  BY <1>17, <1>18, <1>19

(***************************************************************************)
(* The invariant.                                                          *)
(***************************************************************************)
\* A name lies in one block.
Once == \A a, b \in 1 .. Len(blocks) : a # b =>
            EntryNames(blocks[a]) \cap EntryNames(blocks[b]) \subseteq {Dead}

\* What a leaf holds lies between its own hash, which may be one too high if it goes on
\* with the hash of the leaf before, and the hash of the next leaf.  The first leaf
\* takes whatever lies below.
Between(h) == \A l \in 1 .. Len(blocks) : \A m \in EntryNames(blocks[l]) \ {Dead} :
    /\ m \in Names
    /\ l = 1 \/ h[l] <= Hash[m] + 1
    /\ l < Len(blocks) => Hash[m] < h[l + 1]

\* The index gives the leaves the hashes h, by which the names lie in them.
Guided(h, first) ==
    /\ Over(index, Len(blocks), h, first)
    /\ Rising(Len(blocks), h)
    /\ Between(h)

Inv ==
    /\ dirIndex \in BOOLEAN /\ missing \in SUBSET Names
    /\ blocks \in Seq(Seq(Entries)) /\ blocks # <<>>
    /\ \A b \in 1 .. Len(blocks) : Block(blocks[b])
    /\ Once
    /\ index = <<>> \/ \E h, first : Guided(h, first)

\* The names in blocks of entries.
HeldIn(bs) == (UNION {EntryNames(bs[b]) : b \in DOMAIN bs}) \ {Dead, Dots}

\* What blocks of entries hold.
LEMMA HoldsIn ==
    ASSUME NEW bs \in Seq(Seq(Entries))
    PROVE  /\ DOMAIN bs = 1 .. Len(bs)
           /\ \A b \in 1 .. Len(bs) : EntryNames(bs[b]) \subseteq Names \cup {Dead, Dots}
           /\ \A x : x \in HeldIn(bs) <=> x \in Names /\ \E b \in 1 .. Len(bs) :
                                                           x \in EntryNames(bs[b])
<1>1. DOMAIN bs = 1 .. Len(bs)
  OBVIOUS
<1>2. ASSUME NEW b \in 1 .. Len(bs)
      PROVE  EntryNames(bs[b]) \subseteq Names \cup {Dead, Dots}
  <2> DEFINE block == bs[b]
  <2>1. block \in Seq(Entries)
    OBVIOUS
  <2> HIDE DEF block
  <2>2. DOMAIN block = 1 .. Len(block) /\ \A i \in 1 .. Len(block) : block[i] \in Entries
    BY <2>1
  <2>3. EntryNames(block) \subseteq Names \cup {Dead, Dots}
    BY <2>2 DEF EntryNames, Entries
  <2> QED  BY <2>3 DEF block
<1>3. \A x : x \in HeldIn(bs) <=> x \notin {Dead, Dots} /\ \E b \in 1 .. Len(bs) :
                                                               x \in EntryNames(bs[b])
  <2> DEFINE held(b) == EntryNames(bs[b])
             D == DOMAIN bs
  <2>1. HeldIn(bs) = (UNION {held(b) : b \in D}) \ {Dead, Dots}
    BY Zenon DEF HeldIn
  <2>2. D = 1 .. Len(bs)
    BY <1>1
  <2> HIDE DEF held, D
  <2>3. \A x : x \in UNION {held(b) : b \in D} <=> \E b \in D : x \in held(b)
    BY Zenon
  <2>4. \A x : x \in HeldIn(bs) <=> x \notin {Dead, Dots} /\ \E b \in D : x \in held(b)
    BY <2>1, <2>3, Zenon
  <2> QED  BY <2>2, <2>4, Zenon DEF held
<1> QED  BY <1>1, <1>2, <1>3, Sizes

\* What a block and a directory hold.
LEMMA Holds ==
    ASSUME Inv
    PROVE  /\ Len(blocks) \in Nat \ {0} /\ DOMAIN blocks = 1 .. Len(blocks)
           /\ \A b \in 1 .. Len(blocks) :
                 EntryNames(blocks[b]) \subseteq Names \cup {Dead, Dots}
           /\ \A x : x \in Stored <=> x \in Names /\ \E b \in 1 .. Len(blocks) :
                                                         x \in EntryNames(blocks[b])
           /\ Stored \in SUBSET Names
<1>1. blocks \in Seq(Seq(Entries)) /\ blocks # <<>>
  BY DEF Inv
<1>2. Stored = HeldIn(blocks)
  BY Zenon DEF Stored, HeldIn
<1>3. /\ DOMAIN blocks = 1 .. Len(blocks)
      /\ \A b \in 1 .. Len(blocks) : EntryNames(blocks[b]) \subseteq Names \cup {Dead, Dots}
      /\ \A x : x \in Stored <=> x \in Names /\ \E b \in 1 .. Len(blocks) :
                                                    x \in EntryNames(blocks[b])
  BY <1>1, <1>2, HoldsIn
<1> QED  BY <1>1, <1>3

\* A directory begins as a list of one block.
LEMMA InitInv ==
    ASSUME Init  PROVE  Inv
<1> DEFINE e == [name |-> Dots, span |-> Limit]
           block == <<e>>
<1>1. blocks = <<block>> /\ dirIndex \in BOOLEAN /\ index = <<>> /\ missing = {}
  BY DEF Init
<1>2. e \in Entries /\ e.name = Dots /\ e.span = Limit
  BY Sizes DEF Entries
<1> HIDE DEF e
<1>3. /\ block \in Seq(Entries) /\ Len(block) = 1 /\ block[1] = e
  BY <1>2
<1> HIDE DEF block
<1>4. block \in Seq(RawEntries) /\ Lawful(block)
  <2>1. e \in RawEntries
    BY <1>2, Sizes DEF Entries, RawEntries
  <2>2. block \in Seq(RawEntries)
    <3>1. block \in [1 .. 1 -> RawEntries]
      BY <1>3, <2>1
    <3> QED  BY <3>1, SeqIs
  <2>3. Lawful(block)
    BY <1>2, <1>3, Sizes DEF Lawful
  <2> QED  BY <2>2, <2>3
<1>5. Block(block)
  <2> DEFINE p == [k \in 0 .. 1 |-> IF k = 0 THEN 0 ELSE Limit]
  <2>1. SpansOf(block) = [i \in 1 .. 1 |-> Limit]
    BY <1>2, <1>3 DEF SpansOf
  <2>2. Sums(Len(block), SpansOf(block), p) /\ p[Len(block)] = Limit
    <3>1. p \in [0 .. 1 -> Nat] /\ p[0] = 0 /\ p[1] = Limit
      BY Sizes
    <3> HIDE DEF p
    <3> QED  BY <1>3, <2>1, <3>1 DEF Sums
  <2> HIDE DEF p
  <2> QED  BY <1>4, <2>2, SumsMakeBlock
<1>6. /\ Len(blocks) = 1 /\ blocks[1] = block /\ blocks \in Seq(Seq(Entries)) /\ blocks # <<>>
  BY <1>1, <1>3
<1>7. \A b \in 1 .. Len(blocks) : Block(blocks[b])
  BY <1>5, <1>6
<1>8. Once
  BY <1>6 DEF Once
<1> QED  BY <1>1, <1>6, <1>7, <1>8 DEF Inv

\* The blocks a call reads.
LEMMA SearchedIs ==
    ASSUME Inv, NEW n \in Names
    PROVE  /\ Searched(n) \in SUBSET (1 .. Len(blocks))
           /\ Holding(n) \in SUBSET (1 .. Len(blocks))
           /\ Open(n) \in SUBSET (1 .. Len(blocks))
           /\ \A b \in Open(n) : Gaps(blocks[b], n) # {} /\ (Indexed => b = Min(Searched(n)))
           /\ \A h, first : Indexed /\ Guided(h, first) => \E l, end :
                 /\ LeadsTo(index, Len(blocks), h, first, Hash[n], l, end)
                 /\ Searched(n) = {m \in l .. end : \A i \in l + 1 .. m : h[i] % 2 = 1}
                 /\ Min(Searched(n)) = l
<1>1. Len(blocks) \in Nat \ {0} /\ DOMAIN blocks = 1 .. Len(blocks) /\ Hash[n] \in Nat
  BY Holds, NamesAssumption
<1>2. CASE ~ Indexed
  <2>1. Searched(n) = 1 .. Len(blocks) /\ Open(n) = {b \in Searched(n) : Gaps(blocks[b], n) # {}}
    BY <1>1, <1>2 DEF Searched, Open
  <2> QED  BY <1>2, <2>1 DEF Holding
<1>3. CASE Indexed
  <2>1. ASSUME NEW h, NEW first, Guided(h, first)
        PROVE  \E l, end :
                 /\ LeadsTo(index, Len(blocks), h, first, Hash[n], l, end)
                 /\ Searched(n) = {m \in l .. end : \A i \in l + 1 .. m : h[i] % 2 = 1}
                 /\ Min(Searched(n)) = l
    <3>1. Searched(n) = LeafRun(Hash[n])
      BY <1>3 DEF Searched
    <3> DEFINE N == Len(blocks)
    <3>2. Over(index, N, h, first)
      BY <2>1 DEF Guided
    <3> HIDE DEF N
    <3>3. PICK l, end :
              /\ LeadsTo(index, N, h, first, Hash[n], l, end)
              /\ LeafRun(Hash[n]) = {m \in l .. end : \A i \in l + 1 .. m : h[i] % 2 = 1}
              /\ Min(LeafRun(Hash[n])) = l
      <4> DEFINE H == Hash[n]
      <4>1. H \in Nat
        BY <1>1
      <4> HIDE DEF H
      <4>2. \E l, end :
               /\ LeadsTo(index, N, h, first, H, l, end)
               /\ LeafRun(H) = {m \in l .. end : \A i \in l + 1 .. m : h[i] % 2 = 1}
               /\ Min(LeafRun(H)) = l
        BY <3>2, <4>1, LeafRunIs
      <4> QED  BY <4>2 DEF H
    <3> QED  BY <3>1, <3>3 DEF N
  <2>2. PICK h, first : Guided(h, first)
    BY <1>3 DEF Inv, Indexed
  <2>3. PICK l, end :
            /\ LeadsTo(index, Len(blocks), h, first, Hash[n], l, end)
            /\ Searched(n) = {m \in l .. end : \A i \in l + 1 .. m : h[i] % 2 = 1}
            /\ Min(Searched(n)) = l
    BY <2>1, <2>2
  <2>4. l \in 1 .. Len(blocks) /\ end \in l .. Len(blocks)
    BY <2>3 DEF LeadsTo
  <2>5. Searched(n) \in SUBSET (1 .. Len(blocks))
    <3>1. \A m \in l .. end : m \in 1 .. Len(blocks)
      BY <1>1, <2>4
    <3> QED  BY <2>3, <3>1
  <2>6. Open(n) = {b \in {Min(Searched(n))} : Gaps(blocks[b], n) # {}}
    BY <1>3 DEF Open
  <2>7. Min(Searched(n)) \in 1 .. Len(blocks)
    BY <2>3, <2>4
  <2> QED  BY <2>1, <2>5, <2>6, <2>7 DEF Holding
<1> QED  BY <1>2, <1>3

\* Where a name lies depends on the starts of its entries in each block.
PlacesIn(bs, n) == UNION {{<<b, Spans(SubSeq(bs[b], 1, i - 1))>> :
                       i \in {j \in DOMAIN bs[b] : bs[b][j].name = n}} : b \in DOMAIN bs}

\* They are where its entries start.
LEMMA PlacesAre ==
    ASSUME NEW bs, NEW n
    PROVE  PlacesIn(bs, n) = UNION {{<<b, s>> : s \in StartsOf(bs[b], n)} : b \in DOMAIN bs}
<1> DEFINE old(b) == {<<b, Spans(SubSeq(bs[b], 1, i - 1))>> :
                         i \in {j \in DOMAIN bs[b] : bs[b][j].name = n}}
           new(b) == {<<b, s>> : s \in StartsOf(bs[b], n)}
           D == DOMAIN bs
<1>1. \A b : old(b) = new(b)
  BY Zenon DEF StartsOf
<1> HIDE DEF old, new, D
<1>2. UNION {old(b) : b \in D} = UNION {new(b) : b \in D}
  BY <1>1
<1> QED  BY <1>2 DEF old, new, D, PlacesIn

\* Names stay where they are while no block changes.
LEMMA PlacesStay ==
    ASSUME NEW n, blocks' = blocks
    PROVE  Places(n)' = Places(n)
<1>1. Places(n) = PlacesIn(blocks, n) /\ Places(n)' = PlacesIn(blocks', n)
  BY Zenon DEF Places, Offset, PlacesIn
<1> QED  BY <1>1

(***************************************************************************)
(* A call that writes one block.                                           *)
(***************************************************************************)
\* Where a new name may lie: in no other block, and where its hash leads.
Fits(n, b) ==
    /\ \A c \in 1 .. Len(blocks) : c # b => n \notin EntryNames(blocks[c])
    /\ \A h, first : Guided(h, first) =>
          /\ b = 1 \/ h[b] <= Hash[n] + 1
          /\ b < Len(blocks) => Hash[n] < h[b + 1]

\* A block gives way to one that differs from it in one name.
LEMMA OneBlock ==
    ASSUME Inv, NEW n \in Names, NEW b \in 1 .. Len(blocks), NEW block, Block(block),
           blocks' = [blocks EXCEPT ![b] = block], missing' \in SUBSET Names,
           UNCHANGED <<dirIndex, index>>,
           EntryNames(block) \ {Dead} \subseteq (EntryNames(blocks[b]) \ {Dead}) \cup {n},
           n \in EntryNames(block) => Fits(n, b),
           \A m \in Names \ {n} : StartsOf(block, m) = StartsOf(blocks[b], m)
    PROVE  /\ Inv'
           /\ \A m \in Names \ {n} : Places(m)' = Places(m)
<1>1. /\ Len(blocks) \in Nat \ {0} /\ DOMAIN blocks = 1 .. Len(blocks)
      /\ blocks \in Seq(Seq(Entries)) /\ block \in Seq(Entries)
  BY Holds DEF Inv, Block
<1>2. /\ blocks' \in Seq(Seq(Entries)) /\ blocks' # <<>> /\ Len(blocks') = Len(blocks)
      /\ DOMAIN blocks' = 1 .. Len(blocks) /\ blocks'[b] = block
      /\ \A c \in 1 .. Len(blocks) : c # b => blocks'[c] = blocks[c]
  <2>1. blocks' \in [1 .. Len(blocks) -> Seq(Entries)]
    BY <1>1
  <2>2. blocks' \in Seq(Seq(Entries)) /\ Len(blocks') = Len(blocks)
        /\ DOMAIN blocks' = 1 .. Len(blocks)
    BY <1>1, <2>1, SeqIs
  <2>3. blocks' # <<>>
    BY <1>1, <2>2
  <2> QED  BY <1>1, <2>2, <2>3
<1>3. \A c \in 1 .. Len(blocks') : Block(blocks'[c])
  BY <1>2 DEF Inv
<1>4. \A c \in 1 .. Len(blocks) : \A m \in EntryNames(blocks'[c]) \ {Dead} :
         m \in EntryNames(blocks[c]) \/ (c = b /\ m = n /\ n \in EntryNames(block))
  BY <1>2
<1>5. n # Dead /\ Dead \notin Names
  BY Sizes
<1>6. Once'
  <2> SUFFICES ASSUME NEW c \in 1 .. Len(blocks), NEW d \in 1 .. Len(blocks), c # d,
                      NEW m, m \in EntryNames(blocks'[c]), m \in EntryNames(blocks'[d]), m # Dead
               PROVE  FALSE
    BY <1>2 DEF Once
  <2>1. CASE m \in EntryNames(blocks[c]) /\ m \in EntryNames(blocks[d])
    <3>1. Once
      BY DEF Inv
    <3>2. EntryNames(blocks[c]) \cap EntryNames(blocks[d]) \subseteq {Dead}
      BY <3>1 DEF Once
    <3> QED  BY <2>1, <3>2
  <2>2. CASE c = b /\ m = n /\ n \in EntryNames(block)
    <3>1. m \in EntryNames(blocks[d])
      BY <1>4, <2>2
    <3> QED  BY <2>2, <3>1 DEF Fits
  <2>3. CASE d = b /\ m = n /\ n \in EntryNames(block)
    <3>1. m \in EntryNames(blocks[c])
      BY <1>4, <2>3
    <3> QED  BY <2>3, <3>1 DEF Fits
  <2> QED  BY <1>4, <2>1, <2>2, <2>3
<1>7. (index = <<>> \/ \E h, first : Guided(h, first))'
  <2>1. CASE index = <<>>
    BY <2>1
  <2>2. CASE index # <<>>
    <3>1. PICK h, first : Guided(h, first)
      BY <2>2 DEF Inv
    <3>2. Over(index', Len(blocks'), h, first) /\ Rising(Len(blocks'), h)
      BY <1>2, <3>1 DEF Guided
    <3>3. Between(h)'
      <4> SUFFICES ASSUME NEW l \in 1 .. Len(blocks), NEW m \in EntryNames(blocks'[l]) \ {Dead}
                   PROVE  /\ m \in Names
                          /\ l = 1 \/ h[l] <= Hash[m] + 1
                          /\ l < Len(blocks) => Hash[m] < h[l + 1]
        BY <1>2 DEF Between
      <4>1. CASE m \in EntryNames(blocks[l])
        BY <3>1, <4>1 DEF Guided, Between
      <4>2. CASE l = b /\ m = n /\ n \in EntryNames(block)
        BY <3>1, <4>2 DEF Fits
      <4> QED  BY <1>4, <4>1, <4>2
    <3>4. Guided(h, first)'
      BY <3>2, <3>3 DEF Guided
    <3> QED  BY <3>4
  <2> QED  BY <2>1, <2>2
<1>8. ASSUME NEW m \in Names \ {n}  PROVE  Places(m)' = Places(m)
  <2>1. \A c \in 1 .. Len(blocks) : StartsOf(blocks'[c], m) = StartsOf(blocks[c], m)
    BY <1>2
  <2>2. Places(m) = UNION {{<<c, s>> : s \in StartsOf(blocks[c], m)} : c \in 1 .. Len(blocks)}
    <3>1. Places(m) = UNION {{<<c, s>> : s \in StartsOf(blocks[c], m)} : c \in DOMAIN blocks}
      BY PlacesAre DEF Places, Offset, PlacesIn
    <3> QED  BY <1>1, <3>1
  <2>3. Places(m)' = UNION {{<<c, s>> : s \in StartsOf(blocks'[c], m)} : c \in 1 .. Len(blocks)}
    <3>1. Places(m)' = UNION {{<<c, s>> : s \in StartsOf(blocks'[c], m)} : c \in DOMAIN blocks'}
      BY PlacesAre DEF Places, Offset, PlacesIn
    <3> QED  BY <1>2, <3>1
  <2> DEFINE old(c) == {<<c, s>> : s \in StartsOf(blocks[c], m)}
             new(c) == {<<c, s>> : s \in StartsOf(blocks'[c], m)}
  <2>4. \A c \in 1 .. Len(blocks) : old(c) = new(c)
    BY <2>1
  <2>5. Places(m) = UNION {old(c) : c \in 1 .. Len(blocks)}
        /\ Places(m)' = UNION {new(c) : c \in 1 .. Len(blocks)}
    BY <2>2, <2>3
  <2> HIDE DEF old, new
  <2> QED  BY <2>4, <2>5
<1>9. Inv'
  BY <1>2, <1>3, <1>6, <1>7 DEF Inv
<1> QED  BY <1>8, <1>9

\* A name that is added where its hash leads fits there.
LEMMA LinkFits ==
    ASSUME Inv, NEW n \in Names, n \notin Stored, NEW b \in Open(n)
    PROVE  Fits(n, b)
<1>1. \A c \in 1 .. Len(blocks) : n \notin EntryNames(blocks[c])
  BY Holds
<1>2. ASSUME NEW h, NEW first, Guided(h, first)
      PROVE  /\ b = 1 \/ h[b] <= Hash[n] + 1
             /\ b < Len(blocks) => Hash[n] < h[b + 1]
  <2>1. Indexed
    BY <1>2 DEF Guided, Over, Indexed
  <2>2. PICK l, end : /\ LeadsTo(index, Len(blocks), h, first, Hash[n], l, end)
                      /\ Min(Searched(n)) = l
    BY <1>2, <2>1, SearchedIs
  <2>3. b = l
    BY <2>1, <2>2, SearchedIs
  <2>4. l \in 1 .. Len(blocks) /\ h[l] \in Nat /\ Hash[n] \in Nat
    BY <1>2, <2>2, NamesAssumption DEF Guided, Over, LeadsTo
  <2> QED  BY <2>2, <2>3, <2>4 DEF LeadsTo
<1> QED  BY <1>1, <1>2 DEF Fits

\* What is stored after a block gave way to another.
LEMMA OneBlockStored ==
    ASSUME Inv, Inv', NEW b \in 1 .. Len(blocks), NEW block,
           blocks' = [blocks EXCEPT ![b] = block]
    PROVE  \A x : x \in Stored' <=> /\ x \in Names
                                    /\ \/ x \in EntryNames(block)
                                       \/ \E c \in 1 .. Len(blocks) \ {b} :
                                             x \in EntryNames(blocks[c])
<1>1. DOMAIN blocks = 1 .. Len(blocks)
  BY Holds
<1>2. /\ DOMAIN blocks' = 1 .. Len(blocks) /\ blocks'[b] = block
      /\ \A c \in 1 .. Len(blocks) : c # b => blocks'[c] = blocks[c]
  BY <1>1
<1>3. \A x : x \in Stored' <=> x \in Names /\ \E c \in DOMAIN blocks' : x \in EntryNames(blocks'[c])
  <2>1. blocks' \in Seq(Seq(Entries))
    BY DEF Inv
  <2>2. Stored' = HeldIn(blocks')
    BY Zenon DEF Stored, HeldIn
  <2> QED  BY <2>1, <2>2, HoldsIn
<1> QED  BY <1>2, <1>3

\* A name added to a block there is (indexed_link, link_into).
LEMMA LinkKeeps ==
    ASSUME Inv, NEW n \in Names, Link(n)
    PROVE  /\ Inv' /\ Stored' = Stored \cup {n}
           /\ \A m \in Names \ {n} : Places(m)' = Places(m)
<1> DEFINE b == Min(Open(n))
           block == AddEntry(blocks[b], n)
<1>1. /\ n \notin Stored /\ blocks' = [blocks EXCEPT ![b] = AddEntry(@, n)]
      /\ missing' = {} /\ UNCHANGED <<dirIndex, index>> /\ Open(n) # {}
  BY DEF Link
<1>2. b \in Open(n)
  <2>1. Len(blocks) \in Nat /\ Open(n) \in SUBSET (1 .. Len(blocks))
    BY Holds, SearchedIs
  <2>2. Open(n) \in SUBSET Nat
    BY <2>1
  <2> QED  BY <1>1, <2>2, MinIs
<1> HIDE DEF b
<1>3. b \in 1 .. Len(blocks) /\ Gaps(blocks[b], n) # {} /\ DOMAIN blocks = 1 .. Len(blocks)
  BY <1>2, SearchedIs, Holds
<1>4. n \notin EntryNames(blocks[b]) /\ Block(blocks[b])
  BY <1>1, <1>3, Holds DEF Inv
<1>5. /\ Block(block) /\ EntryNames(block) \ {Dead} = (EntryNames(blocks[b]) \ {Dead}) \cup {n}
      /\ \A m \in Names \ {n} : StartsOf(block, m) = StartsOf(blocks[b], m)
  BY <1>3, <1>4, AddedIs
<1>6. blocks' = [blocks EXCEPT ![b] = block]
  BY <1>1
<1> HIDE DEF block
<1>7. Fits(n, b)
  BY <1>1, <1>2, LinkFits
<1>8. Inv' /\ \A m \in Names \ {n} : Places(m)' = Places(m)
  BY <1>1, <1>3, <1>5, <1>6, <1>7, OneBlock
<1>9. Stored' = Stored \cup {n}
  <2>1. \A x : x \in Stored' <=> /\ x \in Names
                                 /\ \/ x \in EntryNames(block)
                                    \/ \E c \in 1 .. Len(blocks) \ {b} : x \in EntryNames(blocks[c])
    BY <1>3, <1>6, <1>8, OneBlockStored
  <2>2. \A x : x \in Stored <=> x \in Names /\ \E c \in 1 .. Len(blocks) :
                                                    x \in EntryNames(blocks[c])
    BY Holds
  <2>3. \A x \in Names : x \in EntryNames(block) <=> x \in EntryNames(blocks[b]) \/ x = n
    BY <1>5, Sizes
  <2>4. ASSUME NEW x  PROVE  x \in Stored' <=> x \in Stored \/ x = n
    BY <1>3, <2>1, <2>2, <2>3
  <2> QED  BY <2>4
<1> QED  BY <1>8, <1>9

\* A name removed (unlink_from, indexed_unlink).
LEMMA UnlinkKeeps ==
    ASSUME Inv, NEW n \in Names, Unlink(n)
    PROVE  /\ Inv' /\ n \in Stored /\ Stored' = Stored \ {n}
           /\ \A m \in Names \ {n} : Places(m)' = Places(m)
<1> DEFINE b == Min(Holding(n))
           block == CutEntry(blocks[b], n)
<1>1. /\ blocks' = [blocks EXCEPT ![b] = CutEntry(@, n)]
      /\ missing' = {} /\ UNCHANGED <<dirIndex, index>> /\ Holding(n) # {}
  BY DEF Unlink
<1>2. b \in Holding(n)
  <2>1. Len(blocks) \in Nat /\ Holding(n) \in SUBSET (1 .. Len(blocks))
    BY Holds, SearchedIs
  <2>2. Holding(n) \in SUBSET Nat
    BY <2>1
  <2> QED  BY <1>1, <2>2, MinIs
<1> HIDE DEF b
<1>3. b \in 1 .. Len(blocks) /\ n \in EntryNames(blocks[b]) /\ DOMAIN blocks = 1 .. Len(blocks)
  BY <1>2, SearchedIs, Holds DEF Holding
<1>4. Block(blocks[b])
  BY <1>3 DEF Inv
<1>5. /\ Block(block) /\ EntryNames(block) \ {Dead} = EntryNames(blocks[b]) \ {n, Dead}
      /\ \A m \in Names \ {n} : StartsOf(block, m) = StartsOf(blocks[b], m)
  BY <1>3, <1>4, CutIs
<1>6. blocks' = [blocks EXCEPT ![b] = block]
  BY <1>1
<1> HIDE DEF block
<1>7. n \notin EntryNames(block)
  BY <1>5, Sizes
<1>8. Inv' /\ \A m \in Names \ {n} : Places(m)' = Places(m)
  <2>1. EntryNames(block) \ {Dead} \subseteq (EntryNames(blocks[b]) \ {Dead}) \cup {n}
    BY <1>5
  <2> QED  BY <1>1, <1>3, <1>5, <1>6, <1>7, <2>1, OneBlock
<1>9. n \in Stored
  BY <1>3, Holds
<1>10. Stored' = Stored \ {n}
  <2>1. \A x : x \in Stored' <=> /\ x \in Names
                                 /\ \/ x \in EntryNames(block)
                                    \/ \E c \in 1 .. Len(blocks) \ {b} : x \in EntryNames(blocks[c])
    BY <1>3, <1>6, <1>8, OneBlockStored
  <2>2. \A x : x \in Stored <=> x \in Names /\ \E c \in 1 .. Len(blocks) :
                                                    x \in EntryNames(blocks[c])
    BY Holds
  <2>3. \A x \in Names : x \in EntryNames(block) <=> x \in EntryNames(blocks[b]) /\ x # n
    BY <1>5, Sizes
  <2>4. \A c \in 1 .. Len(blocks) : c # b => n \notin EntryNames(blocks[c])
    BY <1>3, Sizes DEF Inv, Once
  <2>5. ASSUME NEW x  PROVE  x \in Stored' <=> x \in Stored /\ x # n
    BY <1>3, <2>1, <2>2, <2>3, <2>4
  <2> QED  BY <2>5
<1> QED  BY <1>8, <1>9, <1>10

(***************************************************************************)
(* A directory that is a list takes a block more.                          *)
(***************************************************************************)
\* A block with no name in it (empty_block).
\* A block with no name in it (empty_block).
LEMMA EmptyBlockIs ==
    /\ Block(EmptyBlock) /\ EntryNames(EmptyBlock) = {Dead}
    /\ \A n \in Names : Gaps(EmptyBlock, n) # {} /\ StartsOf(EmptyBlock, n) = {}
<1> DEFINE e == [name |-> Dead, span |-> Limit]
           block == <<e>>
<1>1. EmptyBlock = block
  BY DEF EmptyBlock
<1>2. e \in RawEntries /\ e \in Entries /\ e.name = Dead /\ e.span = Limit
  BY Sizes DEF Entries, RawEntries
<1> HIDE DEF e
<1>3. Len(block) = 1 /\ block[1] = e /\ DOMAIN block = {1} /\ block \in [1 .. 1 -> RawEntries]
  BY <1>2
<1> HIDE DEF block
<1>4. block \in Seq(RawEntries)
  BY <1>3, SeqIs
<1>5. Lawful(block)
  BY <1>2, <1>3, Sizes DEF Lawful
<1>6. Block(block)
  <2> DEFINE p == [k \in 0 .. 1 |-> IF k = 0 THEN 0 ELSE Limit]
  <2>1. SpansOf(block) = [i \in 1 .. 1 |-> Limit]
    BY <1>2, <1>3 DEF SpansOf
  <2>2. p \in [0 .. 1 -> Nat] /\ p[0] = 0 /\ p[1] = Limit
    BY Sizes
  <2> HIDE DEF p
  <2>3. Sums(Len(block), SpansOf(block), p) /\ p[Len(block)] = Limit
    BY <1>3, <2>1, <2>2 DEF Sums
  <2> QED  BY <1>4, <1>5, <2>3, SumsMakeBlock
<1>7. EntryNames(block) = {Dead}
  BY <1>2, <1>3 DEF EntryNames
<1>8. ASSUME NEW n \in Names  PROVE  Gaps(block, n) # {} /\ StartsOf(block, n) = {}
  <2>1. Limit - 0 >= Need[n] /\ n # Dead /\ Size(Dead) = 0
    BY Sizes
  <2>2. 1 \in Gaps(block, n)
    BY <1>2, <1>3, <2>1 DEF Gaps
  <2>3. StartsOf(block, n) = {}
    BY <1>2, <1>3, <2>1 DEF StartsOf
  <2> QED  BY <2>2, <2>3
<1> QED  BY <1>1, <1>6, <1>7, <1>8

\* A name added to a new block (link_into).
LEMMA NewBlockKeeps ==
    ASSUME Inv, NEW n \in Names, LinkInNewBlock(n)
    PROVE  /\ Inv' /\ Stored' = Stored \cup {n}
           /\ \A m \in Names \ {n} : Places(m)' = Places(m)
<1> DEFINE block == AddEntry(EmptyBlock, n)
           N == Len(blocks)
<1>1. /\ n \notin Stored /\ index = <<>> /\ blocks' = Append(blocks, block)
      /\ missing' = {} /\ UNCHANGED <<dirIndex, index>>
  BY DEF LinkInNewBlock, Indexed
<1>2. /\ Block(block) /\ EntryNames(block) \ {Dead} = {n}
      /\ \A m \in Names \ {n} : StartsOf(block, m) = {}
  <2>1. n \notin EntryNames(EmptyBlock)
    BY EmptyBlockIs, Sizes
  <2>2. /\ Block(block) /\ EntryNames(block) \ {Dead} = (EntryNames(EmptyBlock) \ {Dead}) \cup {n}
        /\ \A m \in Names \ {n} : StartsOf(block, m) = StartsOf(EmptyBlock, m)
    BY <2>1, EmptyBlockIs, AddedIs
  <2> HIDE DEF block
  <2> QED  BY <2>2, EmptyBlockIs
<1> HIDE DEF block
<1>3. N \in Nat \ {0} /\ DOMAIN blocks = 1 .. N /\ blocks \in Seq(Seq(Entries))
      /\ block \in Seq(Entries)
  BY <1>2, Holds DEF Inv, Block
<1>4. /\ blocks' \in Seq(Seq(Entries)) /\ blocks' # <<>> /\ Len(blocks') = N + 1
      /\ DOMAIN blocks' = 1 .. N + 1 /\ blocks'[N + 1] = block
      /\ \A c \in 1 .. N : blocks'[c] = blocks[c]
  <2> DEFINE E == Seq(Entries)
  <2>1. blocks \in Seq(E) /\ block \in E /\ Len(blocks) = N
    BY <1>3
  <2> HIDE DEF E, N
  <2>2. /\ Append(blocks, block) \in Seq(E) /\ Len(Append(blocks, block)) = N + 1
        /\ DOMAIN Append(blocks, block) = 1 .. N + 1 /\ Append(blocks, block)[N + 1] = block
        /\ \A c \in 1 .. N : Append(blocks, block)[c] = blocks[c]
    BY <2>1
  <2>3. N + 1 # 0
    BY <1>3
  <2> QED  BY <1>1, <2>2, <2>3 DEF E
<1> HIDE DEF N
<1>5. \A c \in 1 .. N + 1 : c \in 1 .. N \/ c = N + 1
  BY <1>3
<1>6. \A c \in 1 .. N : n \notin EntryNames(blocks[c])
  BY <1>1, Holds DEF N
<1>7. \A c \in 1 .. Len(blocks') : Block(blocks'[c])
  <2>1. \A c \in 1 .. N : Block(blocks[c])
    BY DEF Inv, N
  <2> QED  BY <1>2, <1>4, <1>5, <2>1
<1>8. Once'
  <2>1. \A c, d \in 1 .. N : c # d =>
           EntryNames(blocks[c]) \cap EntryNames(blocks[d]) \subseteq {Dead}
    <3>1. Once
      BY DEF Inv
    <3> QED  BY <3>1 DEF Once, N
  <2>2. \A x \in EntryNames(block) : x = n \/ x = Dead
    BY <1>2
  <2> SUFFICES ASSUME NEW c \in 1 .. N + 1, NEW d \in 1 .. N + 1, c # d,
                      NEW m, m \in EntryNames(blocks'[c]), m \in EntryNames(blocks'[d])
               PROVE  m = Dead
    BY <1>4 DEF Once
  <2>3. CASE c \in 1 .. N /\ d \in 1 .. N
    <3>1. EntryNames(blocks[c]) \cap EntryNames(blocks[d]) \subseteq {Dead}
      BY <2>1, <2>3
    <3> QED  BY <1>4, <2>3, <3>1
  <2>4. CASE c = N + 1 /\ d \in 1 .. N
    BY <1>4, <1>6, <2>2, <2>4
  <2>5. CASE d = N + 1 /\ c \in 1 .. N
    BY <1>4, <1>6, <2>2, <2>5
  <2> QED  BY <1>5, <2>3, <2>4, <2>5
<1>9. Inv'
  <2>1. index' = <<>> /\ dirIndex' \in BOOLEAN /\ missing' \in SUBSET Names
    BY <1>1 DEF Inv
  <2> QED  BY <1>4, <1>7, <1>8, <2>1 DEF Inv
<1>10. Stored' = Stored \cup {n}
  <2>1. Stored' = HeldIn(blocks') /\ Stored = HeldIn(blocks)
    BY Zenon DEF Stored, HeldIn
  <2>2. \A x : x \in Stored' <=> x \in Names /\ \E c \in 1 .. N + 1 : x \in EntryNames(blocks'[c])
    BY <1>4, <2>1, HoldsIn
  <2>3. \A x : x \in Stored <=> x \in Names /\ \E c \in 1 .. N : x \in EntryNames(blocks[c])
    BY Holds DEF N
  <2>4. \A x \in Names : x \in EntryNames(block) <=> x = n
    BY <1>2, Sizes
  <2>5. ASSUME NEW x \in Stored'  PROVE  x \in Stored \/ x = n
    <3>1. PICK c \in 1 .. N + 1 : x \in EntryNames(blocks'[c])
      BY <2>2
    <3>2. x \in Names
      BY <2>2
    <3>3. CASE c = N + 1
      BY <1>4, <2>4, <3>1, <3>2, <3>3
    <3>4. CASE c \in 1 .. N
      BY <1>4, <2>3, <3>1, <3>2, <3>4
    <3> QED  BY <1>5, <3>3, <3>4
  <2>6. ASSUME NEW x \in Stored  PROVE  x \in Stored'
    <3>1. PICK c \in 1 .. N : x \in EntryNames(blocks[c])
      BY <2>3
    <3>2. c \in 1 .. N + 1 /\ x \in EntryNames(blocks'[c])
      BY <1>3, <1>4, <3>1
    <3> QED  BY <2>2, <2>3, <3>2
  <2>7. n \in Stored'
    <3>1. N + 1 \in 1 .. N + 1
      BY <1>3
    <3> QED  BY <1>4, <2>2, <2>4, <3>1
  <2> QED  BY <2>5, <2>6, <2>7
<1>11. ASSUME NEW m \in Names \ {n}  PROVE  Places(m)' = Places(m)
  <2> DEFINE P(c, block1) == {<<c, s>> : s \in StartsOf(block1, m)}
  <2>1. Places(m) = UNION {P(c, blocks[c]) : c \in 1 .. N}
    <3>1. Places(m) = UNION {P(c, blocks[c]) : c \in DOMAIN blocks}
      BY PlacesAre DEF Places, Offset, PlacesIn
    <3> QED  BY <1>3, <3>1
  <2>2. Places(m)' = UNION {P(c, blocks'[c]) : c \in 1 .. N + 1}
    <3>1. Places(m)' = UNION {P(c, blocks'[c]) : c \in DOMAIN blocks'}
      BY PlacesAre DEF Places, Offset, PlacesIn
    <3> QED  BY <1>4, <3>1
  <2>3. P(N + 1, blocks'[N + 1]) = {}
    BY <1>2, <1>4
  <2>4. \A c \in 1 .. N : P(c, blocks'[c]) = P(c, blocks[c])
    BY <1>4
  <2> DEFINE old(c) == P(c, blocks[c])
             new(c) == P(c, blocks'[c])
  <2>5. /\ Places(m) = UNION {old(c) : c \in 1 .. N}
        /\ Places(m)' = UNION {new(c) : c \in 1 .. N + 1}
        /\ new(N + 1) = {} /\ \A c \in 1 .. N : new(c) = old(c)
    BY <2>1, <2>2, <2>3, <2>4
  <2> HIDE DEF P, old, new
  <2>6. (1 .. N) \subseteq 1 .. N + 1
    BY <1>3
  <2> QED  BY <1>5, <2>5, <2>6
<1> QED  BY <1>9, <1>10, <1>11

(***************************************************************************)
(* A rebuild.                                                              *)
(***************************************************************************)
\* The hashes of fresh leaves rise, and the names in them lie between them.
LEMMA PackedHashes ==
    ASSUME NEW S \in SUBSET Names, NEW leaves, Packed(leaves, S)
    PROVE  /\ Rising(Len(leaves), HashesOf(leaves))
           /\ \A l \in 1 .. Len(leaves) : \A m \in NamesOf(leaves[l]) :
                 /\ m \in Names /\ HashesOf(leaves)[l] <= Hash[m] + 1
                 /\ l < Len(leaves) => Hash[m] < HashesOf(leaves)[l + 1]
<1> DEFINE N == Len(leaves)
           h == HashesOf(leaves)
           front(l) == leaves[l].names[1]
           back(l) == Last(leaves[l].names)
<1>1. /\ N \in Nat /\ \A l \in 1 .. N : /\ leaves[l] \in LeafSet /\ Leaf(leaves[l])
                                        /\ h[l] = StartsAt(leaves, l)
  BY DEF Packed, HashesOf
<1>2. \A m \in Names : Hash[m] \in Nat
  BY NamesAssumption
<1>3. ASSUME NEW l \in 1 .. N, NEW m \in NamesOf(leaves[l])
      PROVE  /\ m \in Names /\ front(l) \in NamesOf(leaves[l]) /\ back(l) \in NamesOf(leaves[l])
             /\ Hash[front(l)] <= Hash[m] /\ Hash[m] <= Hash[back(l)]
  <2> DEFINE names == leaves[l].names
             L == Len(names)
  <2>1. /\ names \in Seq(Names) /\ names # <<>>
        /\ \A a, b \in 1 .. L : a < b => Before(names[a], names[b])
    BY <1>1 DEF LeafSet, Leaf
  <2>2. NamesOf(leaves[l]) = {names[i] : i \in 1 .. L} /\ front(l) = names[1]
        /\ back(l) = names[L]
    BY DEF NamesOf, Last
  <2> HIDE DEF names, front, back
  <2>3. L \in Nat /\ 1 \in 1 .. L /\ L \in 1 .. L /\ \A i \in 1 .. L : names[i] \in Names
    BY <2>1
  <2>4. PICK i \in 1 .. L : m = names[i]
    BY <2>2
  <2>5. Hash[names[1]] <= Hash[names[i]]
    <3>1. i = 1 \/ Before(names[1], names[i])
      BY <2>1, <2>3
    <3> QED  BY <1>2, <2>3, <3>1, BeforeOrders
  <2>6. Hash[names[i]] <= Hash[names[L]]
    <3>1. i = L \/ Before(names[i], names[L])
      BY <2>1, <2>3
    <3> QED  BY <1>2, <2>3, <3>1, BeforeOrders
  <2> QED  BY <2>2, <2>3, <2>4, <2>5, <2>6
<1>4. \A l \in 1 .. N : front(l) \in NamesOf(leaves[l]) /\ back(l) \in NamesOf(leaves[l])
                        /\ front(l) \in Names /\ back(l) \in Names
                        /\ Hash[front(l)] \in Nat /\ Hash[back(l)] \in Nat
                        /\ Hash[front(l)] <= Hash[back(l)]
  <2> TAKE l \in 1 .. N
  <2>1. leaves[l].names \in Seq(Names) /\ leaves[l].names # <<>>
    BY <1>1 DEF LeafSet, Leaf
  <2>2. front(l) \in NamesOf(leaves[l])
    BY <2>1 DEF NamesOf
  <2> HIDE DEF front, back
  <2> QED  BY <1>2, <1>3, <2>2
<1>5. \A i, j \in 1 .. N : i < j => Hash[back(i)] <= Hash[front(j)]
  <2> TAKE i, j \in 1 .. N
  <2> HAVE i < j
  <2> HIDE DEF front, back
  <2>1. Before(back(i), front(j))
    BY <1>4 DEF Packed
  <2> QED  BY <1>4, <2>1, BeforeOrders
<1>6. \A l \in 1 .. N :
         /\ h[l] = Hash[front(l)] \/ h[l] = Hash[front(l)] + 1
         /\ l > 1 /\ Hash[back(l - 1)] = Hash[front(l)] => h[l] = Hash[front(l)] + 1
  <2> TAKE l \in 1 .. N
  <2>1. h[l] = StartsAt(leaves, l)
    BY <1>1
  <2> QED  BY <2>1 DEF StartsAt
<1> HIDE DEF front, back, h
<1>7. ASSUME NEW i \in 1 .. N, NEW j \in 1 .. N, i < j  PROVE  h[i] <= h[j]
  <2>1. j - 1 \in 1 .. N /\ j - 1 < j /\ (i = j - 1 \/ i < j - 1) /\ j > 1
    BY <1>1, <1>7
  <2>2. Hash[front(i)] <= Hash[back(j - 1)]
    <3>1. CASE i = j - 1
      BY <1>4, <3>1
    <3>2. CASE i < j - 1
      <4>1. Hash[back(i)] <= Hash[front(j - 1)]
        BY <1>5, <2>1, <3>2
      <4>2. /\ Hash[front(i)] <= Hash[back(i)] /\ Hash[front(j - 1)] <= Hash[back(j - 1)]
            /\ Hash[front(i)] \in Nat /\ Hash[back(i)] \in Nat
            /\ Hash[front(j - 1)] \in Nat /\ Hash[back(j - 1)] \in Nat
        BY <1>4, <2>1
      <4> QED  BY <4>1, <4>2
    <3> QED  BY <2>1, <3>1, <3>2
  <2>3. Hash[back(j - 1)] <= Hash[front(j)]
    BY <1>5, <2>1
  <2>4. /\ Hash[front(i)] \in Nat /\ Hash[front(j)] \in Nat /\ Hash[back(j - 1)] \in Nat
    BY <1>4, <2>1
  <2>5. h[i] = Hash[front(i)] \/ h[i] = Hash[front(i)] + 1
    BY <1>6
  <2>6. /\ h[j] = Hash[front(j)] \/ h[j] = Hash[front(j)] + 1
        /\ Hash[back(j - 1)] = Hash[front(j)] => h[j] = Hash[front(j)] + 1
    BY <1>6, <2>1
  <2> QED  BY <2>2, <2>3, <2>4, <2>5, <2>6
<1>8. Rising(N, h)
  <2>1. \A i, j \in 1 .. N : i <= j => i = j \/ i < j
    OBVIOUS
  <2>2. \A i \in 1 .. N : h[i] <= h[i]
    BY <1>4, <1>6
  <2> QED  BY <1>7, <2>1, <2>2 DEF Rising
<1>9. ASSUME NEW l \in 1 .. N, NEW m \in NamesOf(leaves[l])
      PROVE  /\ m \in Names /\ h[l] <= Hash[m] + 1
             /\ l < N => Hash[m] < h[l + 1]
  <2>1. m \in Names /\ Hash[m] \in Nat /\ Hash[front(l)] <= Hash[m] /\ Hash[m] <= Hash[back(l)]
    BY <1>2, <1>3
  <2>2. h[l] <= Hash[m] + 1
    BY <1>4, <1>6, <2>1
  <2>3. ASSUME l < N  PROVE  Hash[m] < h[l + 1]
    <3>1. l + 1 \in 1 .. N /\ l + 1 > 1 /\ (l + 1) - 1 = l /\ l < l + 1
      BY <1>1, <2>3
    <3>2. /\ h[l + 1] = Hash[front(l + 1)] \/ h[l + 1] = Hash[front(l + 1)] + 1
          /\ Hash[back(l)] = Hash[front(l + 1)] => h[l + 1] = Hash[front(l + 1)] + 1
      BY <1>6, <3>1
    <3>3. Hash[back(l)] <= Hash[front(l + 1)]
      BY <1>5, <3>1
    <3>4. Hash[back(l)] \in Nat /\ Hash[front(l + 1)] \in Nat
      BY <1>4, <3>1
    <3> QED  BY <2>1, <3>2, <3>3, <3>4
  <2> QED  BY <2>1, <2>2, <2>3
<1> QED  BY <1>8, <1>9 DEF h

\* A name added by a rebuild (rebuild_index).
LEMMA RebuildKeeps ==
    ASSUME Inv, NEW n \in Names, RebuildIndex(n)
    PROVE  Inv' /\ n \notin Stored /\ Stored' = Stored \cup {n}
<1>0. PICK S, leaves : S = Stored \cup {n} /\ leaves = PackLeaves(S)
  OBVIOUS
<1> DEFINE N == Len(leaves)
           h == HashesOf(leaves)
           block(b) == PackedBlock(leaves[b].names)
<1>1. /\ n \notin Stored /\ blocks' = [b \in DOMAIN leaves |-> block(b)]
      /\ index' = IndexOver(leaves) /\ missing' = {} /\ UNCHANGED dirIndex
  BY <1>0 DEF RebuildIndex, Rebuilds
<1>2. S \in SUBSET Names
  BY <1>0, Holds
<1>3. Packed(leaves, S)
  BY <1>0, <1>2, PackLeavesIs
<1>4. /\ leaves \in Seq(LeafSet) /\ N \in Nat /\ DOMAIN leaves = 1 .. N
      /\ \A l \in 1 .. N : leaves[l] \in LeafSet /\ Leaf(leaves[l])
      /\ \A x : x \in S <=> \E l \in 1 .. N : x \in NamesOf(leaves[l])
  BY <1>3 DEF Packed
<1>5. N \in Nat \ {0} /\ leaves # <<>>
  <2>1. n \in S
    BY <1>0
  <2>2. PICK l \in 1 .. N : n \in NamesOf(leaves[l])
    BY <1>4, <2>1
  <2> QED  BY <1>4, <2>2
<1>6. ASSUME NEW l \in 1 .. N
      PROVE  Block(block(l)) /\ EntryNames(block(l)) = NamesOf(leaves[l])
  <2> DEFINE names == leaves[l].names
  <2>1. /\ names \in Seq(Names) /\ names # <<>> /\ Total(names) <= Limit
        /\ \A a, b \in 1 .. Len(names) : a < b => Before(names[a], names[b])
    BY <1>4 DEF LeafSet, Leaf
  <2>2. NamesOf(leaves[l]) = {names[i] : i \in 1 .. Len(names)} /\ block(l) = PackedBlock(names)
    BY DEF NamesOf
  <2> HIDE DEF names, block
  <2>3. \A a, b \in 1 .. Len(names) : names[a] = names[b] => a = b
    <3> TAKE a, b \in 1 .. Len(names)
    <3>1. a < b \/ b < a \/ a = b
      BY <2>1
    <3>2. names[a] \in Names /\ names[b] \in Names
      BY <2>1
    <3> QED  BY <2>1, <3>1, <3>2, BeforeOrders
  <2> QED  BY <2>1, <2>2, <2>3, PackedIs
<1>7. /\ Len(blocks') = N /\ DOMAIN blocks' = 1 .. N /\ blocks' \in Seq(Seq(Entries))
      /\ blocks' # <<>> /\ \A l \in 1 .. N : blocks'[l] = block(l)
  <2>1. \A l \in 1 .. N : block(l) \in Seq(Entries)
    BY <1>6 DEF Block
  <2> HIDE DEF block
  <2>2. blocks' \in [1 .. N -> Seq(Entries)] /\ \A l \in 1 .. N : blocks'[l] = block(l)
    BY <1>1, <1>4, <2>1
  <2>3. blocks' \in Seq(Seq(Entries)) /\ Len(blocks') = N /\ DOMAIN blocks' = 1 .. N
    BY <1>5, <2>2, SeqIs
  <2> QED  BY <1>5, <2>2, <2>3
<1> HIDE DEF block, N
<1>8. \A l \in 1 .. Len(blocks') : Block(blocks'[l])
  BY <1>6, <1>7
<1>9. \A l \in 1 .. N : EntryNames(blocks'[l]) = NamesOf(leaves[l])
  BY <1>6, <1>7
<1>10. /\ Rising(N, h)
       /\ \A l \in 1 .. N : \A m \in NamesOf(leaves[l]) :
             /\ m \in Names /\ h[l] <= Hash[m] + 1
             /\ l < N => Hash[m] < h[l + 1]
  BY <1>2, <1>3, PackedHashes DEF N
<1>11. Once'
  <2> SUFFICES ASSUME NEW c \in 1 .. N, NEW d \in 1 .. N, c # d
               PROVE  EntryNames(blocks'[c]) \cap EntryNames(blocks'[d]) \subseteq {Dead}
    BY <1>7 DEF Once
  <2> SUFFICES ASSUME NEW m, m \in NamesOf(leaves[c]), m \in NamesOf(leaves[d])
               PROVE  FALSE
    BY <1>9
  <2>1. \A i, j \in 1 .. N : i < j =>
           \A x \in NamesOf(leaves[i]), y \in NamesOf(leaves[j]) : Before(x, y)
    BY <1>3 DEF Packed, N
  <2>2. c < d \/ d < c
    BY <1>5
  <2>3. m \in Names /\ Before(m, m)
    BY <1>10, <2>1, <2>2
  <2> QED  BY <2>3, BeforeOrders
<1>12. \E first : Guided(h, first)'
  <2>1. PICK first : Over(IndexOver(leaves), Len(leaves), HashesOf(leaves), first)
    BY <1>4, <1>5, IndexOverIs
  <2>2. Over(index', Len(blocks'), h, first) /\ Rising(Len(blocks'), h)
    BY <1>1, <1>7, <1>10, <2>1 DEF N
  <2>3. Between(h)'
    BY <1>7, <1>9, <1>10 DEF Between
  <2>4. Guided(h, first)'
    BY <2>2, <2>3 DEF Guided
  <2> QED  BY <2>4
<1>13. Inv'
  <2>1. dirIndex' \in BOOLEAN /\ missing' \in SUBSET Names
    BY <1>1 DEF Inv
  <2>2. (\E h1, first : Guided(h1, first))'
    <3> HIDE DEF h
    <3> QED  BY <1>12
  <2> QED  BY <1>7, <1>8, <1>11, <2>1, <2>2 DEF Inv
<1>14. Stored' = S
  <2>1. Stored' = HeldIn(blocks')
    BY Zenon DEF Stored, HeldIn
  <2>2. \A x : x \in Stored' <=> x \in Names /\ \E c \in 1 .. N : x \in EntryNames(blocks'[c])
    BY <1>7, <2>1, HoldsIn
  <2> QED  BY <1>2, <1>4, <1>9, <2>2 DEF N
<1> QED  BY <1>0, <1>1, <1>13, <1>14

(***************************************************************************)
(* Every step keeps the invariant.                                         *)
(***************************************************************************)
\* A step of a directory: what it does to the names it holds and where they lie.
LEMMA StepIs ==
    ASSUME Inv, NEW n \in Names,
           \/ Link(n) \/ LinkInNewBlock(n) \/ RebuildIndex(n)
           \/ RefuseTooLarge(n) \/ RefuseNoSpace(n)
           \/ Unlink(n) \/ UnlinkMisses(n)
    PROVE  /\ Inv'
           /\ \/ n \notin Stored /\ Stored' = Stored \cup {n} /\ missing' = {}
              \/ n \notin Stored /\ Stored' = Stored /\ missing' = {}
              \/ n \in Stored /\ Stored' = Stored \ {n} /\ missing' = {}
              \/ Holding(n) = {} /\ Stored' = Stored /\ missing' = {n}
           /\ RebuildIndex(n) \/ \A m \in Names \ {n} : Places(m)' = Places(m)
<1>1. CASE Link(n)
  BY <1>1, LinkKeeps DEF Link
<1>2. CASE LinkInNewBlock(n)
  BY <1>2, NewBlockKeeps DEF LinkInNewBlock
<1>3. CASE RebuildIndex(n)
  BY <1>3, RebuildKeeps DEF RebuildIndex
<1>4. ASSUME UNCHANGED <<dirIndex, blocks, index>>, missing' \in SUBSET Names
      PROVE  Inv' /\ Stored' = Stored /\ \A m : Places(m)' = Places(m)
  <2>1. Inv'
    BY <1>4 DEF Inv, Once, Guided, Between
  <2>2. Stored' = Stored
    BY <1>4 DEF Stored
  <2>3. ASSUME NEW m  PROVE  Places(m)' = Places(m)
    BY <1>4, PlacesStay
  <2> QED  BY <2>1, <2>2, <2>3
<1>5. CASE RefuseTooLarge(n)
  BY <1>4, <1>5 DEF RefuseTooLarge, Rebuilds
<1>6. CASE RefuseNoSpace(n)
  BY <1>4, <1>6 DEF RefuseNoSpace
<1>7. CASE Unlink(n)
  BY <1>7, UnlinkKeeps DEF Unlink
<1>8. CASE UnlinkMisses(n)
  BY <1>4, <1>8 DEF UnlinkMisses
<1> QED  BY <1>1, <1>2, <1>3, <1>5, <1>6, <1>7, <1>8

\* So does any step.
LEMMA StepInv == Inv /\ [Next]_vars => Inv'
<1> SUFFICES ASSUME Inv, [Next]_vars  PROVE  Inv'
  OBVIOUS
<1>1. CASE Next
  BY <1>1, StepIs DEF Next
<1>2. CASE UNCHANGED vars
  BY <1>2 DEF vars, Inv, Once, Guided, Between
<1> QED  BY <1>1, <1>2

\* A directory, whatever was done to it, keeps the invariant.
THEOREM DirectoryInvariant == Spec => []Inv
BY InitInv, StepInv, PTL DEF Spec

(***************************************************************************)
(* What follows from it.                                                   *)
(***************************************************************************)
\* Blocks are sequences of entries, and only a first entry is dead (empty_block,
\* remove_from_block).
THEOREM TypeCorrect == Spec => []TypeOK
<1>1. Inv => TypeOK
  <2> SUFFICES ASSUME Inv  PROVE  TypeOK
    OBVIOUS
  <2>1. DOMAIN blocks = 1 .. Len(blocks) /\ dirIndex \in BOOLEAN /\ missing \subseteq Names
    BY Holds DEF Inv
  <2>2. ASSUME NEW b \in 1 .. Len(blocks), NEW i \in DOMAIN blocks[b]
        PROVE  blocks[b][i] \in Entries /\ (blocks[b][i].name = Dead => i = 1)
    <3> DEFINE block == blocks[b]
    <3>1. Block(block)
      BY DEF Inv
    <3> HIDE DEF block
    <3>2. \A j \in DOMAIN block : block[j] \in Entries /\ (block[j].name = Dead => j = 1)
      BY <3>1 DEF Block, Lawful
    <3> QED  BY <3>2 DEF block
  <2> QED  BY <2>1, <2>2 DEF TypeOK
<1> QED  BY <1>1, DirectoryInvariant, PTL

\* Whatever was added, removed and rebuilt, the entries of every block lie end to end up
\* to the limit and each has room for its name (insert_into_block, remove_from_block,
\* build_block).
THEOREM Tiled == Spec => []BlocksAreTiled
<1>1. Inv => BlocksAreTiled
  <2> SUFFICES ASSUME Inv  PROVE  BlocksAreTiled
    OBVIOUS
  <2>1. DOMAIN blocks = 1 .. Len(blocks)
    BY Holds
  <2>2. ASSUME NEW b \in 1 .. Len(blocks)
        PROVE  /\ Spans(blocks[b]) = Limit
               /\ \A i \in DOMAIN blocks[b] : blocks[b][i].span >= Size(blocks[b][i].name)
    <3> DEFINE block == blocks[b]
    <3>1. Block(block)
      BY DEF Inv
    <3> HIDE DEF block
    <3>2. Spans(block) = Limit /\ \A j \in DOMAIN block : block[j].span >= Size(block[j].name)
      BY <3>1 DEF Block, Lawful
    <3> QED  BY <3>2 DEF block
  <2> QED  BY <2>1, <2>2 DEF BlocksAreTiled
<1> QED  BY <1>1, DirectoryInvariant, PTL

\* Only a rebuild moves an entry: a call that adds or removes another name leaves it
\* in its block, at its place ("nothing is ever moved", dir.rs).
THEOREM EntriesStay == Spec => NothingMoves
<1> DEFINE Stays == \A n \in Stored \cap Stored' : Places(n)' = Places(n)
<1>1. Inv /\ [Next]_vars => [(\E n \in Names : RebuildIndex(n)) \/ Stays]_vars
  <2> SUFFICES ASSUME Inv, NEW m \in Names,
                      \/ Link(m) \/ LinkInNewBlock(m) \/ RebuildIndex(m)
                      \/ RefuseTooLarge(m) \/ RefuseNoSpace(m)
                      \/ Unlink(m) \/ UnlinkMisses(m),
                      ~ RebuildIndex(m), NEW n \in Stored \cap Stored'
               PROVE  Places(n)' = Places(n)
    BY DEF Next
  <2>1. n \in Names
    BY Holds
  <2>2. CASE n # m
    BY <2>1, <2>2, StepIs
  <2>3. CASE n = m
    <3>1. UnlinkMisses(m) \/ RefuseTooLarge(m) \/ RefuseNoSpace(m)
          \/ m \notin Stored \/ m \notin Stored'
      BY LinkKeeps, NewBlockKeeps, UnlinkKeeps DEF Link, LinkInNewBlock
    <3>2. UNCHANGED blocks
      BY <2>3, <3>1 DEF UnlinkMisses, RefuseTooLarge, RefuseNoSpace
    <3> QED  BY <3>2, PlacesStay
  <2> QED  BY <2>2, <2>3
<1> QED  BY <1>1, DirectoryInvariant, PTL DEF Spec, NothingMoves

\* What a leaf holds lies between its own hash and that of the next, and so across
\* nodes, whatever was added since the last rebuild (plan_index, leaf_run).
THEOREM HashOrder == Spec => []LeavesInHashOrder
<1>1. Inv => LeavesInHashOrder
  <2> SUFFICES ASSUME Inv, NEW k \in DOMAIN index, NEW j \in DOMAIN index[k].entries,
                      NEW n \in EntryNames(blocks[index[k].entries[j].leaf]) \ {Dead}
               PROVE  /\ index[k].entries[j].hash <= Hash[n] + 1
                      /\ j < Len(index[k].entries) => Hash[n] <= index[k].entries[j + 1].hash
                      /\ k < Len(index) => Hash[n] <= index[k + 1].hash
    BY Zenon DEF LeavesInHashOrder
  <2>1. PICK h, first : Guided(h, first)
    <3>1. index # <<>>
      OBVIOUS
    <3> QED  BY <3>1 DEF Inv
  <2> DEFINE N == Len(blocks)
             K == Len(index)
             a == first[k]
             b == first[k + 1]
             l == a + j - 1
  <2>2. Over(index, N, h, first)
    BY <2>1 DEF Guided
  <2>3. /\ k \in 1 .. K /\ j \in 1 .. b - a /\ Len(index[k].entries) = b - a
        /\ \A i \in 1 .. b - a : /\ index[k].entries[i].leaf = a + i - 1
                                 /\ index[k].entries[i].hash = IF i = 1 THEN 0 ELSE h[a + i - 1]
    BY <2>2 DEF Over
  <2>4. /\ a \in 1 .. N /\ b \in 1 .. N + 1 /\ a < b /\ N \in Nat /\ K \in Nat
        /\ \A i \in 1 .. N : h[i] \in Nat
    <3>1. N \in Nat /\ K \in Nat /\ \A i \in 1 .. N : h[i] \in Nat
      BY <2>2 DEF Over
    <3>2. \A p \in 1 .. K : /\ first[p] \in 1 .. N /\ first[p + 1] \in 1 .. N + 1
                            /\ first[p] < first[p + 1]
      <4> HIDE DEF N
      <4> QED  BY <2>2, NodeBounds
    <3> QED  BY <2>3, <3>1, <3>2
  <2>5. k < K => k + 1 \in 1 .. K /\ b \in 1 .. N /\ index[k + 1].hash = h[b]
    <3> HAVE k < K
    <3>1. k + 1 \in 1 .. K /\ k + 1 # 1
      <4>1. k \in 1 .. K /\ K \in Nat
        BY <2>3, <2>4
      <4> HIDE DEF K
      <4> QED  BY <4>1 DEF K
    <3>2. b \in 1 .. N
      BY <2>2, <3>1, NodeBounds
    <3> QED  BY <2>2, <3>1, <3>2 DEF Over
  <2> HIDE DEF N, K, a, b
  <2>6. l \in 1 .. N /\ index[k].entries[j].leaf = l
    BY <2>3, <2>4
  <2>7. n \in Names /\ (l = 1 \/ h[l] <= Hash[n] + 1) /\ (l < N => Hash[n] < h[l + 1])
    <3>1. n \in EntryNames(blocks[l]) \ {Dead}
      BY <2>6
    <3> HIDE DEF l
    <3> QED  BY <2>1, <2>6, <3>1 DEF Guided, Between, N
  <2>8. Hash[n] \in Nat
    BY <2>7, NamesAssumption
  <2>9. index[k].entries[j].hash <= Hash[n] + 1
    <3>1. CASE j = 1
      BY <2>3, <2>8, <3>1
    <3>2. CASE j # 1
      <4>1. l # 1 /\ index[k].entries[j].hash = h[l]
        <5>1. a \in Nat /\ a >= 1 /\ j \in Nat /\ j > 1
          BY <2>3, <2>4, <3>2
        <5>2. index[k].entries[j].hash = h[a + j - 1]
          BY <2>3, <3>2
        <5> QED  BY <5>1, <5>2
      <4> QED  BY <2>7, <4>1
    <3> QED  BY <3>1, <3>2
  <2>10. ASSUME j < Len(index[k].entries)  PROVE  Hash[n] <= index[k].entries[j + 1].hash
    <3>1. /\ j + 1 \in 1 .. b - a /\ j + 1 # 1 /\ a + (j + 1) - 1 = l + 1
          /\ l < N /\ l + 1 \in 1 .. N
      <4>1. j \in Nat /\ j < b - a /\ j >= 1
        BY <2>3, <2>4, <2>10
      <4> QED  BY <2>4, <4>1
    <3>2. index[k].entries[j + 1].hash = h[l + 1] /\ Hash[n] < h[l + 1] /\ h[l + 1] \in Nat
      BY <2>3, <2>4, <2>7, <3>1
    <3> QED  BY <2>8, <3>2
  <2>11. ASSUME k < K  PROVE  Hash[n] <= index[k + 1].hash
    <3>1. l < N /\ l + 1 \in 1 .. N /\ l + 1 <= b /\ b \in 1 .. N
      BY <2>3, <2>4, <2>5, <2>11
    <3>2. Hash[n] < h[l + 1] /\ h[l + 1] <= h[b] /\ h[l + 1] \in Nat /\ h[b] \in Nat
      BY <2>1, <2>4, <2>7, <3>1 DEF Guided, Rising, N
    <3> QED  BY <2>5, <2>8, <2>11, <3>2
  <2> QED  BY <2>9, <2>10, <2>11 DEF K
<1> QED  BY <1>1, DirectoryInvariant, PTL

(***************************************************************************)
(* Names are found, as long as no node begins in the middle of a run.      *)
(***************************************************************************)
\* The numbers that are even, and one above such a number.
LEMMA OddNext ==
    ASSUME NEW x \in Nat, x % 2 = 0  PROVE  (x + 1) % 2 = 1 /\ (x + 1) % 2 # 0
OBVIOUS

\* A stored name is in a leaf its hash leads to.
LEMMA Found ==
    ASSUME Inv, NodesFresh, NEW n \in Stored
    PROVE  Holding(n) # {}
<1> DEFINE N == Len(blocks)
<1>1. n \in Names /\ N \in Nat \ {0} /\ DOMAIN blocks = 1 .. N
  BY Holds
<1>2. PICK m \in 1 .. N : n \in EntryNames(blocks[m])
  BY Holds
<1>3. CASE ~ Indexed
  <2>1. m \in Searched(n)
    BY <1>1, <1>3 DEF Searched
  <2> QED  BY <1>2, <2>1 DEF Holding
<1>4. CASE Indexed
  <2>1. PICK h, first : Guided(h, first)
    BY <1>4 DEF Inv, Indexed
  <2>2. PICK l, end :
            /\ LeadsTo(index, N, h, first, Hash[n], l, end)
            /\ Searched(n) = {p \in l .. end : \A i \in l + 1 .. p : h[i] % 2 = 1}
    BY <1>1, <1>4, <2>1, SearchedIs
  <2>3. /\ Over(index, N, h, first) /\ (\A i, j \in 1 .. N : i <= j => h[i] <= h[j])
        /\ m = 1 \/ h[m] <= Hash[n] + 1
        /\ m < N => Hash[n] < h[m + 1]
    <3>1. n # Dead
      BY <1>1, Sizes
    <3> QED  BY <1>2, <2>1, <3>1 DEF Guided, Between, Rising
  <2>4. Hash[n] \in Nat /\ Hash[n] % 2 = 0 /\ \A i \in 1 .. N : h[i] \in Nat
    <3>1. \A i \in 1 .. N : h[i] \in Nat
      BY <2>3 DEF Over
    <3> QED  BY <1>1, <3>1, NamesAssumption
  <2>5. /\ l \in 1 .. N /\ end \in l .. N
        /\ l = 1 \/ h[l] <= Hash[n]
        /\ l < N => Hash[n] < h[l + 1]
        /\ end = N \/ \E k \in 2 .. Len(index) : end + 1 = first[k]
    BY <2>2 DEF LeadsTo
  <2> HIDE DEF N
  <2>6. l <= m
    <3> SUFFICES ASSUME m < l  PROVE  FALSE
      BY <1>1, <2>5
    <3>1. m + 1 \in 1 .. N /\ m + 1 <= l /\ m < N /\ l # 1
      BY <1>1, <2>5
    <3>2. h[m + 1] <= h[l] /\ Hash[n] < h[m + 1] /\ h[l] <= Hash[n]
      BY <2>3, <2>5, <3>1
    <3> QED  BY <2>4, <2>5, <3>1, <3>2
  <2>7. \A i \in l + 1 .. m : i \in 1 .. N /\ h[i] = Hash[n] + 1 /\ h[i] % 2 = 1 /\ h[i] % 2 # 0
    <3> TAKE i \in l + 1 .. m
    <3>1. i \in 1 .. N /\ l + 1 \in 1 .. N /\ l + 1 <= i /\ i <= m /\ l < N /\ m # 1
      BY <1>1, <2>5
    <3>2. Hash[n] < h[l + 1] /\ h[l + 1] <= h[i] /\ h[i] <= h[m] /\ h[m] <= Hash[n] + 1
      BY <2>3, <2>5, <3>1
    <3>3. h[i] \in Nat /\ h[m] \in Nat /\ h[l + 1] \in Nat
      BY <2>4, <3>1
    <3>4. h[i] = Hash[n] + 1
      BY <2>4, <3>2, <3>3
    <3>5. (Hash[n] + 1) % 2 = 1 /\ (Hash[n] + 1) % 2 # 0
      BY <2>4, OddNext
    <3> QED  BY <3>1, <3>4, <3>5
  <2>8. m <= end
    <3> SUFFICES ASSUME end < m  PROVE  FALSE
      BY <1>1, <2>5
    <3>1. end # N
      BY <1>1, <2>5
    <3>2. PICK k \in 2 .. Len(index) : end + 1 = first[k]
      BY <2>5, <3>1
    <3>3. end + 1 \in l + 1 .. m
      BY <1>1, <2>5
    <3>4. k \in 1 .. Len(index) /\ k # 1 /\ DOMAIN index = 1 .. Len(index)
      <4>1. Len(index) \in Nat /\ DOMAIN index = 1 .. Len(index)
        BY <2>3 DEF Over
      <4> QED  BY <4>1
    <3>5. index[k].hash = h[first[k]]
      BY <2>3, <3>4 DEF Over
    <3>6. h[first[k]] % 2 # 0
      BY <2>7, <3>2, <3>3
    <3> QED  BY <3>4, <3>5, <3>6 DEF NodesFresh
  <2>9. m \in Searched(n)
    <3>1. m \in l .. end
      BY <1>1, <2>5, <2>6, <2>8
    <3> QED  BY <2>2, <2>7, <3>1
  <2> QED  BY <1>2, <2>9 DEF Holding
<1> QED  BY <1>3, <1>4

\* A name that is stored is stored in a block the index leads to (leaf_run), in every
\* directory none of whose nodes begins in the middle of a run of equal hashes.
THEOREM NamesFound == Spec /\ []NodesFresh => []FoundThroughIndex
<1>1. Inv /\ NodesFresh => FoundThroughIndex
  BY Found DEF FoundThroughIndex
<1> QED  BY <1>1, DirectoryInvariant, PTL

\* Such a directory is a set of names: it takes in a name or refuses it, removes a name
\* that is there, and says of no other that it was missed (link_into, unlink_from).
THEOREM DirectoryIsSet == Spec /\ []NodesFresh => KeepsNames
<1>1. Init => Abstract!Init
  <2> SUFFICES ASSUME Init  PROVE  Stored = {} /\ missing = {}
    BY DEF Abstract!Init
  <2>1. Inv
    BY InitInv
  <2> DEFINE e == [name |-> Dots, span |-> Limit]
  <2>2. blocks = << <<e>> >> /\ missing = {}
    BY DEF Init
  <2>3. e.name = Dots
    OBVIOUS
  <2> HIDE DEF e
  <2>4. Len(blocks) = 1 /\ EntryNames(blocks[1]) = {Dots}
    BY <2>2, <2>3 DEF EntryNames
  <2>5. \A x : x \notin Stored
    BY <2>1, <2>4, Holds, Sizes
  <2> QED  BY <2>2, <2>5
<1>2. Inv /\ NodesFresh /\ [Next]_vars => [Abstract!Next]_(Abstract!vars)
  <2> SUFFICES ASSUME Inv, NodesFresh, [Next]_vars
               PROVE  Abstract!Next \/ (Stored' = Stored /\ missing' = missing)
    BY DEF Abstract!vars
  <2>1. CASE UNCHANGED vars
    BY <2>1 DEF vars, Stored
  <2>2. ASSUME NEW n \in Names,
               \/ Link(n) \/ LinkInNewBlock(n) \/ RebuildIndex(n)
               \/ RefuseTooLarge(n) \/ RefuseNoSpace(n)
               \/ Unlink(n) \/ UnlinkMisses(n)
        PROVE  Abstract!Next
    <3>1. \/ n \notin Stored /\ Stored' = Stored \cup {n} /\ missing' = {}
          \/ n \notin Stored /\ Stored' = Stored /\ missing' = {}
          \/ n \in Stored /\ Stored' = Stored \ {n} /\ missing' = {}
          \/ n \notin Stored /\ Stored' = Stored /\ missing' = {n}
      BY <2>2, StepIs, Found
    <3>2. Abstract!Add(n) \/ Abstract!Refuse(n) \/ Abstract!Remove(n) \/ Abstract!Miss(n)
      BY <3>1 DEF Abstract!Add, Abstract!Refuse, Abstract!Remove, Abstract!Miss
    <3> QED  BY <3>2 DEF Abstract!Next
  <2> QED  BY <2>1, <2>2 DEF Next
<1>3. Spec /\ []NodesFresh => Abstract!Spec
  BY <1>1, <1>2, DirectoryInvariant, PTL DEF Spec, Abstract!Spec
<1> QED  BY <1>3 DEF KeepsNames

(***************************************************************************)
(* Names with hashes of their own.                                         *)
(***************************************************************************)
\* No two names share a hash: likely in a small directory, certain in none.
HashesDiffer == \A m, n \in Names : Hash[m] = Hash[n] => m = n

\* Then no leaf goes on with the hash of another, and no node does.
LEMMA FreshNodes ==
    ASSUME HashesDiffer, NEW S \in SUBSET Names, NEW leaves, Packed(leaves, S), leaves # <<>>
    PROVE  \A k \in DOMAIN IndexOver(leaves) : IndexOver(leaves)[k].hash % 2 = 0
<1> DEFINE N == Len(leaves)
<1>1. leaves \in Seq(LeafSet) /\ N \in Nat
  BY DEF Packed
<1>2. ASSUME NEW l \in 1 .. N  PROVE  leaves[l].hash % 2 = 0
  <2>1. /\ leaves[l] \in LeafSet /\ Leaf(leaves[l]) /\ leaves[l].hash = StartsAt(leaves, l)
        /\ \A i \in 1 .. N : leaves[i] \in LeafSet /\ Leaf(leaves[i])
    BY DEF Packed
  <2> DEFINE front(i) == leaves[i].names[1]
             back(i) == Last(leaves[i].names)
  <2>2. ASSUME NEW i \in 1 .. N
        PROVE  /\ front(i) \in NamesOf(leaves[i]) /\ back(i) \in NamesOf(leaves[i])
               /\ front(i) \in Names /\ back(i) \in Names
    <3>1. leaves[i].names \in Seq(Names) /\ leaves[i].names # <<>>
      BY <2>1 DEF LeafSet, Leaf
    <3> DEFINE names == leaves[i].names
    <3>2. /\ names \in Seq(Names) /\ names # <<>>
          /\ NamesOf(leaves[i]) = {names[a] : a \in 1 .. Len(names)}
      BY <3>1 DEF NamesOf
    <3> HIDE DEF names
    <3>3. 1 \in 1 .. Len(names) /\ Len(names) \in 1 .. Len(names)
          /\ \A a \in 1 .. Len(names) : names[a] \in Names
      BY <3>2
    <3>4. Last(names) = names[Len(names)]
      BY DEF Last
    <3> QED  BY <3>2, <3>3, <3>4 DEF names
  <2>3. leaves[l].hash =
          IF l > 1 /\ Hash[back(l - 1)] = Hash[front(l)] THEN Hash[front(l)] + 1 ELSE Hash[front(l)]
    BY <2>1 DEF StartsAt
  <2> HIDE DEF front, back
  <2>4. l > 1 => Hash[back(l - 1)] # Hash[front(l)]
    <3> HAVE l > 1
    <3>1. l - 1 \in 1 .. N /\ l - 1 < l
      BY <1>1
    <3>2. Before(back(l - 1), front(l))
      BY <2>2, <3>1 DEF Packed
    <3> QED  BY <2>2, <3>1, <3>2, BeforeOrders DEF HashesDiffer
  <2> QED  BY <2>2, <2>3, <2>4, NamesAssumption
<1>3. PICK first : Over(IndexOver(leaves), N, HashesOf(leaves), first)
  BY <1>1, IndexOverIs
<1> HIDE DEF N
<1>4. ASSUME NEW k \in DOMAIN IndexOver(leaves)  PROVE  IndexOver(leaves)[k].hash % 2 = 0
  <2> DEFINE ix == IndexOver(leaves)
  <2>1. Over(ix, N, HashesOf(leaves), first) /\ k \in DOMAIN ix
    BY <1>3
  <2> HIDE DEF ix
  <2>2. k \in 1 .. Len(ix) /\ ix[k].hash = IF k = 1 THEN 0 ELSE HashesOf(leaves)[first[k]]
    BY <2>1 DEF Over
  <2>3. first[k] \in 1 .. N
    BY <2>1, <2>2, NodeBounds
  <2>4. HashesOf(leaves)[first[k]] = leaves[first[k]].hash
    BY <2>3 DEF HashesOf, N
  <2>5. ix[k].hash % 2 = 0
    BY <1>2, <2>2, <2>3, <2>4
  <2> QED  BY <2>5 DEF ix
<1> QED  BY <1>4

\* Where no two names share a hash, every name is found and the directory is a set of
\* names, through any rebuilds (leaf_run, link_into, unlink_from).
THEOREM OwnHashes ==
    ASSUME HashesDiffer
    PROVE  Spec => [](FoundThroughIndex /\ NodesFresh) /\ KeepsNames
<1>1. Init => NodesFresh
  BY DEF Init, NodesFresh
<1>2. Inv /\ NodesFresh /\ [Next]_vars => NodesFresh'
  <2> SUFFICES ASSUME Inv, NodesFresh, [Next]_vars  PROVE  NodesFresh'
    OBVIOUS
  <2>1. CASE UNCHANGED index
    BY <2>1 DEF NodesFresh
  <2>2. ASSUME NEW n \in Names, RebuildIndex(n)  PROVE  NodesFresh'
    <3>1. PICK S, leaves : S = Stored \cup {n} /\ leaves = PackLeaves(S)
      OBVIOUS
    <3>2. index' = IndexOver(leaves)
      BY <2>2, <3>1 DEF RebuildIndex
    <3>3. S \in SUBSET Names
      BY <3>1, Holds
    <3>4. Packed(leaves, S)
      BY <3>1, <3>3, PackLeavesIs
    <3>5. leaves # <<>>
      <4>1. n \in S
        BY <3>1
      <4>2. PICK l \in 1 .. Len(leaves) : n \in NamesOf(leaves[l])
        BY <3>4, <4>1 DEF Packed
      <4> QED  BY <4>2
    <3>6. \A k \in DOMAIN IndexOver(leaves) : IndexOver(leaves)[k].hash % 2 = 0
      BY <3>3, <3>4, <3>5, FreshNodes
    <3> QED  BY <3>2, <3>6 DEF NodesFresh
  <2>3. UNCHANGED index \/ \E n \in Names : RebuildIndex(n)
    BY DEF Next, vars, Link, LinkInNewBlock, RefuseTooLarge, RefuseNoSpace, Unlink, UnlinkMisses
  <2> QED  BY <2>1, <2>2, <2>3
<1>3. Spec => []NodesFresh
  BY <1>1, <1>2, DirectoryInvariant, PTL DEF Spec
<1> QED  BY <1>3, NamesFound, DirectoryIsSet, PTL
=============================================================================
