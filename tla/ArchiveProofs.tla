--------------------------- MODULE ArchiveProofs ---------------------------
(***************************************************************************)
(* Theorems about Archive, for every size of blocks and reads, every tree  *)
(* that is packed, every archive another tool may write and every point at *)
(* which a stream breaks off: what the reader delivers is what was put in, *)
(* in that order, and all of it if the stream is whole; and what is packed *)
(* is the tree in order.                                                   *)
(***************************************************************************)
EXTENDS Archive, Integers, FiniteSetTheorems, SequenceTheorems, TLAPS

(***************************************************************************)
(* Sequences of whatever.                                                  *)
(***************************************************************************)
Row(s) == s \in Seq(ToSet(s))

\* A sequence is one of its own members.
LEMMA RowIs ==
    ASSUME NEW U, NEW s \in Seq(U)  PROVE  Row(s)
<1>1. Len(s) \in Nat /\ s \in [1 .. Len(s) -> U] /\ DOMAIN s = 1 .. Len(s)
  BY LenProperties
<1>2. s \in [1 .. Len(s) -> ToSet(s)]
  BY <1>1 DEF ToSet
<1> QED  BY <1>1, <1>2, SeqDef DEF Row

\* It has a length, and is empty if that is zero.
LEMMA RowFacts ==
    ASSUME NEW s, Row(s)
    PROVE  /\ Len(s) \in Nat /\ DOMAIN s = 1 .. Len(s)
           /\ s = << >> <=> Len(s) = 0
           /\ \A i \in 1 .. Len(s) : s[i] \in ToSet(s)
BY LenProperties, EmptySeq, ElementOfSeq DEF Row

\* The empty sequence is one.
LEMMA EmptyRow == Row(<< >>) /\ Len(<< >>) = 0
BY RowIs, EmptySeq

\* A function on 1 .. n is a sequence of that length.
LEMMA TableRow ==
    ASSUME NEW n \in Nat, NEW f, f = [i \in 1 .. n |-> f[i]]
    PROVE  Row(f) /\ Len(f) = n
<1>1. DOMAIN f = 1 .. n /\ f \in [1 .. n -> ToSet(f)]
  BY DEF ToSet
<1>2. f \in Seq(ToSet(f))
  BY <1>1, SeqDef
<1>3. Len(f) \in Nat /\ DOMAIN f = 1 .. Len(f)
  BY <1>2, LenProperties
<1> QED  BY <1>1, <1>2, <1>3 DEF Row

\* One sequence behind another: its members, and what is left when the first is taken.
LEMMA Joined ==
    ASSUME NEW a, NEW b, Row(a), Row(b)
    PROVE  /\ Row(a \o b) /\ Len(a \o b) = Len(a) + Len(b)
           /\ \A i \in 1 .. Len(a) : (a \o b)[i] = a[i]
           /\ \A i \in 1 .. Len(b) : (a \o b)[Len(a) + i] = b[i]
           /\ SubSeq(a \o b, Len(a) + 1, Len(a \o b)) = b
           /\ << >> \o b = b /\ a \o << >> = a
<1> DEFINE U == ToSet(a) \cup ToSet(b)
<1>1. a \in Seq(U) /\ b \in Seq(U)
  BY SeqMonotonic DEF Row
<1> HIDE DEF U
<1>2. /\ a \o b \in Seq(U) /\ Len(a \o b) = Len(a) + Len(b)
      /\ \A i \in 1 .. Len(a) + Len(b) : (a \o b)[i] =
             IF i <= Len(a) THEN a[i] ELSE b[i - Len(a)]
  BY <1>1, ConcatProperties
<1>3. Len(a) \in Nat /\ Len(b) \in Nat
  BY RowFacts
<1>4. /\ \A i \in 1 .. Len(a) : (a \o b)[i] = a[i]
      /\ \A i \in 1 .. Len(b) : (a \o b)[Len(a) + i] = b[i]
  BY <1>2, <1>3
<1> DEFINE t == SubSeq(a \o b, Len(a) + 1, Len(a \o b))
<1>5. t = b
  <2>1. \A i \in Len(a) + 1 .. Len(a \o b) : (a \o b)[i] \in U
    BY <1>2, <1>3, ElementOfSeq
  <2>2. /\ t \in Seq(U) /\ Len(t) = Len(b)
        /\ \A i \in 1 .. Len(b) : t[i] = (a \o b)[Len(a) + i]
    <3>1. Len(a) + 1 \in Int /\ Len(a \o b) \in Int
      BY <1>2, <1>3
    <3>2. /\ t \in Seq(U)
          /\ Len(t) = IF Len(a) + 1 <= Len(a \o b) THEN Len(a \o b) - (Len(a) + 1) + 1 ELSE 0
          /\ \A i \in 1 .. Len(a \o b) - (Len(a) + 1) + 1 : t[i] = (a \o b)[Len(a) + 1 + i - 1]
      BY <2>1, <3>1, SubSeqProperties
    <3> QED  BY <1>2, <1>3, <3>2
  <2> HIDE DEF t
  <2> QED  BY <1>1, <1>4, <2>2, SeqEqual
<1> QED  BY <1>1, <1>2, <1>4, <1>5, RowIs, ConcatEmptySeq

\* Joining three, either two may be joined first.
LEMMA JoinedThrice ==
    ASSUME NEW a, NEW b, NEW c, Row(a), Row(b), Row(c)
    PROVE  a \o b \o c = a \o (b \o c)
<1> DEFINE U == ToSet(a) \cup ToSet(b) \cup ToSet(c)
<1>1. a \in Seq(U) /\ b \in Seq(U) /\ c \in Seq(U)
  BY SeqMonotonic DEF Row
<1> HIDE DEF U
<1> QED  BY <1>1, ConcatAssociative

\* A stretch of a sequence.
LEMMA PartOf ==
    ASSUME NEW s, Row(s), NEW m \in Nat \ {0}, NEW n \in 0 .. Len(s)
    PROVE  /\ Row(SubSeq(s, m, n))
           /\ Len(SubSeq(s, m, n)) = IF m <= n THEN n - m + 1 ELSE 0
           /\ \A i \in 1 .. n - m + 1 : SubSeq(s, m, n)[i] = s[m + i - 1]
<1>1. m \in Int /\ n \in Int /\ \A i \in m .. n : s[i] \in ToSet(s)
  BY RowFacts
<1> DEFINE t == SubSeq(s, m, n)
<1>2. /\ t \in Seq(ToSet(s)) /\ Len(t) = IF m <= n THEN n - m + 1 ELSE 0
      /\ \A i \in 1 .. n - m + 1 : t[i] = s[m + i - 1]
  BY <1>1, SubSeqProperties
<1> HIDE DEF t
<1>3. Row(t)
  BY <1>2, RowIs
<1> QED  BY <1>2, <1>3 DEF t

\* A sequence with a member at its end.
LEMMA Appended ==
    ASSUME NEW s, Row(s), NEW e
    PROVE  /\ Row(Append(s, e)) /\ Len(Append(s, e)) = Len(s) + 1
           /\ Append(s, e) # << >>
           /\ \A i \in 1 .. Len(s) : Append(s, e)[i] = s[i]
           /\ Last(Append(s, e)) = e /\ Front(Append(s, e)) = s
<1> DEFINE U == ToSet(s) \cup {e}
           t == Append(s, e)
<1>1. s \in Seq(U) /\ e \in U
  BY SeqMonotonic DEF Row
<1>2. Len(s) \in Nat
  BY RowFacts
<1> HIDE DEF U
<1>3. /\ t \in Seq(U) /\ t # << >> /\ Len(t) = Len(s) + 1
      /\ \A i \in 1 .. Len(s) : t[i] = s[i]
      /\ t[Len(s) + 1] = e
  BY <1>1, AppendProperties
<1>4. Row(t)
  BY <1>3, RowIs
<1>5. Last(t) = e
  BY <1>3 DEF Last
<1>6. Front(t) = s
  <2> DEFINE f == SubSeq(t, 1, Len(t) - 1)
  <2>1. \A i \in 1 .. Len(s) : t[i] \in U
    BY <1>1, <1>3, ElementOfSeq
  <2>2. f \in Seq(U) /\ Len(f) = Len(s) /\ \A i \in 1 .. Len(s) : f[i] = t[i]
    <3>1. Len(t) - 1 = Len(s) /\ Len(s) \in Int
      BY <1>2, <1>3
    <3>2. /\ f \in Seq(U)
          /\ Len(f) = IF 1 <= Len(s) THEN Len(s) - 1 + 1 ELSE 0
          /\ \A i \in 1 .. Len(s) - 1 + 1 : f[i] = t[1 + i - 1]
      BY <2>1, <3>1, SubSeqProperties
    <3> QED  BY <1>2, <3>2
  <2>3. f = s
    <3> HIDE DEF f, t
    <3> QED  BY <1>1, <1>3, <2>2, SeqEqual
  <2> QED  BY <2>3 DEF Front
<1> QED  BY <1>3, <1>4, <1>5, <1>6

\* A sequence is its front and its last member, and its front is a prefix of it.
LEMMA FrontAndLast ==
    ASSUME NEW s, Row(s), s # << >>
    PROVE  /\ Append(Front(s), Last(s)) = s /\ Row(Front(s))
           /\ Len(Front(s)) = Len(s) - 1 /\ Len(s) \in Nat \ {0}
<1>1. Len(s) \in Nat \ {0}
  BY RowFacts
<1>2. PICK f \in Seq(ToSet(s)), e \in ToSet(s) : s = Append(f, e)
  BY SequenceEmptyOrAppend DEF Row
<1>3. Row(f)
  BY RowIs
<1>4. Front(s) = f /\ Last(s) = e /\ Len(s) = Len(f) + 1 /\ Len(f) \in Nat
  BY <1>2, <1>3, Appended, RowFacts
<1> QED  BY <1>1, <1>2, <1>3, <1>4

\* A sequence, and all but its last member, are prefixes of it.
LEMMA FrontIsPrefix ==
    ASSUME NEW s, Row(s)
    PROVE  IsPrefix(s, s) /\ (s # << >> => IsPrefix(Front(s), s))
<1>1. IsPrefix(s, s)
  BY RowFacts DEF IsPrefix
<1>2. ASSUME s # << >>  PROVE IsPrefix(Front(s), s)
  <2>1. Row(Front(s)) /\ Len(Front(s)) = Len(s) - 1 /\ Len(s) \in Nat \ {0}
    BY <1>2, FrontAndLast
  <2>2. SubSeq(Front(s), 1, Len(Front(s))) = Front(s)
    BY <2>1, SubSeqFull DEF Row
  <2>3. SubSeq(s, 1, Len(Front(s))) = Front(s)
    BY <2>1 DEF Front
  <2> QED  BY <2>1, <2>2, <2>3 DEF IsPrefix
<1> QED  BY <1>1, <1>2

(***************************************************************************)
(* What is on the wire.                                                    *)
(***************************************************************************)
LEMMA PaddingFits ==
    /\ BLOCK \in Nat \ {0}
    /\ \A n \in Nat : PadFor(n) \in 0 .. BLOCK - 1
<1>1. \A n \in Int, m \in Nat \ {0} : n % m \in 0 .. m - 1
  BY SMT
<1>2. \A n \in Nat : BLOCK - (n % BLOCK) \in Int
  BY <1>1, StreamAssumption
<1> QED  BY <1>1, <1>2, StreamAssumption DEF PadFor

\* Zeros(n) is n zero units.
LEMMA ZerosRow ==
    ASSUME NEW n \in Nat
    PROVE  /\ Row(Zeros(n)) /\ Len(Zeros(n)) = n /\ \A k \in 1 .. n : Zeros(n)[k] = Zero
           /\ Zeros(0) = << >>
<1>1. \A m \in Nat : Row(Zeros(m)) /\ Len(Zeros(m)) = m
  BY TableRow DEF Zeros
<1> QED  BY <1>1, RowFacts DEF Zeros

\* Zeros may be cut anywhere.
LEMMA ZerosJoined ==
    ASSUME NEW m \in Nat, NEW n \in Nat
    PROVE  Zeros(m + n) = Zeros(m) \o Zeros(n)
<1>1. /\ Zeros(m) \in Seq({Zero}) /\ Zeros(n) \in Seq({Zero}) /\ Zeros(m + n) \in Seq({Zero})
      /\ Len(Zeros(m)) = m /\ Len(Zeros(n)) = n /\ Len(Zeros(m + n)) = m + n
  <2>1. \A k \in Nat : Zeros(k) \in [1 .. k -> {Zero}]
    BY DEF Zeros
  <2>2. \A k \in Nat : Zeros(k) \in Seq({Zero}) /\ Len(Zeros(k)) = k
    BY <2>1, SeqDef, ZerosRow
  <2> QED  BY <2>2
<1>2. /\ Zeros(m) \o Zeros(n) \in Seq({Zero}) /\ Len(Zeros(m) \o Zeros(n)) = m + n
      /\ \A i \in 1 .. m + n : (Zeros(m) \o Zeros(n))[i] = Zero
  <2> DEFINE z == Zeros(m) \o Zeros(n)
  <2>1. z \in Seq({Zero}) /\ Len(z) = m + n
    BY <1>1, ConcatProperties
  <2>2. \A i \in 1 .. Len(z) : z[i] \in {Zero}
    <3> HIDE DEF z
    <3> QED  BY <2>1, ElementOfSeq
  <2> QED  BY <2>1, <2>2
<1>3. \A i \in 1 .. m + n : Zeros(m + n)[i] = Zero
  BY ZerosRow
<1> QED  BY <1>1, <1>2, <1>3, SeqEqual

\* The contents of an entry are as long as its size says.
LEMMA ContentsRow ==
    ASSUME NEW h, h.size \in Nat
    PROVE  Row(Contents(h)) /\ Len(Contents(h)) = h.size
BY TableRow DEF Contents

\* A header block begins with its header and is BLOCK units long.
LEMMA BlockRow ==
    ASSUME NEW u
    PROVE  Row(Block(u)) /\ Len(Block(u)) = BLOCK /\ Block(u)[1] = u
<1> DEFINE rest == [k \in 1 .. BLOCK - 1 |-> RestOfBlock]
<1>1. BLOCK - 1 \in Nat
  BY PaddingFits
<1>2. Row(rest) /\ Len(rest) = BLOCK - 1
  BY <1>1, TableRow
<1>3. Row(<<u>>) /\ Len(<<u>>) = 1 /\ <<u>>[1] = u
  <2>1. <<u>> \in Seq({u})
    OBVIOUS
  <2> QED  BY <2>1, RowIs
<1> HIDE DEF rest
<1>4. /\ Row(<<u>> \o rest) /\ Len(<<u>> \o rest) = 1 + (BLOCK - 1)
      /\ (<<u>> \o rest)[1] = <<u>>[1]
  BY <1>2, <1>3, Joined
<1>5. Block(u) = <<u>> \o rest
  BY DEF Block, rest
<1> QED  BY <1>3, <1>4, <1>5, PaddingFits

\* The fields of a header block.
FieldsOf(h, type, size) ==
    LET split == SplitName(h.path)
    IN  [is |-> "head", type |-> type, name |-> split.name,
         prefix |-> IF split.prefix = << >> /\ h.link \in Spills THEN Stump ELSE split.prefix,
         link |-> IF h.link \in Long THEN Stump ELSE h.link,
         size |-> size, attr |-> h.attr, time |-> h.time]

\* A header as it is written: its fields, in one block.
LEMMA EncodeRow ==
    ASSUME NEW h, NEW type, NEW size
    PROVE  /\ Row(Encode(h, type, size)) /\ Len(Encode(h, type, size)) = BLOCK
           /\ Encode(h, type, size)[1] = FieldsOf(h, type, size)
<1>1. Encode(h, type, size) = Block(FieldsOf(h, type, size))
  BY DEF Encode, FieldsOf
<1> HIDE DEF FieldsOf
<1> QED  BY <1>1, BlockRow

\* The body of an extension is one unit, padded to whole blocks.
LEMMA BodyRow ==
    ASSUME NEW data
    PROVE  /\ Row(Body(data)) /\ Len(Body(data)) = 1 + PadFor(1)
           /\ Body(data)[1].holds = data
<1> DEFINE u == [is |-> "body", holds |-> data]
<1>1. Row(<<u>>) /\ Len(<<u>>) = 1 /\ <<u>>[1] = u
  <2>1. <<u>> \in Seq({u})
    OBVIOUS
  <2> QED  BY <2>1, RowIs
<1>2. Row(Zeros(PadFor(1))) /\ Len(Zeros(PadFor(1))) = PadFor(1)
  BY PaddingFits, ZerosRow
<1>3. Body(data) = <<u>> \o Zeros(PadFor(1)) /\ u.holds = data
  BY DEF Body
<1> HIDE DEF u
<1>4. /\ Row(<<u>> \o Zeros(PadFor(1)))
      /\ Len(<<u>> \o Zeros(PadFor(1))) = 1 + PadFor(1)
      /\ (<<u>> \o Zeros(PadFor(1)))[1] = u
  BY <1>1, <1>2, Joined
<1> QED  BY <1>3, <1>4

ExtensionHeader(h) == Header(Stump, "file", h.attr, h.time, 1, << >>, {})

\* An extension: a header of size 1, a block on its body.
LEMMA ExtensionRow ==
    ASSUME NEW type, NEW h, NEW data
    PROVE  LET e == Extension(type, h, data)
           IN  /\ Row(e) /\ Len(e) = BLOCK + 1 + PadFor(1)
               /\ e[1] = FieldsOf(ExtensionHeader(h), type, 1)
               /\ e[BLOCK + 1].holds = data
<1> DEFINE b == Encode(ExtensionHeader(h), type, 1)
           e == b \o Body(data)
<1>1. Row(b) /\ Len(b) = BLOCK /\ b[1] = FieldsOf(ExtensionHeader(h), type, 1)
  BY EncodeRow
<1>2. Row(Body(data)) /\ Len(Body(data)) = 1 + PadFor(1) /\ Body(data)[1].holds = data
  BY BodyRow
<1>3. Extension(type, h, data) = e
  BY DEF Extension, ExtensionHeader
<1> HIDE DEF b
<1>4. /\ Row(e) /\ Len(e) = Len(b) + Len(Body(data))
      /\ \A i \in 1 .. Len(b) : e[i] = b[i]
      /\ \A i \in 1 .. Len(Body(data)) : e[Len(b) + i] = Body(data)[i]
  BY <1>1, <1>2, Joined
<1>5. BLOCK \in Nat \ {0} /\ PadFor(1) \in Nat
  BY PaddingFits
<1> HIDE DEF e
<1>6. e[1] = b[1] /\ e[BLOCK + 1] = Body(data)[1] /\ Len(e) = BLOCK + 1 + PadFor(1)
  BY <1>1, <1>2, <1>4, <1>5
<1> QED  BY <1>1, <1>2, <1>3, <1>4, <1>6

\* A header is not a block of zeroes.
LEMMA AtHeader ==
    ASSUME NEW h, NEW type, NEW size, wire # << >>, wire[1] = FieldsOf(h, type, size)
    PROVE  ~IsZeroBlock /\ Fields = FieldsOf(h, type, size) /\ Fields.type = type
<1>1. /\ FieldsOf(h, type, size).is = "head" /\ FieldsOf(h, type, size).type = type
      /\ Zero.is = "zero"
  BY DEF FieldsOf, Zero
<1> QED  BY <1>1, PaddingFits DEF IsZeroBlock, Fields, Ahead

\* What next takes of an extension, and what is left.
LEMMA AtExtension ==
    ASSUME NEW type, type \notin Kinds, NEW h, NEW data, NEW rest, Row(rest),
           wire = Extension(type, h, data) \o rest, carried.scanning
    PROVE  /\ wire # << >> /\ ~IsZeroBlock /\ Fields.type = type /\ Has /\ BodyHeld = data
           /\ Needs \in Nat /\ (Take(Needs) => wire' = rest)
<1> DEFINE e == Extension(type, h, data)
<1>1. /\ Row(e) /\ Len(e) = BLOCK + 1 + PadFor(1) /\ e[BLOCK + 1].holds = data
      /\ e[1] = FieldsOf(ExtensionHeader(h), type, 1)
  BY ExtensionRow
<1>2. BLOCK \in Nat \ {0} /\ PadFor(1) \in Nat /\ Len(rest) \in Nat
  BY PaddingFits, RowFacts
<1> HIDE DEF e
<1> DEFINE w == e \o rest
<1>3. wire = w
  BY DEF e
<1>4. /\ Row(w) /\ Len(w) = Len(e) + Len(rest) /\ w[1] = e[1]
      /\ w[BLOCK + 1] = e[BLOCK + 1] /\ SubSeq(w, Len(e) + 1, Len(w)) = rest
  <2>1. /\ Row(w) /\ Len(w) = Len(e) + Len(rest)
        /\ \A i \in 1 .. Len(e) : w[i] = e[i]
        /\ SubSeq(w, Len(e) + 1, Len(w)) = rest
    <3>1. Row(e) /\ Row(rest)
      BY <1>1
    <3>2. Row(w) /\ Len(w) = Len(e) + Len(rest)
      BY <3>1, Joined
    <3>3. \A i \in 1 .. Len(e) : w[i] = e[i]
      BY <3>1, Joined
    <3>4. SubSeq(w, Len(e) + 1, Len(w)) = rest
      BY <3>1, Joined
    <3> HIDE DEF w
    <3> QED  BY <3>2, <3>3, <3>4
  <2>2. 1 \in 1 .. Len(e) /\ BLOCK + 1 \in 1 .. Len(e)
    BY <1>1, <1>2
  <2> HIDE DEF w
  <2> QED  BY <2>1, <2>2
<1> HIDE DEF w
<1>5. Len(wire) >= BLOCK /\ Len(wire) >= Len(e) /\ wire # << >>
  <2>1. Len(w) >= BLOCK /\ Len(w) >= Len(e) /\ Len(w) # 0
    <3> DEFINE p == PadFor(1)
    <3>1. Len(e) = BLOCK + 1 + p /\ Len(w) = Len(e) + Len(rest)
      BY <1>1, <1>4
    <3>2. p \in Nat
      BY <1>2
    <3> HIDE DEF p
    <3> QED  BY <1>2, <3>1, <3>2
  <2>2. w # << >>
    BY <1>4, <2>1, RowFacts
  <2> QED  BY <1>3, <2>1, <2>2
<1>6. ~IsZeroBlock /\ Fields = FieldsOf(ExtensionHeader(h), type, 1) /\ Fields.type = type
  BY <1>1, <1>3, <1>4, <1>5, AtHeader
<1>7. Fields.size = 1
  BY <1>6 DEF FieldsOf
<1>8. Needs = Len(e) /\ Len(e) \in Nat
  <2>1. Needs = BLOCK + 1 + PadFor(1)
    BY <1>1, <1>2, <1>5, <1>6, <1>7 DEF Needs, HasBody
  <2> QED  BY <1>1, <1>2, <2>1
<1> QED  BY <1>1, <1>3, <1>4, <1>5, <1>6, <1>8 DEF Has, BodyHeld, Take

\* The same of a header that begins an entry, last on the wire.
LEMMA AtEntry ==
    ASSUME NEW type \in Kinds, NEW h, NEW size, wire = Encode(h, type, size), carried.scanning
    PROVE  /\ wire # << >> /\ ~IsZeroBlock /\ Fields = FieldsOf(h, type, size)
           /\ Fields.type = type /\ Has
           /\ Needs \in Nat /\ (Take(BLOCK) => wire' = << >>)
<1>1. Row(wire) /\ Len(wire) = BLOCK /\ wire[1] = FieldsOf(h, type, size) /\ BLOCK \in Nat \ {0}
  BY EncodeRow, PaddingFits
<1>2. wire # << >>
  BY <1>1, RowFacts
<1>3. ~IsZeroBlock /\ Fields = FieldsOf(h, type, size) /\ Fields.type = type
  BY <1>1, <1>2, AtHeader
<1>4. Needs = BLOCK
  BY <1>1, <1>3 DEF Needs, HasBody
<1>5. SubSeq(wire, BLOCK + 1, Len(wire)) = << >>
  BY <1>1, SubSeqEmpty
<1> QED  BY <1>1, <1>2, <1>3, <1>4, <1>5 DEF Has, Take

UnknownHeader(size) == Header(Stump, "file", 0, 0, size, << >>, {})
Unknown(size) ==
    Encode(UnknownHeader(size), "sparse", size) \o Contents(UnknownHeader(size))
    \o Zeros(PadFor(size))

\* An entry of unknown type: a header, its contents, padding.
LEMMA UnknownRow ==
    ASSUME NEW size \in Nat
    PROVE  /\ Row(Unknown(size)) /\ Len(Unknown(size)) = BLOCK + size + PadFor(size)
           /\ Unknown(size)[1] = FieldsOf(UnknownHeader(size), "sparse", size)
<1> DEFINE h == UnknownHeader(size)
           b == Encode(h, "sparse", size)
           c == Contents(h)
           z == Zeros(PadFor(size))
<1>1. Row(b) /\ Len(b) = BLOCK /\ b[1] = FieldsOf(h, "sparse", size)
  BY EncodeRow
<1>2. Row(c) /\ Len(c) = size
  <2>1. h.size = size
    BY DEF UnknownHeader, Header
  <2> QED  BY <2>1, ContentsRow
<1>3. Row(z) /\ Len(z) = PadFor(size)
  BY PaddingFits, ZerosRow
<1>4. BLOCK \in Nat \ {0} /\ PadFor(size) \in Nat
  BY PaddingFits
<1> HIDE DEF h, b, c, z
<1>5. Row(b \o c) /\ Len(b \o c) = BLOCK + size /\ (b \o c)[1] = b[1]
  BY <1>1, <1>2, <1>4, Joined
<1>6. /\ Row(b \o c \o z) /\ Len(b \o c \o z) = BLOCK + size + PadFor(size)
      /\ (b \o c \o z)[1] = b[1]
  BY <1>3, <1>4, <1>5, Joined
<1> QED  BY <1>1, <1>6 DEF Unknown, h, b, c, z

\* At an entry of unknown type the reader skips just what was written for it.
LEMMA AtUnknown ==
    ASSUME NEW size \in Nat, wire = Unknown(size), carried.scanning
    PROVE  /\ wire # << >> /\ ~IsZeroBlock /\ Fields.type = "sparse" /\ Has
           /\ Needs \in Nat /\ (Take(Needs) => wire' = << >>)
<1>1. /\ Row(wire) /\ Len(wire) = BLOCK + size + PadFor(size)
      /\ wire[1] = FieldsOf(UnknownHeader(size), "sparse", size)
  BY UnknownRow
<1>2. /\ BLOCK \in Nat \ {0} /\ PadFor(size) \in Nat /\ Len(wire) \in Nat /\ Len(wire) # 0
      /\ Len(wire) >= BLOCK /\ wire # << >>
  <2>1. BLOCK \in Nat \ {0} /\ PadFor(size) \in Nat
    BY PaddingFits
  <2>2. Len(wire) \in Nat /\ Len(wire) # 0 /\ Len(wire) >= BLOCK
    BY <1>1, <2>1
  <2>3. wire # << >>
    BY <1>1, <2>2, RowFacts
  <2> QED  BY <2>1, <2>2, <2>3
<1>3. /\ ~IsZeroBlock /\ Fields = FieldsOf(UnknownHeader(size), "sparse", size)
      /\ Fields.type = "sparse"
  BY <1>1, <1>2, AtHeader
<1>4. Fields.size = size
  BY <1>3 DEF FieldsOf
<1>5. Needs = Len(wire)
  BY <1>1, <1>2, <1>3, <1>4 DEF Needs, HasBody, Kinds
<1>6. SubSeq(wire, Len(wire) + 1, Len(wire)) = << >>
  BY <1>2, SubSeqEmpty
<1> QED  BY <1>1, <1>2, <1>3, <1>5, <1>6 DEF Has, Take

\* At zeros it takes one zero block.
LEMMA AtZeros ==
    ASSUME NEW n \in Nat, wire = Zeros(BLOCK + n), carried.scanning
    PROVE  /\ wire # << >> /\ IsZeroBlock /\ Has
           /\ Needs \in Nat /\ (Take(BLOCK) => wire' = Zeros(n))
<1>1. BLOCK \in Nat \ {0}
  BY PaddingFits
<1>2. /\ Row(wire) /\ Len(wire) = BLOCK + n /\ \A k \in 1 .. BLOCK + n : wire[k] = Zero
  BY <1>1, ZerosRow
<1>3. Row(Zeros(BLOCK)) /\ Len(Zeros(BLOCK)) = BLOCK /\ Row(Zeros(n))
  BY <1>1, ZerosRow
<1>4. wire = Zeros(BLOCK) \o Zeros(n)
  BY <1>1, ZerosJoined
<1>5. SubSeq(wire, BLOCK + 1, Len(wire)) = Zeros(n)
  <2> DEFINE a == Zeros(BLOCK)
             b == Zeros(n)
  <2>1. Row(a) /\ Len(a) = BLOCK /\ Row(b) /\ wire = a \o b
    BY <1>3, <1>4
  <2> HIDE DEF a, b
  <2>2. SubSeq(a \o b, Len(a) + 1, Len(a \o b)) = b
    BY <2>1, Joined
  <2> QED  BY <2>1, <2>2 DEF b
<1>6. wire # << >> /\ IsZeroBlock /\ Len(wire) >= BLOCK
  <2>1. Len(wire) >= BLOCK /\ Len(wire) # 0 /\ \A k \in 1 .. BLOCK : wire[k] = Zero
    BY <1>1, <1>2
  <2>2. wire # << >>
    BY <1>2, <2>1, RowFacts
  <2> QED  BY <2>1, <2>2 DEF IsZeroBlock
<1>7. Needs = BLOCK
  BY <1>6 DEF Needs
<1> QED  BY <1>1, <1>5, <1>6, <1>7 DEF Has, Take

(***************************************************************************)
(* What the reader makes of the headers of an entry.                       *)
(***************************************************************************)
\* A header that can be written: what has no contents has no size, and its path needs
\* no "./" taken off.
Good(h) ==
    /\ h = Header(h.path, h.kind, h.attr, h.time, h.size, h.link, h.labels)
    /\ h.kind \in Kinds /\ h.size \in Nat /\ (h.kind # "file" => h.size = 0)
    /\ Row(h.path) /\ "." \notin ToSet(h.path)

\* What next carries from header to header.
CarriesOnly(name, link, pax) == carried.name = name /\ carried.link = link /\ carried.pax = pax
CarriesNothing == CarriesOnly({}, {}, NoRecords)

\* The records declared for all entries have been read.
Declared(labels) == [NoRecords EXCEPT !.labels = labels]
GlobalsRead == global = Declared(everywhere)

\* normalise takes off what a tool puts in front, and nothing else.
LEMMA NormaliseIs ==
    ASSUME NEW p, Row(p), "." \notin ToSet(p)
    PROVE  Normalise(p) = p /\ Normalise(<<".">> \o p) = p
<1>1. Len(p) \in Nat /\ (p = << >> <=> Len(p) = 0) /\ \A i \in 1 .. Len(p) : p[i] # "."
  BY RowFacts DEF ToSet
<1>2. Normalise(p) = p
  <2> DEFINE named == {k \in 1 .. Len(p) : p[k] # "."}
  <2>1. named = 1 .. Len(p)
    BY <1>1
  <2>2. CASE Len(p) = 0
    <3>1. named = {}
      BY <2>1, <2>2
    <3> QED  BY <1>1, <2>2, <3>1 DEF Normalise
  <2>3. CASE Len(p) # 0
    <3>1. (CHOOSE k \in named : \A j \in named : k <= j) = 1
      BY <1>1, <2>1, <2>3
    <3>2. named # {}
      BY <1>1, <2>1, <2>3
    <3>3. SubSeq(p, 1, Len(p)) = p
      BY SubSeqFull DEF Row
    <3> QED  BY <3>1, <3>2, <3>3 DEF Normalise
  <2> QED  BY <2>2, <2>3
<1> DEFINE q == <<".">> \o p
<1>3. Row(<<".">>) /\ Len(<<".">>) = 1 /\ <<".">>[1] = "."
  <2>1. <<".">> \in Seq({"."})
    OBVIOUS
  <2> QED  BY <2>1, RowIs
<1>4. /\ Len(q) = 1 + Len(p) /\ SubSeq(q, 2, Len(q)) = p
      /\ q[1] = "." /\ \A i \in 1 .. Len(p) : q[1 + i] = p[i]
  <2> DEFINE d == <<".">>
  <2>1. Row(d) /\ Len(d) = 1 /\ d[1] = "."
    BY <1>3
  <2> HIDE DEF d, q
  <2>2. /\ Len(d \o p) = Len(d) + Len(p)
        /\ \A i \in 1 .. Len(d) : (d \o p)[i] = d[i]
        /\ \A i \in 1 .. Len(p) : (d \o p)[Len(d) + i] = p[i]
        /\ SubSeq(d \o p, Len(d) + 1, Len(d \o p)) = p
    <3>1. Len(d \o p) = Len(d) + Len(p) /\ \A i \in 1 .. Len(d) : (d \o p)[i] = d[i]
      BY <2>1, Joined, Zenon
    <3>2. \A i \in 1 .. Len(p) : (d \o p)[Len(d) + i] = p[i]
      BY <2>1, Joined, Zenon
    <3>3. SubSeq(d \o p, Len(d) + 1, Len(d \o p)) = p
      BY <2>1, Joined, Zenon
    <3> QED  BY <3>1, <3>2, <3>3
  <2>3. 1 \in 1 .. Len(d) /\ Len(d) + 1 = 2
    BY <2>1
  <2> QED  BY <2>1, <2>2, <2>3 DEF d, q
<1>5. Normalise(q) = p
  <2> HIDE DEF q
  <2> DEFINE named == {k \in 1 .. Len(q) : q[k] # "."}
  <2>1. named = 2 .. Len(q)
    <3>1. \A k \in 2 .. Len(q) : k - 1 \in 1 .. Len(p) /\ 1 + (k - 1) = k
      BY <1>1, <1>4
    <3>2. \A k \in 2 .. Len(q) : q[k] = p[k - 1]
      BY <1>4, <3>1
    <3>3. \A k \in 2 .. Len(q) : q[k] # "."
      BY <1>1, <3>1, <3>2
    <3>4. Len(q) \in Nat
      BY <1>1, <1>4
    <3>5. \A k \in 1 .. Len(q) : k = 1 \/ k \in 2 .. Len(q)
      BY <3>4
    <3> QED  BY <1>4, <3>3, <3>4, <3>5
  <2>2. CASE Len(p) = 0
    <3>1. named = {}
      BY <1>4, <2>1, <2>2
    <3> QED  BY <1>1, <2>2, <3>1 DEF Normalise
  <2>3. CASE Len(p) # 0
    <3>1. (CHOOSE k \in named : \A j \in named : k <= j) = 2 /\ named # {}
      BY <1>1, <1>4, <2>1, <2>3
    <3> QED  BY <1>4, <3>1 DEF Normalise
  <2> QED  BY <2>2, <2>3
<1> QED  BY <1>2, <1>5 DEF q

\* A path with "./" in front.
LEMMA Dotted ==
    ASSUME NEW p, Row(p)
    PROVE  Row(<<".">> \o p) /\ "." \in ToSet(<<".">> \o p)
<1> DEFINE d == <<".">>
<1>1. Row(d) /\ Len(d) = 1 /\ d[1] = "."
  <2>1. d \in Seq({"."})
    OBVIOUS
  <2> QED  BY <2>1, RowIs
<1>2. Len(p) \in Nat
  BY RowFacts
<1> HIDE DEF d
<1>3. Row(d \o p) /\ Len(d \o p) = 1 + Len(p) /\ (d \o p)[1] = "."
  <2>1. Row(d \o p) /\ Len(d \o p) = Len(d) + Len(p) /\ \A i \in 1 .. Len(d) : (d \o p)[i] = d[i]
    BY <1>1, Joined
  <2>2. 1 \in 1 .. Len(d)
    BY <1>1
  <2> QED  BY <1>1, <2>1, <2>2
<1>4. 1 \in 1 .. Len(d \o p)
  BY <1>2, <1>3
<1> QED  BY <1>3, <1>4, RowFacts DEF d

\* What an optional value holds, if it holds one.
LEMMA TheOne == \A x : The({x}) = x /\ {x} # {}
BY DEF The

\* The header's own fields, with every label.
WithLabels(h, labels) == Header(h.path, h.kind, h.attr, h.time, h.size, h.link, labels)

\* What is read of a header that pack wrote, after the records it wrote in front of it.
LEMMA PackedResolves ==
    ASSUME Spills = {}, NEW h, Good(h), GlobalsRead, CarriesOnly({}, {}, Records(h)),
           Fields = FieldsOf(h, h.kind, SizeField(h))
    PROVE  Resolved = WithLabels(h, h.labels \cup everywhere)
<1>1. /\ global.path = {} /\ global.link = {} /\ global.labels = everywhere
      /\ carried.name = {} /\ carried.link = {} /\ carried.pax = Records(h)
      /\ carried.pax.labels = h.labels
  BY DEF GlobalsRead, Declared, NoRecords, CarriesOnly, Records
<1>2. /\ Fields.type = h.kind /\ Fields.attr = h.attr /\ Fields.time = h.time
      /\ Fields.size = SizeField(h)
      /\ Fields.link = IF h.link \in Long THEN Stump ELSE h.link
      /\ h.path \notin Long => Fields.name = h.path /\ Fields.prefix = << >>
  <2>1. h.path \notin Long => SplitName(h.path) = [name |-> h.path, prefix |-> << >>]
    BY DEF SplitName
  <2> QED  BY <2>1 DEF FieldsOf
<1>3. (IF Fields.type = "file" THEN Fields.size ELSE 0) = h.size
  BY <1>2 DEF SizeField, Good
<1>4. Normalise(The(Else(carried.pax.path, Else(global.path,
          Else(carried.name, {Fields.prefix \o Fields.name}))))) = h.path
  <2>1. CASE h.path \in Long
    <3>1. carried.pax.path = {h.path}
      BY <1>1, <2>1 DEF Records
    <3>2. The(Else(carried.pax.path, Else(global.path,
              Else(carried.name, {Fields.prefix \o Fields.name})))) = h.path
      BY <3>1, TheOne DEF Else
    <3> QED  BY <3>2, NormaliseIs DEF Good
  <2>2. CASE h.path \notin Long
    <3>1. carried.pax.path = {}
      BY <1>1, <2>2 DEF Records
    <3>2. Fields.prefix \o Fields.name = h.path
      <4> DEFINE q == h.path
      <4>1. Row(q)
        BY DEF Good
      <4> HIDE DEF q
      <4>2. << >> \o q = q
        BY <4>1, EmptyRow, Joined
      <4> QED  BY <1>2, <2>2, <4>2 DEF q
    <3>3. The(Else(carried.pax.path, Else(global.path,
              Else(carried.name, {Fields.prefix \o Fields.name})))) = h.path
      BY <1>1, <3>1, <3>2, TheOne DEF Else
    <3> QED  BY <3>3, NormaliseIs DEF Good
  <2> QED  BY <2>1, <2>2
<1>5. The(Else(carried.pax.link, Else(global.link, Else(carried.link, {Fields.link})))) = h.link
  <2>1. CASE h.link \in Long
    <3>1. carried.pax.link = {h.link}
      BY <1>1, <2>1 DEF Records
    <3> QED  BY <3>1, TheOne DEF Else
  <2>2. CASE h.link \notin Long
    <3>1. carried.pax.link = {} /\ Fields.link = h.link
      BY <1>1, <1>2, <2>2 DEF Records
    <3> QED  BY <1>1, <3>1, TheOne DEF Else
  <2> QED  BY <2>1, <2>2
<1> QED  BY <1>1, <1>2, <1>3, <1>4, <1>5, Zenon DEF Resolved, WithLabels

\* What another tool puts in front of a header, the header, and what next keeps of that.
NameAhead(h) == IF h.path \in Long THEN Extension("L", h, <<".">> \o h.path) ELSE << >>
LinkAhead(h) == IF h.link \in Long THEN Extension("K", h, h.link) ELSE << >>
Cut(h) == [h EXCEPT !.path = IF @ \in Long THEN Stump ELSE <<".">> \o @,
                    !.link = IF @ \in Long THEN Stump ELSE @]
NameKept(h) == IF h.path \in Long THEN {<<".">> \o h.path} ELSE {}
LinkKept(h) == IF h.link \in Long THEN {h.link} ELSE {}

\* A header with another path and link.
LEMMA HeaderWith ==
    ASSUME NEW p, NEW k, NEW a, NEW t, NEW s, NEW l, NEW b, NEW x, NEW y, NEW h,
           h = Header(p, k, a, t, s, l, b)
    PROVE  LET c == [h EXCEPT !.path = x, !.link = y]
           IN  c.path = x /\ c.link = y /\ c.attr = a /\ c.time = t
BY DEF Header

\* The header another tool writes has stumps where name or link is too long.
LEMMA CutIs ==
    ASSUME NEW h, Good(h)
    PROVE  /\ Cut(h).path = IF h.path \in Long THEN Stump ELSE <<".">> \o h.path
           /\ Cut(h).link = IF h.link \in Long THEN Stump ELSE h.link
           /\ Cut(h).attr = h.attr /\ Cut(h).time = h.time
<1> DEFINE x == IF h.path \in Long THEN Stump ELSE <<".">> \o h.path
           y == IF h.link \in Long THEN Stump ELSE h.link
<1>1. Cut(h) = [h EXCEPT !.path = x, !.link = y]
  BY DEF Cut
<1> HIDE DEF x, y
<1> DEFINE p == h.path  k == h.kind  a == h.attr  t == h.time  s == h.size  l == h.link
           b == h.labels
<1>2. h = Header(p, k, a, t, s, l, b)
  BY DEF Good
<1> HIDE DEF p, k, a, t, s, l, b
<1>3. Cut(h).path = x /\ Cut(h).link = y /\ Cut(h).attr = a /\ Cut(h).time = t
  BY <1>1, <1>2, HeaderWith
<1> QED  BY <1>3 DEF x, y, a, t

\* What is read of a header another tool wrote, after its long name and link.
LEMMA GnuResolves ==
    ASSUME Spills = {}, NEW h, Good(h), GlobalsRead,
           CarriesOnly(NameKept(h), LinkKept(h), NoRecords),
           Fields = FieldsOf(Cut(h), h.kind, SizeField(h))
    PROVE  Resolved = WithLabels(h, everywhere)
<1>1. /\ global.path = {} /\ global.link = {} /\ global.labels = everywhere
      /\ carried.name = NameKept(h) /\ carried.link = LinkKept(h)
      /\ carried.pax.path = {} /\ carried.pax.link = {} /\ carried.pax.labels = {}
  BY DEF GlobalsRead, Declared, NoRecords, CarriesOnly
<1>2. /\ Cut(h).path = IF h.path \in Long THEN Stump ELSE <<".">> \o h.path
      /\ Cut(h).link = IF h.link \in Long THEN Stump ELSE h.link
      /\ Cut(h).attr = h.attr /\ Cut(h).time = h.time
  BY CutIs
<1>3. /\ Fields.type = h.kind /\ Fields.attr = h.attr /\ Fields.time = h.time
      /\ Fields.size = SizeField(h)
      /\ h.link \notin Long => Fields.link = h.link
      /\ h.path \notin Long => Fields.name = <<".">> \o h.path /\ Fields.prefix = << >>
  <2>1. h.path \notin Long => Cut(h).path \notin Long
    BY <1>2, Dotted, ToolAssumption DEF Good
  <2>2. h.path \notin Long => SplitName(Cut(h).path) = [name |-> Cut(h).path, prefix |-> << >>]
    BY <2>1 DEF SplitName
  <2>3. /\ Fields.type = h.kind /\ Fields.attr = h.attr /\ Fields.time = h.time
        /\ Fields.size = SizeField(h)
    BY <1>2 DEF FieldsOf
  <2>4. Fields.link = IF Cut(h).link \in Long THEN Stump ELSE Cut(h).link
    BY DEF FieldsOf
  <2>5. h.path \notin Long => Fields.name = Cut(h).path /\ Fields.prefix = << >>
    BY <2>2 DEF FieldsOf
  <2> QED  BY <1>2, <2>3, <2>4, <2>5
<1>4. (IF Fields.type = "file" THEN Fields.size ELSE 0) = h.size
  BY <1>3 DEF SizeField, Good
<1>5. Normalise(The(Else(carried.pax.path, Else(global.path,
          Else(carried.name, {Fields.prefix \o Fields.name}))))) = h.path
  <2>1. CASE h.path \in Long
    <3>1. carried.name = {<<".">> \o h.path}
      BY <1>1, <2>1 DEF NameKept
    <3>2. The(Else(carried.pax.path, Else(global.path,
              Else(carried.name, {Fields.prefix \o Fields.name})))) = <<".">> \o h.path
      BY <1>1, <3>1, TheOne DEF Else
    <3> QED  BY <3>2, NormaliseIs DEF Good
  <2>2. CASE h.path \notin Long
    <3>1. carried.name = {}
      BY <1>1, <2>2 DEF NameKept
    <3>2. Fields.prefix \o Fields.name = <<".">> \o h.path
      <4> DEFINE q == <<".">> \o h.path
      <4>1. Row(q)
        BY Dotted DEF Good
      <4> HIDE DEF q
      <4>2. << >> \o q = q
        BY <4>1, EmptyRow, Joined
      <4> QED  BY <1>3, <2>2, <4>2 DEF q
    <3>3. The(Else(carried.pax.path, Else(global.path,
              Else(carried.name, {Fields.prefix \o Fields.name})))) = <<".">> \o h.path
      BY <1>1, <3>1, <3>2, TheOne DEF Else
    <3> QED  BY <3>3, NormaliseIs DEF Good
  <2> QED  BY <2>1, <2>2
<1>6. The(Else(carried.pax.link, Else(global.link, Else(carried.link, {Fields.link})))) = h.link
  <2>1. CASE h.link \in Long
    <3>1. carried.link = {h.link}
      BY <1>1, <2>1 DEF LinkKept
    <3> QED  BY <1>1, <3>1, TheOne DEF Else
  <2>2. CASE h.link \notin Long
    <3>1. carried.link = {} /\ Fields.link = h.link
      BY <1>1, <1>3, <2>2 DEF LinkKept
    <3> QED  BY <1>1, <3>1, TheOne DEF Else
  <2> QED  BY <2>1, <2>2
<1>7. {} \cup everywhere = everywhere
  OBVIOUS
<1> QED  BY <1>1, <1>3, <1>4, <1>5, <1>6, <1>7, Zenon DEF Resolved, WithLabels

(***************************************************************************)
(* Headers.                                                                *)
(***************************************************************************)
LEMMA HeaderLabelled ==
    ASSUME NEW p, NEW k, NEW a, NEW t, NEW s, NEW l, NEW b, NEW x
    PROVE  [Header(p, k, a, t, s, l, b) EXCEPT !.labels = x] = Header(p, k, a, t, s, l, x)
BY DEF Header

\* A header with another number.
LEMMA HeaderNumbered ==
    ASSUME NEW p, NEW k, NEW a, NEW t, NEW s, NEW l, NEW b, NEW x
    PROVE  [Header(p, k, a, t, s, l, b) EXCEPT !.attr = x] = Header(p, k, x, t, s, l, b)
BY DEF Header

\* A header with another time.
LEMMA HeaderTimed ==
    ASSUME NEW p, NEW k, NEW a, NEW t, NEW s, NEW l, NEW b, NEW x
    PROVE  [Header(p, k, a, t, s, l, b) EXCEPT !.time = x] = Header(p, k, a, x, s, l, b)
BY DEF Header

\* A header may get other labels, and another number and time.
LEMMA Relabelled ==
    ASSUME NEW h, Good(h), NEW x
    PROVE  /\ [h EXCEPT !.labels = x] = WithLabels(h, x) /\ Good(WithLabels(h, x))
           /\ WithLabels(h, x).labels = x /\ WithLabels(h, x).size = h.size
           /\ WithLabels(h, x).kind = h.kind /\ SizeField(WithLabels(h, x)) = SizeField(h)
           /\ SizeField(h) = h.size /\ h.size \in Nat
           /\ \A y : WithLabels(WithLabels(h, x), y) = WithLabels(h, y)
           /\ WithLabels(h, h.labels) = h
<1>1. [h EXCEPT !.labels = x] = WithLabels(h, x)
  <2> DEFINE p == h.path  k == h.kind  a == h.attr  t == h.time  s == h.size  l == h.link
             b == h.labels
  <2>1. h = Header(p, k, a, t, s, l, b)
    BY DEF Good
  <2> HIDE DEF p, k, a, t, s, l, b
  <2>2. [Header(p, k, a, t, s, l, b) EXCEPT !.labels = x] = Header(p, k, a, t, s, l, x)
    BY HeaderLabelled
  <2>3. [h EXCEPT !.labels = x] = Header(p, k, a, t, s, l, x)
    BY <2>1, <2>2, Zenon
  <2> QED  BY <2>3, Zenon DEF p, k, a, t, s, l, b, WithLabels
<1>2. /\ WithLabels(h, x).path = h.path /\ WithLabels(h, x).kind = h.kind
      /\ WithLabels(h, x).attr = h.attr /\ WithLabels(h, x).time = h.time
      /\ WithLabels(h, x).size = h.size /\ WithLabels(h, x).link = h.link
      /\ WithLabels(h, x).labels = x
  BY DEF WithLabels, Header
<1>3. h.kind \in Kinds /\ h.size \in Nat /\ (h.kind # "file" => h.size = 0)
      /\ Row(h.path) /\ "." \notin ToSet(h.path)
  BY DEF Good
<1>4. \A y : WithLabels(WithLabels(h, x), y) = WithLabels(h, y)
  BY <1>2, Zenon DEF WithLabels
<1>5. WithLabels(WithLabels(h, x), x) = WithLabels(h, x)
  BY <1>4
<1>6. Good(WithLabels(h, x))
  <2> DEFINE w == WithLabels(h, x)
  <2>1. w = Header(w.path, w.kind, w.attr, w.time, w.size, w.link, w.labels)
    BY <1>2, <1>5, Zenon DEF WithLabels
  <2> QED  BY <1>2, <1>3, <2>1 DEF Good
<1>7. WithLabels(h, h.labels) = h
  BY Zenon DEF WithLabels, Good
<1>8. SizeField(h) = h.size /\ SizeField(WithLabels(h, x)) = SizeField(h)
  BY <1>2, <1>3 DEF SizeField
<1> QED  BY <1>1, <1>2, <1>3, <1>4, <1>6, <1>7, <1>8

\* Numbering and timing a tool's header leaves it Good.
LEMMA Renumbered ==
    ASSUME NEW h, Good(h), NEW x, NEW y
    PROVE  Good([h EXCEPT !.attr = x, !.time = IF @ = 0 THEN 0 ELSE y])
<1> DEFINE p == h.path  k == h.kind  a == h.attr  t == h.time  s == h.size  l == h.link
           b == h.labels
           z == IF h.time = 0 THEN 0 ELSE y
           g == [h EXCEPT !.attr = x, !.time = z]
<1>1. h = Header(p, k, a, t, s, l, b)
  BY DEF Good
<1>2. /\ k \in Kinds /\ s \in Nat /\ (k # "file" => s = 0) /\ Row(p) /\ "." \notin ToSet(p)
  BY DEF Good
<1>3. [h EXCEPT !.attr = x, !.time = IF @ = 0 THEN 0 ELSE y] = g
  OBVIOUS
<1> HIDE DEF p, k, a, t, s, l, b, z
<1>4. g = Header(p, k, x, z, s, l, b)
  <2>1. [h EXCEPT !.attr = x] = [Header(p, k, a, t, s, l, b) EXCEPT !.attr = x]
    BY <1>1, Zenon
  <2>2. [Header(p, k, a, t, s, l, b) EXCEPT !.attr = x] = Header(p, k, x, t, s, l, b)
    BY HeaderNumbered
  <2>3. [Header(p, k, x, t, s, l, b) EXCEPT !.time = z] = Header(p, k, x, z, s, l, b)
    BY HeaderTimed
  <2>4. g = [[h EXCEPT !.attr = x] EXCEPT !.time = z]
    OBVIOUS
  <2> QED  BY <2>1, <2>2, <2>3, <2>4, Zenon
<1> HIDE DEF g
<1>5. /\ g.path = p /\ g.kind = k /\ g.attr = x /\ g.time = z /\ g.size = s
      /\ g.link = l /\ g.labels = b
  BY <1>4 DEF Header
<1>6. g = Header(g.path, g.kind, g.attr, g.time, g.size, g.link, g.labels)
  BY <1>4, <1>5, Zenon
<1>7. Good(g)
  BY <1>2, <1>5, <1>6 DEF Good
<1> QED  BY <1>3, <1>7, Zenon

\* A header made from its fields.
LEMMA HeaderIsGood ==
    ASSUME NEW p, NEW k \in Kinds, NEW a, NEW t, NEW s \in Nat, NEW l, NEW b,
           k # "file" => s = 0, Row(p), "." \notin ToSet(p)
    PROVE  Good(Header(p, k, a, t, s, l, b))
<1> DEFINE g == Header(p, k, a, t, s, l, b)
<1>1. /\ g.path = p /\ g.kind = k /\ g.attr = a /\ g.time = t /\ g.size = s
      /\ g.link = l /\ g.labels = b
  BY DEF Header
<1>2. g = Header(g.path, g.kind, g.attr, g.time, g.size, g.link, g.labels)
  BY <1>1, Zenon
<1> HIDE DEF g
<1> QED  BY <1>1, <1>2 DEF Good, g

(***************************************************************************)
(* The walk of Pack.                                                       *)
(***************************************************************************)
\* A path is a sequence of names, and its last name has a place in their order.
LEMMA PathRow ==
    ASSUME NEW p \in Paths
    PROVE  /\ Row(p) /\ p # << >> /\ "." \notin ToSet(p)
           /\ NamePlace(Last(p)) \in Nat /\ NameOrder[NamePlace(Last(p))] = Last(p)
<1>1. p \in Seq(ToSet(NameOrder)) /\ p # << >>
  BY OrderAssumption, PathsAssumption
<1>2. Row(p) /\ Row(NameOrder)
  BY <1>1, OrderAssumption, RowIs DEF Row
<1>3. Len(p) \in Nat \ {0} /\ DOMAIN p = 1 .. Len(p) /\ Len(NameOrder) \in Nat
  BY <1>1, <1>2, RowFacts
<1>4. \A i \in 1 .. Len(p) : p[i] \in ToSet(NameOrder)
  BY <1>1, ElementOfSeq
<1>5. "." \notin ToSet(p)
  BY <1>3, <1>4, OrderAssumption DEF ToSet
<1>6. Last(p) \in ToSet(NameOrder)
  BY <1>3, <1>4 DEF Last
<1>7. \E k \in 1 .. Len(NameOrder) : NameOrder[k] = Last(p)
  BY <1>2, <1>6, RowFacts DEF ToSet
<1>8. NamePlace(Last(p)) \in 1 .. Len(NameOrder) /\ NameOrder[NamePlace(Last(p))] = Last(p)
  BY <1>7 DEF NamePlace
<1> QED  BY <1>1, <1>2, <1>3, <1>5, <1>8

\* No two names of a directory have one place.
LEMMA SiblingsApart ==
    ASSUME NEW p \in Paths, NEW q \in Paths, Front(p) = Front(q),
           NamePlace(Last(p)) = NamePlace(Last(q))
    PROVE  p = q
<1>1. Last(p) = Last(q)
  BY PathRow
<1>2. Append(Front(p), Last(p)) = p /\ Append(Front(q), Last(q)) = q
  BY PathRow, FrontAndLast
<1> QED  BY <1>1, <1>2

\* A directory's children, each once and by the places of their names, which is by rank.
LEMMA ChildrenSorted ==
    ASSUME NEW v, NEW dir
    PROVE  LET o == InOrder(Children(v, dir))
           IN  /\ o \in Seq(Children(v, dir))
               /\ \A j, k \in 1 .. Len(o) :
                      j < k => NamePlace(Last(o[j])) < NamePlace(Last(o[k]))
               /\ \A p \in Children(v, dir) : \E k \in 1 .. Len(o) : o[k] = p
<1> DEFINE S == Children(v, dir)
           place(p) == NamePlace(Last(p))
           upto(p) == {q \in S : place(q) <= place(p)}
           rank(p) == Cardinality(upto(p))
           o == InOrder(S)
<1>1. S \subseteq {p \in Paths : Exists(v, p)} /\ \A p \in S : Front(p) = dir
  BY DEF Children, Parent
<1>2. IsFiniteSet(S) /\ Cardinality(S) \in Nat
  BY <1>1, PathsAssumption, FS_Subset, FS_CardinalityType
<1>3. \A p \in S : place(p) \in Nat
  BY <1>1, PathRow
<1>4. \A p, q \in S : place(p) = place(q) => p = q
  BY <1>1, SiblingsApart
<1> HIDE DEF S, place
<1>5. \A p \in S : IsFiniteSet(upto(p)) /\ rank(p) \in 1 .. Cardinality(S)
  <2> TAKE p \in S
  <2>1. upto(p) \in SUBSET S /\ p \in upto(p)
    BY <1>3
  <2>2. IsFiniteSet(upto(p)) /\ rank(p) <= Cardinality(S)
    BY <1>2, <2>1, FS_Subset
  <2>3. rank(p) \in Nat /\ rank(p) # 0
    BY <2>1, <2>2, FS_CardinalityType, FS_EmptySet
  <2> QED  BY <1>2, <2>2, <2>3
<1>6. ASSUME NEW p \in S, NEW q \in S, place(p) < place(q)  PROVE rank(p) < rank(q)
  <2>1. upto(p) \in SUBSET upto(q) /\ q \in upto(q) /\ q \notin upto(p)
    BY <1>3, <1>6
  <2>2. rank(p) <= rank(q) /\ (rank(q) = rank(p) => upto(q) = upto(p))
    BY <1>5, <2>1, FS_Subset
  <2> QED  BY <1>5, <2>1, <2>2
<1>7. ASSUME NEW i \in 1 .. Cardinality(S), \A p \in S : rank(p) # i  PROVE FALSE
  <2> DEFINE T == (1 .. Cardinality(S)) \ {i}
             f == [p \in S |-> rank(p)]
  <2>1. f \in [S -> T]
    BY <1>5, <1>7
  <2>2. IsFiniteSet(T) /\ Cardinality(T) = Cardinality(S) - 1
    <3>1. IsFiniteSet(1 .. Cardinality(S)) /\ Cardinality(1 .. Cardinality(S)) = Cardinality(S)
      BY <1>2, FS_Interval
    <3> QED  BY <3>1, FS_RemoveElement
  <2>3. Cardinality(T) < Cardinality(S)
    BY <1>2, <2>2
  <2>4. \E x, y \in S : x # y /\ f[x] = f[y]
    <3> HIDE DEF f, T
    <3> QED  BY <1>2, <2>1, <2>2, <2>3, FS_PigeonHole
  <2>5. PICK x, y \in S : x # y /\ rank(x) = rank(y)
    BY <2>4
  <2>6. place(x) < place(y) \/ place(y) < place(x)
    BY <1>3, <1>4, <2>5
  <2>7. rank(x) \in Nat /\ rank(y) \in Nat
    BY <1>5
  <2> QED  BY <1>6, <2>5, <2>6, <2>7
<1>8. o = [k \in 1 .. Cardinality(S) |-> CHOOSE p \in S : rank(p) = k]
  BY Zenon DEF InOrder, place
<1> HIDE DEF rank, o
<1>9. \A k \in 1 .. Cardinality(S) : o[k] \in S /\ rank(o[k]) = k
  BY <1>7, <1>8
<1>10. o \in [1 .. Cardinality(S) -> S]
  BY <1>8, <1>9
<1>11. o \in Seq(S) /\ Len(o) = Cardinality(S)
  BY <1>2, <1>10, SeqDef
<1>12. ASSUME NEW j \in 1 .. Len(o), NEW k \in 1 .. Len(o), j < k
       PROVE  place(o[j]) < place(o[k])
  <2>1. /\ o[j] \in S /\ o[k] \in S /\ rank(o[j]) = j /\ rank(o[k]) = k
        /\ j \in Nat /\ k \in Nat
    BY <1>2, <1>9, <1>11
  <2>2. o[j] # o[k] /\ ~(place(o[k]) < place(o[j]))
    BY <1>6, <1>12, <2>1
  <2> QED  BY <1>3, <1>4, <2>1, <2>2
<1>13. ASSUME NEW p \in S  PROVE \E k \in 1 .. Len(o) : o[k] = p
  <2>1. rank(p) \in 1 .. Len(o) /\ o[rank(p)] \in S /\ rank(o[rank(p)]) = rank(p)
    BY <1>5, <1>9, <1>11
  <2>2. ASSUME o[rank(p)] # p  PROVE FALSE
    <3>1. place(o[rank(p)]) < place(p) \/ place(p) < place(o[rank(p)])
      BY <1>3, <1>4, <2>1, <2>2
    <3>2. rank(p) < rank(p)
      BY <1>6, <2>1, <3>1
    <3> QED  BY <2>1, <3>2
  <2> QED  BY <2>1, <2>2
<1> QED  BY <1>11, <1>12, <1>13 DEF o, S, place

\* A directory's children are paths that exist, whatever their order.
LEMMA ChildrenExist ==
    ASSUME NEW v, NEW dir
    PROVE  InOrder(Children(v, dir)) \in Seq({p \in Paths : Exists(v, p)})
<1>1. Children(v, dir) \subseteq {p \in Paths : Exists(v, p)}
  BY DEF Children
<1> DEFINE S == Children(v, dir)  P == {p \in Paths : Exists(v, p)}
<1>2. InOrder(S) \in Seq(S) /\ S \subseteq P
  BY <1>1, ChildrenSorted
<1> HIDE DEF S, P
<1>3. InOrder(S) \in Seq(P)
  BY <1>2, SeqMonotonic
<1> QED  BY <1>3 DEF S, P

(***************************************************************************)
(* The inductive invariant: what is on the wire by where the reader is.    *)
(***************************************************************************)
Newest == Last(sent)

PlainBlock(h) == Encode(h, h.kind, SizeField(h))
GnuBlock(h) == Encode(Cut(h), h.kind, SizeField(h))

\* The entry put in last is on its way, in headers that Start wrote.
ComesPacked(s) ==
    \E labels \in SUBSET Newest.labels :
        LET h == WithLabels(Newest, labels)
        IN  /\ Newest.labels = labels \cup everywhere
            /\ \/ CarriesNothing /\ s = Extension("x", h, Records(h)) \o PlainBlock(h)
               \/ CarriesOnly({}, {}, Records(h)) /\ s = PlainBlock(h)

\* The same in headers that StartGnu wrote.
ComesGnu(s) ==
    /\ Newest.labels = everywhere
    /\ \/ CarriesNothing /\ s = NameAhead(Newest) \o LinkAhead(Newest) \o GnuBlock(Newest)
       \/ /\ CarriesOnly(NameKept(Newest), {}, NoRecords)
          /\ s = LinkAhead(Newest) \o GnuBlock(Newest)
       \/ CarriesOnly(NameKept(Newest), LinkKept(Newest), NoRecords) /\ s = GnuBlock(Newest)

Coming(s) ==
    /\ ~closed /\ sent # << >> /\ got = Front(sent) /\ GlobalsRead
    /\ owed = SizeField(Newest) /\ owedPad = PadFor(owed)
    /\ feed = "pack" => carried.zeroes = 0
    /\ ComesPacked(s) \/ ComesGnu(s)

\* All entries are delivered, and what is on its way is none.
DeclaredAhead(s) ==
    s = Extension("g", Header(Stump, "file", 0, 0, 1, << >>, {}), Declared(everywhere))
Quiet(s) ==
    /\ ~closed /\ CarriesNothing /\ got = sent /\ owed = 0 /\ owedPad = 0
    /\ feed = "pack" => carried.zeroes = 0
    /\ \/ /\ GlobalsRead
          /\ \/ s = << >> /\ carried.scanning
             \/ s = Zeros(BLOCK) /\ feed = "tool"
             \/ \E size \in UnknownSizes : s = Unknown(size)
       \/ DeclaredAhead(s)

\* The archive is over, but for its end marker.
Over(s) ==
    /\ closed /\ CarriesNothing /\ got = sent
    /\ \/ s = << >>
       \/ s = Zeros(2 * BLOCK) /\ (feed = "pack" => carried.zeroes = 0)
       \/ s = Zeros(BLOCK) /\ (feed = "pack" => carried.zeroes = 1)

\* The padding the reader has yet to pass over.
Behind == IF carried.scanning THEN << >> ELSE Zeros(pad)

\* The reader looks for the next entry and has passed the contents of the last.
Between ==
    /\ answer = "asked" /\ left = 0 /\ pad \in Nat /\ (carried.scanning => pad = 0)
    /\ \E s : Row(s) /\ wire = Behind \o s /\ (Over(s) \/ Quiet(s) \/ Coming(s))

\* It has not: what it has left is on the wire or still owed.
InHand ==
    /\ ~closed /\ answer \in {"asked", "entry"} /\ got = sent
    /\ ~carried.scanning /\ GlobalsRead
    /\ owed \in Nat /\ owedPad \in Nat
    /\ IF sent = << >> THEN owed = 0 ELSE owed <= Newest.size
    /\ left = owed + Len(wire) /\ pad = owedPad

\* It has come to the end of an archive that did not break off.
ReadWhole == answer = "end" /\ left = 0 /\ got = sent /\ (feed = "pack" => wire = << >>)

\* After a break the wire falls short of what the reader takes next.
BrokenOff ==
    /\ closed /\ IsPrefix(got, sent) /\ left \in Nat /\ pad \in Nat
    /\ answer = "asked" => Needs \in Nat /\ Len(wire) < Needs
    /\ answer = "entry" => wire = << >> /\ left > 0

Stream == IF cut THEN BrokenOff ELSE InHand \/ Between \/ ReadWhole

\* Where unpack_stream is, the reader is.
InHands ==
    /\ at = "contents" => answer = "entry"
    /\ at \in {"restamping", "done"} => answer = "end"

\* The walk is over paths of the tree that is packed.
Walk ==
    feed = "pack" => /\ src \in SourceTrees
                     /\ stack \in Seq(Seq({p \in Paths : Exists(src, p)}))

\* What next carries is a record, and nothing before next begins.
Tray ==
    /\ DOMAIN carried = {"scanning", "name", "link", "pax", "zeroes"}
    /\ carried.zeroes \in Nat /\ carried.scanning \in BOOLEAN
    /\ ~carried.scanning => CarriesNothing /\ carried.zeroes = 0

Common ==
    /\ feed \in {"pack", "tool"} /\ answer \in {"asked", "entry", "end", "error"}
    /\ cut \in BOOLEAN
    /\ Row(wire) /\ Row(sent) /\ (sent # << >> => Good(Newest))
    /\ Tray

Inv == InHands /\ Walk /\ Common /\ Stream

\* It holds at first.
LEMMA InitInv == Init => Inv
<1> SUFFICES ASSUME Init  PROVE Inv
  OBVIOUS
<1>1. Tray /\ carried.scanning = FALSE
  BY DEF Init, NothingCarried, Tray, CarriesNothing, CarriesOnly
<1>2. Common
  <2>1. Row(wire) /\ Row(sent) /\ sent = << >>
    BY EmptyRow, Zenon DEF Init
  <2>2. feed \in {"pack", "tool"} /\ answer = "asked" /\ cut = FALSE /\ carried = NothingCarried
    BY DEF Init
  <2> QED  BY <1>1, <2>1, <2>2 DEF Common
<1>3. InHands
  BY DEF Init, UnpackInit, InHands
<1>4. Walk
  <2> SUFFICES ASSUME feed = "pack"  PROVE Walk
    BY DEF Walk
  <2>1. PICK s \in SourceTrees : PackFrom(s)
    BY DEF Init
  <2> DEFINE S == Seq({p \in Paths : Exists(src, p)})
  <2>2. InOrder(Children(src, << >>)) \in S
    BY ChildrenExist
  <2>3. stack = <<InOrder(Children(src, << >>))>> /\ src \in SourceTrees
    BY <2>1 DEF PackFrom
  <2>4. stack \in Seq(S)
    <3> HIDE DEF S
    <3> QED  BY <2>2, <2>3
  <2> QED  BY <2>3, <2>4 DEF Walk
<1>5. GlobalsRead
  <2>1. Declared({}) = NoRecords
    BY DEF Declared, NoRecords
  <2> QED  BY <2>1 DEF Init, GlobalsRead
<1>6. Len(wire) = 0 /\ ~cut
  BY EmptyRow DEF Init
<1>7. InHand
  BY <1>1, <1>5, <1>6 DEF Init, InHand
<1> QED  BY <1>2, <1>3, <1>4, <1>6, <1>7 DEF Inv, Stream

\* The five forms a header that is on its way takes.
Labelled(h) == Good(h) /\ Newest = WithLabels(h, h.labels \cup everywhere)
AtPaxHeader(s, h) ==
    Labelled(h) /\ CarriesNothing /\ s = Extension("x", h, Records(h)) \o PlainBlock(h)
AtPlainBlock(s, h) == Labelled(h) /\ CarriesOnly({}, {}, Records(h)) /\ s = PlainBlock(h)
AtLongName(s) ==
    /\ CarriesNothing /\ Newest.path \in Long
    /\ s = Extension("L", Newest, <<".">> \o Newest.path)
           \o (LinkAhead(Newest) \o GnuBlock(Newest))
AtLongLink(s) ==
    /\ CarriesOnly(NameKept(Newest), {}, NoRecords) /\ Newest.link \in Long
    /\ s = Extension("K", Newest, Newest.link) \o GnuBlock(Newest)
AtGnuBlock(s) ==
    CarriesOnly(NameKept(Newest), LinkKept(Newest), NoRecords) /\ s = GnuBlock(Newest)

\* The headers are rows, and the last of them is not empty.
LEMMA HeaderRows ==
    ASSUME NEW h
    PROVE  /\ Row(PlainBlock(h)) /\ PlainBlock(h) # << >>
           /\ Row(GnuBlock(h)) /\ GnuBlock(h) # << >>
           /\ Row(LinkAhead(h)) /\ Row(NameAhead(h))
           /\ Row(LinkAhead(h) \o GnuBlock(h)) /\ LinkAhead(h) \o GnuBlock(h) # << >>
<1>1. /\ Row(PlainBlock(h)) /\ Len(PlainBlock(h)) = BLOCK
      /\ Row(GnuBlock(h)) /\ Len(GnuBlock(h)) = BLOCK /\ BLOCK \in Nat \ {0}
  BY EncodeRow, PaddingFits DEF PlainBlock, GnuBlock
<1>2. PlainBlock(h) # << >> /\ GnuBlock(h) # << >>
  BY <1>1, RowFacts
<1>3. Row(LinkAhead(h)) /\ Row(NameAhead(h))
  BY EmptyRow, ExtensionRow DEF LinkAhead, NameAhead
<1>4. Row(LinkAhead(h) \o GnuBlock(h)) /\ LinkAhead(h) \o GnuBlock(h) # << >>
  <2> DEFINE a == LinkAhead(h)  b == GnuBlock(h)
  <2>1. Row(a) /\ Row(b) /\ Len(b) = BLOCK
    BY <1>1, <1>3
  <2> HIDE DEF a, b
  <2>2. Row(a \o b) /\ Len(a \o b) = Len(a) + Len(b)
    BY <2>1, Joined
  <2>3. Len(a \o b) # 0
    BY <1>1, <2>1, <2>2, RowFacts
  <2> QED  BY <2>2, <2>3, RowFacts DEF a, b
<1> QED  BY <1>1, <1>2, <1>3, <1>4

\* An extension and a header behind it are a row of their own.
LEMMA ExtendedRow ==
    ASSUME NEW type, NEW h, NEW data, NEW rest, Row(rest)
    PROVE  Row(Extension(type, h, data) \o rest) /\ Extension(type, h, data) \o rest # << >>
<1> DEFINE e == Extension(type, h, data)
<1>1. Row(e) /\ Len(e) = BLOCK + 1 + PadFor(1)
  BY ExtensionRow
<1>2. Len(e) \in Nat \ {0} /\ Len(rest) \in Nat
  BY <1>1, PaddingFits, RowFacts
<1> HIDE DEF e
<1>3. Row(e \o rest) /\ Len(e \o rest) = Len(e) + Len(rest)
  BY <1>1, Joined
<1>4. Len(e \o rest) # 0
  BY <1>2, <1>3
<1> QED  BY <1>3, <1>4, RowFacts DEF e

\* What comes of pack's entry is its PAX header or its plain block.
LEMMA PackedForms ==
    ASSUME NEW s, ComesPacked(s), Good(Newest)
    PROVE  \E h : AtPaxHeader(s, h) \/ AtPlainBlock(s, h)
<1>1. PICK labels \in SUBSET Newest.labels :
         LET h == WithLabels(Newest, labels)
         IN  /\ Newest.labels = labels \cup everywhere
             /\ \/ CarriesNothing /\ s = Extension("x", h, Records(h)) \o PlainBlock(h)
                \/ CarriesOnly({}, {}, Records(h)) /\ s = PlainBlock(h)
  BY DEF ComesPacked
<1> DEFINE h == WithLabels(Newest, labels)
<1>2. Good(h) /\ h.labels = labels /\ WithLabels(h, Newest.labels) = Newest
  BY Relabelled
<1>3. h.labels \cup everywhere = Newest.labels
  BY <1>1, <1>2
<1>4. Labelled(h)
  BY <1>2, <1>3 DEF Labelled
<1> HIDE DEF h
<1>5. \/ CarriesNothing /\ s = Extension("x", h, Records(h)) \o PlainBlock(h)
      \/ CarriesOnly({}, {}, Records(h)) /\ s = PlainBlock(h)
  BY <1>1 DEF h
<1> QED  BY <1>4, <1>5 DEF AtPaxHeader, AtPlainBlock

\* What comes of a tool's entry is its long name, its long link or its block.
LEMMA GnuForms ==
    ASSUME NEW s, ComesGnu(s)
    PROVE  AtLongName(s) \/ AtLongLink(s) \/ AtGnuBlock(s)
<1> DEFINE h == Newest
           a == NameAhead(h)  b == LinkAhead(h)  c == GnuBlock(h)
<1>1. Row(a) /\ Row(b) /\ Row(c) /\ Row(b \o c)
  BY HeaderRows
<1>2. h.link \notin Long => b \o c = c /\ LinkKept(h) = {}
  <2>1. h.link \notin Long => b = << >> /\ LinkKept(h) = {}
    BY DEF LinkAhead, LinkKept
  <2>2. << >> \o c = c
    <3> HIDE DEF c
    <3> QED  BY <1>1, EmptyRow, Joined
  <2> QED  BY <2>1, <2>2
<1>3. h.path \notin Long => a \o b \o c = b \o c /\ NameKept(h) = {}
  <2>1. h.path \notin Long => a = << >> /\ NameKept(h) = {}
    BY DEF NameAhead, NameKept
  <2>2. << >> \o b = b
    <3> HIDE DEF b
    <3> QED  BY <1>1, EmptyRow, Joined
  <2> QED  BY <2>1, <2>2
<1>4. h.path \in Long => a \o b \o c = Extension("L", h, <<".">> \o h.path) \o (b \o c)
  <2>1. a \o b \o c = a \o (b \o c)
    <3> HIDE DEF a, b, c
    <3> QED  BY <1>1, JoinedThrice
  <2>2. h.path \in Long => a = Extension("L", h, <<".">> \o h.path)
    BY DEF NameAhead
  <2> QED  BY <2>1, <2>2
<1>5. h.link \in Long => b \o c = Extension("K", h, h.link) \o c
  BY DEF LinkAhead
<1>6. CASE CarriesOnly(NameKept(h), LinkKept(h), NoRecords) /\ s = c
  BY <1>6 DEF AtGnuBlock
<1>7. CASE CarriesOnly(NameKept(h), {}, NoRecords) /\ s = b \o c
  <2>1. CASE h.link \in Long
    BY <1>5, <1>7, <2>1 DEF AtLongLink
  <2>2. CASE h.link \notin Long
    BY <1>2, <1>7, <2>2 DEF AtGnuBlock
  <2> QED  BY <2>1, <2>2
<1>8. CASE CarriesNothing /\ s = a \o b \o c
  <2>1. CASE h.path \in Long
    BY <1>4, <1>8, <2>1 DEF AtLongName
  <2>2. CASE h.path \notin Long
    <3>1. CarriesOnly(NameKept(h), {}, NoRecords) /\ s = b \o c
      BY <1>3, <1>8, <2>2 DEF CarriesNothing
    <3> QED  BY <1>7, <3>1
  <2> QED  BY <2>1, <2>2
<1> QED  BY <1>6, <1>7, <1>8 DEF ComesGnu

\* None of them is empty.
LEMMA ComingRow ==
    ASSUME NEW s, Good(Newest), ComesPacked(s) \/ ComesGnu(s)
    PROVE  Row(s) /\ s # << >>
<1>1. ASSUME NEW h, AtPaxHeader(s, h) \/ AtPlainBlock(s, h)  PROVE Row(s) /\ s # << >>
  BY <1>1, HeaderRows, ExtendedRow DEF AtPaxHeader, AtPlainBlock
<1>2. ASSUME AtLongName(s) \/ AtLongLink(s) \/ AtGnuBlock(s)  PROVE Row(s) /\ s # << >>
  BY <1>2, HeaderRows, ExtendedRow DEF AtLongName, AtLongLink, AtGnuBlock
<1> QED  BY <1>1, <1>2, PackedForms, GnuForms

(***************************************************************************)
(* The writers.                                                            *)
(***************************************************************************)
\* A writer starts something when all it has put in is delivered.
Ready ==
    /\ ~closed /\ cut = FALSE /\ answer = "asked" /\ left = 0
    /\ pad \in Nat /\ (carried.scanning => pad = 0)
    /\ got = sent /\ owedPad \in Nat /\ Padding = Behind
    /\ GlobalsRead /\ CarriesNothing /\ (feed = "pack" => carried.zeroes = 0)

\* What is behind a record is zeros, or nothing while the reader scans.
LEMMA BehindRow ==
    ASSUME Between  PROVE Row(Behind) /\ (carried.scanning => Behind = << >>)
BY EmptyRow, ZerosRow DEF Between, Behind

\* With nothing on the wire and more to be written, nothing is on its way.
LEMMA NothingComes ==
    ASSUME Common, Between, wire = << >>, ~closed
    PROVE  Quiet(<< >>) /\ GlobalsRead /\ carried.scanning /\ Behind = << >>
<1>1. PICK s : Row(s) /\ wire = Behind \o s /\ (Over(s) \/ Quiet(s) \/ Coming(s))
  BY DEF Between
<1> DEFINE b == Behind
<1>2. Row(b) /\ Row(s) /\ b \o s = << >>
  BY <1>1, BehindRow
<1>3. b = << >> /\ s = << >>
  <2> HIDE DEF b
  <2>1. Len(b \o s) = Len(b) + Len(s) /\ Len(b) \in Nat /\ Len(s) \in Nat
    BY <1>2, Joined, RowFacts
  <2>2. Len(b \o s) = 0
    BY <1>2, EmptyRow
  <2>3. Len(b) = 0 /\ Len(s) = 0
    BY <2>1, <2>2
  <2> QED  BY <1>2, <2>3, RowFacts
<1>4. ~Over(s)
  BY DEF Over
<1>5. ~Coming(s)
  BY <1>3, ComingRow DEF Coming, Common
<1>6. Quiet(s)
  BY <1>1, <1>4, <1>5
<1>7. s # Zeros(BLOCK)
  BY <1>3, PaddingFits, ZerosRow, EmptyRow
<1>8. \A size \in UnknownSizes : s # Unknown(size)
  <2> TAKE size \in UnknownSizes
  <2>1. size \in Nat /\ Len(Unknown(size)) = BLOCK + size + PadFor(size)
    BY ToolAssumption, UnknownRow
  <2>2. BLOCK \in Nat \ {0} /\ PadFor(size) \in Nat
    BY <2>1, PaddingFits
  <2>3. Len(Unknown(size)) # 0
    BY <2>1, <2>2
  <2> QED  BY <1>3, <2>3, EmptyRow
<1>9. ~DeclaredAhead(s)
  <2> DEFINE e == Extension("g", Header(Stump, "file", 0, 0, 1, << >>, {}), Declared(everywhere))
  <2>1. Len(e) = BLOCK + 1 + PadFor(1)
    BY ExtensionRow
  <2>2. BLOCK \in Nat \ {0} /\ PadFor(1) \in Nat
    BY PaddingFits
  <2> HIDE DEF e
  <2>3. Len(e) # 0
    BY <2>1, <2>2
  <2>4. s # e
    BY <1>3, <2>3, EmptyRow
  <2> QED  BY <2>4 DEF DeclaredAhead, e
<1>10. GlobalsRead /\ carried.scanning
  BY <1>6, <1>7, <1>8, <1>9 DEF Quiet
<1> QED  BY <1>3, <1>6, <1>10

\* A writer that can write and owes nothing finds the reader Ready.
LEMMA MayStart ==
    ASSUME Inv, CanWrite, owed = 0  PROVE Ready
<1>1. Common /\ Stream /\ ~closed /\ wire = << >> /\ Looking
  BY DEF Inv, CanWrite
<1>2. cut = FALSE /\ (InHand \/ Between \/ ReadWhole)
  BY <1>1 DEF Stream, BrokenOff, Common
<1>3. CASE InHand
  <2>1. left = 0 /\ answer = "asked" /\ got = sent /\ GlobalsRead /\ ~carried.scanning
        /\ pad = owedPad /\ owedPad \in Nat
    BY <1>1, <1>3, EmptyRow DEF InHand, Looking
  <2>2. CarriesNothing /\ carried.zeroes = 0
    BY <1>1, <2>1 DEF Common, Tray
  <2>3. Padding = Behind
    BY <2>1 DEF Padding, Behind
  <2> QED  BY <1>1, <1>2, <2>1, <2>2, <2>3 DEF Ready
<1>4. CASE Between
  <2>1. Quiet(<< >>) /\ GlobalsRead /\ carried.scanning /\ Behind = << >>
    BY <1>1, <1>4, NothingComes
  <2>2. owedPad = 0 /\ got = sent /\ CarriesNothing /\ (feed = "pack" => carried.zeroes = 0)
    BY <2>1 DEF Quiet
  <2>3. Padding = << >>
    BY <2>2, ZerosRow DEF Padding
  <2>4. answer = "asked" /\ left = 0 /\ pad = 0
    BY <1>4, <2>1 DEF Between
  <2> QED  BY <1>1, <1>2, <2>1, <2>2, <2>3, <2>4 DEF Ready
<1>5. CASE ReadWhole
  BY <1>1, <1>5 DEF ReadWhole, Looking
<1> QED  BY <1>2, <1>3, <1>4, <1>5

\* It adds contents when the reader is in those of the entry put in last.
LEMMA MayFill ==
    ASSUME Inv, CanWrite, owed # 0  PROVE InHand /\ cut = FALSE
<1>1. Common /\ Stream /\ ~closed /\ wire = << >> /\ Looking
  BY DEF Inv, CanWrite
<1>2. cut = FALSE /\ (InHand \/ Between \/ ReadWhole)
  BY <1>1 DEF Stream, BrokenOff, Common
<1>3. ~Between
  BY <1>1, NothingComes DEF Quiet
<1>4. ~ReadWhole
  BY <1>1 DEF ReadWhole, Looking
<1> QED  BY <1>2, <1>3, <1>4

\* What a writer starts lies behind the padding the reader passes over first.
LEMMA PutIn ==
    ASSUME Ready, NEW x, Row(x), wire' = Padding \o x, UNCHANGED <<cut, readerVars>>,
           Over(x)' \/ Quiet(x)' \/ Coming(x)'
    PROVE  Stream' /\ Row(wire') /\ Row(Padding)
<1>1. answer' = "asked" /\ left' = 0 /\ pad' = pad /\ carried' = carried /\ cut' = FALSE
  BY DEF Ready, readerVars
<1>2. Row(Padding)
  BY ZerosRow DEF Ready, Padding
<1>3. Behind' = Behind
  BY <1>1 DEF Behind
<1>4. wire' = Behind' \o x
  BY <1>3 DEF Ready
<1>5. Between'
  BY <1>1, <1>4 DEF Between, Ready
<1>6. Row(wire')
  <2> DEFINE p == Padding
  <2>1. Row(p) /\ wire' = p \o x
    BY <1>2
  <2> HIDE DEF p
  <2> QED  BY <2>1, Joined
<1> QED  BY <1>1, <1>2, <1>5, <1>6 DEF Stream

\* What a writer leaves alone.
LEMMA CommonKept ==
    ASSUME Common, UNCHANGED <<feed, cut, readerVars>>, Row(wire'), Row(sent'),
           sent' # << >> => Good(Newest')
    PROVE  Common'
<1>1. feed' = feed /\ cut' = cut /\ answer' = answer /\ carried' = carried
  BY DEF readerVars
<1>2. Tray'
  BY <1>1 DEF Common, Tray, CarriesNothing, CarriesOnly
<1> QED  BY <1>1, <1>2 DEF Common

\* The entry that is put in is the newest.
LEMMA PutLast ==
    ASSUME Common, NEW n, Good(n), sent' = Append(sent, n)
    PROVE  Row(sent') /\ sent' # << >> /\ Newest' = n /\ Front(sent') = sent /\ Good(Newest')
<1>1. Row(sent)
  BY DEF Common
<1>2. Row(sent') /\ sent' # << >> /\ Last(sent') = n /\ Front(sent') = sent
  BY <1>1, Appended
<1> QED  BY <1>2 DEF Newest

\* Writer::start, with a PAX header or without one.
LEMMA StartKeeps ==
    ASSUME Inv, NEW h, Good(h), Start(h), feed' = feed
    PROVE  Common' /\ Stream'
<1> DEFINE n == WithLabels(h, h.labels \cup everywhere)
           x == IF Records(h) = NoRecords THEN PlainBlock(h)
                ELSE Extension("x", h, Records(h)) \o PlainBlock(h)
<1>1. /\ CanWrite /\ owed = 0
      /\ wire' = Padding \o PaxHeader(h) \o PlainBlock(h)
      /\ owed' = SizeField(h) /\ owedPad' = PadFor(SizeField(h))
      /\ sent' = Append(sent, [h EXCEPT !.labels = @ \cup everywhere])
      /\ UNCHANGED <<closed, cut, everywhere, readerVars>>
  BY DEF Start, PlainBlock
<1>2. Ready /\ Common
  BY <1>1, MayStart DEF Inv
<1>3. /\ [h EXCEPT !.labels = @ \cup everywhere] = n
      /\ Good(n) /\ n.labels = h.labels \cup everywhere /\ SizeField(n) = SizeField(h)
      /\ WithLabels(n, h.labels) = h
  <2> DEFINE u == h.labels \cup everywhere
  <2>1. [h EXCEPT !.labels = @ \cup everywhere] = [h EXCEPT !.labels = u]
    OBVIOUS
  <2>2. n = WithLabels(h, u)
    OBVIOUS
  <2> HIDE DEF u, n
  <2>3. /\ [h EXCEPT !.labels = u] = n /\ Good(n) /\ n.labels = u
        /\ SizeField(n) = SizeField(h) /\ WithLabels(n, h.labels) = h
    BY <2>2, Relabelled
  <2> QED  BY <2>1, <2>3 DEF u
<1>4. sent' = Append(sent, n)
  BY <1>1, <1>3
<1> HIDE DEF n
<1>5. Row(sent') /\ sent' # << >> /\ Newest' = n /\ Front(sent') = sent /\ Good(Newest')
  BY <1>2, <1>3, <1>4, PutLast
<1>6. Row(x)
  BY HeaderRows, ExtendedRow
<1>7. wire' = Padding \o x
  <2> DEFINE p == Padding  e == Extension("x", h, Records(h))  c == PlainBlock(h)
  <2>1. Row(p) /\ Row(e) /\ Row(c)
    BY <1>2, ZerosRow, ExtensionRow, HeaderRows DEF Ready, Padding
  <2>2. CASE Records(h) = NoRecords
    <3>1. PaxHeader(h) = << >> /\ x = c
      BY <2>2 DEF PaxHeader
    <3>2. p \o << >> = p
      <4> HIDE DEF p
      <4> QED  BY <2>1, EmptyRow, Joined
    <3> QED  BY <1>1, <3>1, <3>2
  <2>3. CASE Records(h) # NoRecords
    <3>1. PaxHeader(h) = e /\ x = e \o c
      BY <2>3 DEF PaxHeader
    <3>2. p \o e \o c = p \o (e \o c)
      <4> HIDE DEF p, e, c
      <4> QED  BY <2>1, JoinedThrice
    <3> QED  BY <1>1, <3>1, <3>2
  <2> QED  BY <2>2, <2>3
<1>8. carried' = carried /\ global' = global /\ got' = got
  BY <1>1 DEF readerVars
<1>9. CarriesNothing'
  BY <1>2, <1>8 DEF Ready, CarriesNothing, CarriesOnly
<1>10. ComesPacked(x)'
  <2>1. h.labels \in SUBSET n.labels /\ n.labels = h.labels \cup everywhere'
    BY <1>1, <1>3
  <2>2. \/ CarriesNothing' /\ x = Extension("x", h, Records(h)) \o PlainBlock(h)
        \/ /\ carried'.name = {} /\ carried'.link = {} /\ carried'.pax = Records(h)
           /\ x = PlainBlock(h)
    BY <1>9 DEF CarriesNothing, CarriesOnly
  <2> HIDE DEF x
  <2>3. WithLabels(Newest', h.labels) = h /\ h.labels \in SUBSET Newest'.labels
        /\ Newest'.labels = h.labels \cup everywhere'
    BY <1>3, <1>5, <2>1
  <2>4. \E labels \in SUBSET Newest'.labels :
           /\ Newest'.labels = labels \cup everywhere'
           /\ \/ /\ CarriesNothing'
                 /\ x = Extension("x", WithLabels(Newest', labels),
                                  Records(WithLabels(Newest', labels)))
                        \o PlainBlock(WithLabels(Newest', labels))
              \/ /\ carried'.name = {} /\ carried'.link = {}
                 /\ carried'.pax = Records(WithLabels(Newest', labels))
                 /\ x = PlainBlock(WithLabels(Newest', labels))
    BY <2>2, <2>3, Zenon
  <2> QED  BY <2>4, Zenon DEF ComesPacked, CarriesOnly
<1> HIDE DEF x
<1>11. Coming(x)'
  <2>1. GlobalsRead'
    BY <1>1, <1>2, <1>8 DEF Ready, GlobalsRead
  <2>2. owed' = SizeField(Newest') /\ owedPad' = PadFor(owed')
    BY <1>1, <1>3, <1>5
  <2>3. ~closed' /\ got' = Front(sent') /\ (feed' = "pack" => carried'.zeroes = 0)
    BY <1>1, <1>2, <1>5, <1>8 DEF Ready
  <2> QED  BY <1>5, <1>10, <2>1, <2>2, <2>3 DEF Coming
<1>12. Stream' /\ Row(wire')
  BY <1>1, <1>2, <1>6, <1>7, <1>11, PutIn
<1> QED  BY <1>1, <1>2, <1>5, <1>12, CommonKept

\* Other labels change nothing of the headers another tool writes.
LEMMA GnuSame ==
    ASSUME NEW h, Good(h), NEW x
    PROVE  LET n == WithLabels(h, x)
           IN  /\ NameAhead(n) = NameAhead(h) /\ LinkAhead(n) = LinkAhead(h)
               /\ GnuBlock(n) = GnuBlock(h)
<1> DEFINE n == WithLabels(h, x)
<1>1. /\ n.path = h.path /\ n.kind = h.kind /\ n.attr = h.attr /\ n.time = h.time
      /\ n.size = h.size /\ n.link = h.link
  BY DEF WithLabels, Header
<1>2. Good(n)
  BY Relabelled
<1> HIDE DEF n
<1>3. \A type, data : Extension(type, n, data) = Extension(type, h, data)
  BY <1>1 DEF Extension
<1>4. NameAhead(n) = NameAhead(h) /\ LinkAhead(n) = LinkAhead(h)
  BY <1>1, <1>3 DEF NameAhead, LinkAhead
<1>5. /\ Cut(n).path = Cut(h).path /\ Cut(n).link = Cut(h).link
      /\ Cut(n).attr = Cut(h).attr /\ Cut(n).time = Cut(h).time
  BY <1>1, <1>2, CutIs
<1>6. SizeField(n) = SizeField(h)
  BY <1>1 DEF SizeField
<1>7. GnuBlock(n) = GnuBlock(h)
  BY <1>1, <1>5, <1>6, Zenon DEF GnuBlock, Encode
<1> QED  BY <1>4, <1>7 DEF n

\* Another tool's entry, with GNU long names in front.
LEMMA StartGnuKeeps ==
    ASSUME Inv, NEW h, Good(h), StartGnu(h), feed' = feed
    PROVE  Common' /\ Stream'
<1> DEFINE n == WithLabels(h, everywhere)
           x == NameAhead(h) \o LinkAhead(h) \o GnuBlock(h)
<1>1. /\ CanWrite /\ owed = 0
      /\ wire' = Padding \o x
      /\ owed' = SizeField(h) /\ owedPad' = PadFor(SizeField(h))
      /\ sent' = Append(sent, [h EXCEPT !.labels = everywhere])
      /\ UNCHANGED <<closed, cut, everywhere, readerVars>>
  BY DEF StartGnu, GnuHeader, NameAhead, LinkAhead, GnuBlock, Cut
<1>2. Ready /\ Common
  BY <1>1, MayStart DEF Inv
<1>3. /\ [h EXCEPT !.labels = everywhere] = n
      /\ Good(n) /\ n.labels = everywhere /\ SizeField(n) = SizeField(h)
  BY Relabelled
<1>4. sent' = Append(sent, n)
  BY <1>1, <1>3
<1>5. x = NameAhead(n) \o LinkAhead(n) \o GnuBlock(n)
  BY GnuSame
<1> HIDE DEF n
<1>6. Row(sent') /\ sent' # << >> /\ Newest' = n /\ Front(sent') = sent /\ Good(Newest')
  BY <1>2, <1>3, <1>4, PutLast
<1>7. Row(x)
  <2> DEFINE a == NameAhead(h)  b == LinkAhead(h)  c == GnuBlock(h)
  <2>1. Row(a) /\ Row(b) /\ Row(c)
    BY HeaderRows
  <2> HIDE DEF a, b, c
  <2>2. Row(a \o b)
    BY <2>1, Joined
  <2>3. Row(a \o b \o c)
    BY <2>1, <2>2, Joined
  <2> QED  BY <2>3 DEF a, b, c
<1>8. carried' = carried /\ global' = global /\ got' = got /\ everywhere' = everywhere
  BY <1>1 DEF readerVars
<1>9. CarriesNothing'
  BY <1>2, <1>8 DEF Ready, CarriesNothing, CarriesOnly
<1> HIDE DEF x
<1>10. ComesGnu(x)'
  BY <1>3, <1>5, <1>6, <1>8, <1>9 DEF ComesGnu
<1>11. Coming(x)'
  <2>1. GlobalsRead'
    BY <1>1, <1>2, <1>8 DEF Ready, GlobalsRead
  <2>2. owed' = SizeField(Newest') /\ owedPad' = PadFor(owed')
    BY <1>1, <1>3, <1>6
  <2>3. ~closed' /\ got' = Front(sent') /\ (feed' = "pack" => carried'.zeroes = 0)
    BY <1>1, <1>2, <1>6, <1>8 DEF Ready
  <2> QED  BY <1>6, <1>10, <2>1, <2>2, <2>3 DEF Coming
<1>12. Stream' /\ Row(wire')
  BY <1>1, <1>2, <1>7, <1>11, PutIn
<1> QED  BY <1>1, <1>2, <1>6, <1>12, CommonKept

\* What is put in and is no entry leaves the newest entry the newest.
LEMMA NewestStays ==
    ASSUME Common, sent' = sent
    PROVE  Row(sent') /\ (sent' # << >> => Good(Newest'))
BY DEF Common, Newest

\* A global PAX header.
LEMMA DeclareKeeps ==
    ASSUME Inv, NEW labels, Declare(labels), feed' = feed
    PROVE  Common' /\ Stream'
<1> DEFINE x == Extension("g", Header(Stump, "file", 0, 0, 1, << >>, {}), Declared(labels))
<1>1. /\ CanWrite /\ owed = 0 /\ wire' = Padding \o x
      /\ everywhere' = labels /\ owedPad' = 0
      /\ UNCHANGED <<closed, cut, sent, owed, readerVars>>
  BY DEF Declare, Declared
<1>2. Ready /\ Common
  BY <1>1, MayStart DEF Inv
<1>3. Row(x)
  BY ExtensionRow
<1>4. DeclaredAhead(x)'
  BY <1>1 DEF DeclaredAhead
<1> HIDE DEF x
<1>5. carried' = carried /\ got' = got
  BY <1>1 DEF readerVars
<1>6. CarriesNothing'
  BY <1>2, <1>5 DEF Ready, CarriesNothing, CarriesOnly
<1>7. Quiet(x)'
  BY <1>1, <1>2, <1>4, <1>5, <1>6 DEF Quiet, Ready
<1>8. Stream' /\ Row(wire')
  BY <1>1, <1>2, <1>3, <1>7, PutIn
<1> QED  BY <1>1, <1>2, <1>8, NewestStays, CommonKept

\* An entry of a type the reader skips.
LEMMA UnknownKeeps ==
    ASSUME Inv, NEW size \in UnknownSizes, StartUnknown(size), feed' = feed
    PROVE  Common' /\ Stream'
<1> DEFINE x == Unknown(size)
           p == Padding
           h == UnknownHeader(size)
           b == Encode(h, "sparse", size)
           c == Contents(h)
           z == Zeros(PadFor(size))
<1>1. /\ CanWrite /\ owed = 0 /\ wire' = p \o b \o c \o z
      /\ owedPad' = 0
      /\ UNCHANGED <<closed, cut, sent, owed, everywhere, readerVars>>
  BY DEF StartUnknown, UnknownHeader
<1>2. Ready /\ Common
  BY <1>1, MayStart DEF Inv
<1>3. size \in Nat /\ Row(x)
  BY ToolAssumption, UnknownRow
<1>4. wire' = p \o x
  <2>1. Row(p) /\ Row(b) /\ Row(z)
    BY <1>2, <1>3, PaddingFits, ZerosRow, EncodeRow DEF Ready, Padding
  <2>2. Row(c)
    <3>1. h.size = size
      BY DEF UnknownHeader, Header
    <3> QED  BY <1>3, <3>1, ContentsRow
  <2>3. x = b \o c \o z
    BY DEF Unknown
  <2> HIDE DEF p, b, c, z, x, h
  <2>4. p \o b \o c = p \o (b \o c) /\ Row(b \o c)
    <3>1. p \o b \o c = p \o (b \o c)
      BY <2>1, <2>2, JoinedThrice
    <3>2. Row(b \o c)
      BY <2>1, <2>2, Joined
    <3> QED  BY <3>1, <3>2
  <2>5. p \o (b \o c) \o z = p \o (b \o c \o z)
    BY <2>1, <2>4, JoinedThrice
  <2> QED  BY <1>1, <2>3, <2>4, <2>5
<1>5. carried' = carried /\ got' = got /\ global' = global
  BY <1>1 DEF readerVars
<1>6. CarriesNothing' /\ GlobalsRead'
  BY <1>1, <1>2, <1>5 DEF Ready, CarriesNothing, CarriesOnly, GlobalsRead
<1>7. Quiet(x)'
  BY <1>1, <1>2, <1>5, <1>6 DEF Quiet, Ready
<1> HIDE DEF x
<1>8. Stream' /\ Row(wire')
  BY <1>1, <1>2, <1>3, <1>4, <1>7, PutIn
<1> QED  BY <1>1, <1>2, <1>8, NewestStays, CommonKept

\* A zero block that is not followed by another.
LEMMA LoneZeroesKeeps ==
    ASSUME Inv, LoneZeroes, feed = "tool", feed' = feed
    PROVE  Common' /\ Stream'
<1> DEFINE x == Zeros(BLOCK)
<1>1. /\ CanWrite /\ owed = 0 /\ wire' = Padding \o x /\ owedPad' = 0
      /\ UNCHANGED <<closed, cut, sent, owed, everywhere, readerVars>>
  BY DEF LoneZeroes
<1>2. Ready /\ Common
  BY <1>1, MayStart DEF Inv
<1>3. Row(x)
  BY PaddingFits, ZerosRow
<1>4. carried' = carried /\ got' = got /\ global' = global
  BY <1>1 DEF readerVars
<1>5. CarriesNothing' /\ GlobalsRead'
  BY <1>1, <1>2, <1>4 DEF Ready, CarriesNothing, CarriesOnly, GlobalsRead
<1>6. Quiet(x)'
  BY <1>1, <1>2, <1>4, <1>5 DEF Quiet, Ready
<1> HIDE DEF x
<1>7. Stream' /\ Row(wire')
  BY <1>1, <1>2, <1>3, <1>6, PutIn
<1> QED  BY <1>1, <1>2, <1>7, NewestStays, CommonKept

\* Writer::finish: the end marker, and the pipe is closed.
LEMMA FinishKeeps ==
    ASSUME Inv, Finish, feed' = feed
    PROVE  Common' /\ Stream'
<1> DEFINE x == Zeros(2 * BLOCK)
<1>1. /\ CanWrite /\ owed = 0 /\ wire' = Padding \o x
      /\ owedPad' = 0 /\ closed' = TRUE
      /\ UNCHANGED <<cut, sent, owed, everywhere, readerVars>>
  BY DEF Finish
<1>2. Ready /\ Common
  BY <1>1, MayStart DEF Inv
<1>3. Row(x)
  BY PaddingFits, ZerosRow
<1>4. carried' = carried /\ got' = got
  BY <1>1 DEF readerVars
<1>5. CarriesNothing'
  BY <1>2, <1>4 DEF Ready, CarriesNothing, CarriesOnly
<1>6. Over(x)'
  BY <1>1, <1>2, <1>4, <1>5 DEF Over, Ready
<1> HIDE DEF x
<1>7. Stream' /\ Row(wire')
  BY <1>1, <1>2, <1>3, <1>6, PutIn
<1> QED  BY <1>1, <1>2, <1>7, NewestStays, CommonKept

\* A tool that closes the pipe without an end marker.
LEMMA LeaveKeeps ==
    ASSUME Inv, Leave, feed' = feed
    PROVE  Common' /\ Stream'
<1> DEFINE p == Padding
<1>1. /\ CanWrite /\ owed = 0 /\ wire' = p
      /\ owedPad' = 0 /\ closed' = TRUE
      /\ UNCHANGED <<cut, sent, owed, everywhere, readerVars>>
  BY DEF Leave
<1>2. Ready /\ Common
  BY <1>1, MayStart DEF Inv
<1>3. wire' = p \o << >>
  <2>1. Row(p)
    BY <1>2, ZerosRow DEF Ready, Padding
  <2> HIDE DEF p
  <2> QED  BY <1>1, <2>1, EmptyRow, Joined
<1>4. carried' = carried /\ got' = got
  BY <1>1 DEF readerVars
<1>5. CarriesNothing'
  BY <1>2, <1>4 DEF Ready, CarriesNothing, CarriesOnly
<1>6. Over(<< >>)'
  BY <1>1, <1>2, <1>4, <1>5 DEF Over, Ready
<1>7. Stream' /\ Row(wire')
  BY <1>1, <1>2, <1>3, <1>6, EmptyRow, PutIn
<1> QED  BY <1>1, <1>2, <1>7, NewestStays, CommonKept

\* A piece of contents is as long as it says, and the entry in hand is owed that much less.
LEMMA WriteKeeps ==
    ASSUME Inv, NEW n, Write(n), feed' = feed
    PROVE  Common' /\ Stream'
<1> DEFINE h == Newest
<1>1. /\ CanWrite /\ n \in 1 .. owed
      /\ wire' = SubSeq(Contents(h), h.size - owed + 1, h.size - owed + n)
      /\ owed' = owed - n
      /\ UNCHANGED <<closed, cut, sent, owedPad, everywhere, readerVars>>
  BY DEF Write, Newest
<1>2. owed # 0
  <2> SUFFICES ASSUME owed = 0  PROVE FALSE
    OBVIOUS
  <2> QED  BY <1>1
<1>3. InHand /\ cut = FALSE /\ Common
  BY <1>1, <1>2, MayFill DEF Inv
<1>4. wire = << >> /\ Len(wire) = 0
  BY <1>1, EmptyRow DEF CanWrite
<1>5. owed \in Nat /\ sent # << >> /\ owed <= h.size /\ h.size \in Nat /\ left = owed
  BY <1>2, <1>3, <1>4 DEF InHand, Common, Good
<1>6. n \in Nat /\ n <= owed /\ n >= 1
  BY <1>1, <1>5
<1>7. Row(wire') /\ Len(wire') = n
  <2> DEFINE c == Contents(h)  s == h.size
  <2>1. Row(c) /\ Len(c) = s
    BY <1>5, ContentsRow
  <2>2. s - owed + 1 \in Nat \ {0} /\ s - owed + n \in 0 .. s
    BY <1>5, <1>6
  <2> HIDE DEF c, s
  <2> DEFINE k == s - owed
  <2>3. k + 1 \in Nat \ {0} /\ k + n \in 0 .. Len(c) /\ k \in Int
    BY <1>5, <2>1, <2>2
  <2>4. wire' = SubSeq(c, k + 1, k + n)
    BY <1>1 DEF c, s
  <2> HIDE DEF k
  <2>5. /\ Row(SubSeq(c, k + 1, k + n))
        /\ Len(SubSeq(c, k + 1, k + n)) = IF k + 1 <= k + n THEN (k + n) - (k + 1) + 1 ELSE 0
    BY <2>1, <2>3, PartOf
  <2>6. k + 1 <= k + n /\ (k + n) - (k + 1) + 1 = n
    BY <1>6, <2>3
  <2> QED  BY <2>4, <2>5, <2>6
<1>8. /\ answer' = answer /\ got' = got /\ left' = left /\ pad' = pad /\ global' = global
      /\ carried' = carried /\ Newest' = h
  BY <1>1 DEF readerVars, Newest
<1>9. GlobalsRead'
  BY <1>1, <1>3, <1>8 DEF InHand, GlobalsRead
<1> HIDE DEF h
<1>10. owed' \in Nat /\ owed' <= h.size /\ left' = owed' + Len(wire')
  <2> DEFINE s == h.size  o == owed
  <2>1. o \in Nat /\ s \in Nat /\ o <= s /\ n \in Nat /\ n <= o
    BY <1>5, <1>6
  <2>2. owed' = o - n /\ left' = o /\ Len(wire') = n
    BY <1>1, <1>5, <1>7, <1>8
  <2> HIDE DEF s, o
  <2>3. o - n \in Nat /\ o - n <= s /\ o = (o - n) + n
    BY <2>1
  <2> QED  BY <2>2, <2>3 DEF s, o
<1>11. InHand'
  BY <1>1, <1>3, <1>5, <1>8, <1>9, <1>10 DEF InHand
<1>12. Common'
  BY <1>1, <1>3, <1>7, NewestStays, CommonKept
<1> QED  BY <1>1, <1>3, <1>11, <1>12 DEF Stream

(***************************************************************************)
(* What the reader looks at.                                               *)
(***************************************************************************)
\* While it goes from header to header there is nothing in front of the next one.
LEMMA Scans ==
    ASSUME Between, carried.scanning
    PROVE  (Over(wire) \/ Quiet(wire) \/ Coming(wire)) /\ left = 0 /\ pad = 0 /\ answer = "asked"
<1>1. PICK s : Row(s) /\ wire = Behind \o s /\ (Over(s) \/ Quiet(s) \/ Coming(s))
  BY DEF Between
<1>2. Behind = << >>
  BY BehindRow
<1>3. wire = s
  BY <1>1, <1>2, EmptyRow, Joined
<1> QED  BY <1>1, <1>3 DEF Between

\* How much it takes of it is a number.
LEMMA NeedsKnown ==
    ASSUME Common, InHand \/ Between, answer = "asked"
    PROVE  Needs \in Nat
<1>1. CASE ~carried.scanning
  <2>1. left \in Nat /\ pad \in Nat
    BY RowFacts DEF Common, InHand, Between
  <2> QED  BY <1>1, <2>1 DEF Needs
<1>2. CASE carried.scanning
  <2>1. Over(wire) \/ Quiet(wire) \/ Coming(wire)
    BY <1>2, Scans DEF InHand
  <2>2. Row(wire)
    BY DEF Common
  <2>3. CASE wire = << >>
    BY <1>2, <2>3, EmptyRow, PaddingFits DEF Needs
  <2>4. CASE wire = Zeros(2 * BLOCK)
    <3>1. 2 * BLOCK = BLOCK + BLOCK /\ BLOCK \in Nat
      BY PaddingFits
    <3> QED  BY <1>2, <2>4, <3>1, AtZeros
  <2>5. CASE wire = Zeros(BLOCK)
    <3>1. BLOCK = BLOCK + 0
      BY PaddingFits
    <3> QED  BY <1>2, <2>5, <3>1, AtZeros
  <2>6. CASE \E size \in UnknownSizes : wire = Unknown(size)
    BY <1>2, <2>6, ToolAssumption, AtUnknown
  <2>7. ASSUME NEW type, type \notin Kinds, NEW h, NEW data, NEW rest, Row(rest),
               wire = Extension(type, h, data) \o rest
        PROVE  Needs \in Nat
    BY <1>2, <2>7, AtExtension
  <2>8. CASE DeclaredAhead(wire)
    <3> DEFINE d == Declared(everywhere)  h == Header(Stump, "file", 0, 0, 1, << >>, {})
    <3>1. wire = Extension("g", h, d)
      BY <2>8 DEF DeclaredAhead
    <3>2. wire = wire \o << >>
      BY <2>2, EmptyRow, Joined
    <3>3. "g" \notin Kinds
      BY DEF Kinds
    <3> HIDE DEF d, h
    <3>4. wire = Extension("g", h, d) \o << >>
      BY <3>1, <3>2
    <3> QED  BY <2>7, <3>3, <3>4, EmptyRow
  <2>9. CASE ComesPacked(wire) /\ Good(Newest)
    <3>1. PICK h : AtPaxHeader(wire, h) \/ AtPlainBlock(wire, h)
      BY <2>9, PackedForms
    <3>2. CASE AtPaxHeader(wire, h)
      <4>1. wire = Extension("x", h, Records(h)) \o PlainBlock(h) /\ Row(PlainBlock(h))
        BY <3>2, HeaderRows DEF AtPaxHeader
      <4>2. "x" \notin Kinds
        BY DEF Kinds
      <4> QED  BY <2>7, <4>1, <4>2
    <3>3. CASE AtPlainBlock(wire, h)
      <4>1. wire = Encode(h, h.kind, SizeField(h)) /\ h.kind \in Kinds
        BY <3>3 DEF AtPlainBlock, PlainBlock, Labelled, Good
      <4> QED  BY <1>2, <4>1, AtEntry
    <3> QED  BY <3>1, <3>2, <3>3
  <2>10. CASE ComesGnu(wire) /\ Good(Newest)
    <3> DEFINE h == Newest  r == LinkAhead(h) \o GnuBlock(h)  g == GnuBlock(h)
    <3>1. Row(r) /\ Row(g) /\ h.kind \in Kinds
      BY <2>10, HeaderRows DEF Good
    <3>2. "L" \notin Kinds /\ "K" \notin Kinds
      BY DEF Kinds
    <3>3. \/ wire = Extension("L", h, <<".">> \o h.path) \o r
          \/ wire = Extension("K", h, h.link) \o g
          \/ wire = Encode(Cut(h), h.kind, SizeField(h))
      BY <2>10, GnuForms DEF AtLongName, AtLongLink, AtGnuBlock, GnuBlock
    <3> HIDE DEF h, r, g
    <3> QED  BY <1>2, <2>7, <3>1, <3>2, <3>3, AtEntry
  <2> QED  BY <2>1, <2>3, <2>4, <2>5, <2>6, <2>8, <2>9, <2>10 DEF Over, Quiet, Coming, Common
<1> QED  BY <1>1, <1>2 DEF Common, Tray

\* What a break leaves on the wire is less than the reader waits for.
LEMMA BreakKeeps ==
    ASSUME Inv, Break, feed' = feed
    PROVE  Common' /\ Stream'
<1>1. /\ ~closed /\ Looking /\ closed' = TRUE /\ cut' = TRUE
      /\ UNCHANGED <<sent, owed, owedPad, everywhere, readerVars>>
  BY DEF Break
<1>2. PICK n \in 0 .. Len(wire) : n < (IF Asked THEN Needs ELSE 1) /\ wire' = SubSeq(wire, 1, n)
  BY DEF Break
<1>3. Common /\ Row(wire) /\ Row(sent) /\ Len(wire) \in Nat
  BY RowFacts DEF Inv, Common
<1>4. Row(wire') /\ Len(wire') = n /\ \A i \in 1 .. n : wire'[i] = wire[i]
  <2>1. /\ Row(SubSeq(wire, 1, n)) /\ Len(SubSeq(wire, 1, n)) = IF 1 <= n THEN n - 1 + 1 ELSE 0
        /\ \A i \in 1 .. n - 1 + 1 : SubSeq(wire, 1, n)[i] = wire[1 + i - 1]
    BY <1>3, PartOf
  <2> QED  BY <1>2, <1>3, <2>1
<1>5. /\ answer' = answer /\ got' = got /\ left' = left /\ pad' = pad /\ carried' = carried
      /\ sent' = sent
  BY <1>1 DEF readerVars
<1>6. cut = FALSE /\ (InHand \/ Between)
  BY <1>1, <1>3 DEF Inv, Stream, BrokenOff, Common, ReadWhole, Looking
<1>7. IsPrefix(got, sent) /\ left \in Nat /\ pad \in Nat
  <2>1. IsPrefix(sent, sent) /\ (sent # << >> => IsPrefix(Front(sent), sent))
    BY <1>3, FrontIsPrefix
  <2>2. CASE InHand
    BY <1>3, <2>1, <2>2 DEF InHand
  <2>3. CASE Between
    <3>1. left \in Nat /\ pad \in Nat /\ \E s : Over(s) \/ Quiet(s) \/ Coming(s)
      BY <2>3 DEF Between
    <3> QED  BY <2>1, <3>1 DEF Over, Quiet, Coming
  <2> QED  BY <1>6, <2>2, <2>3
<1>8. ASSUME answer = "asked"  PROVE Needs' \in Nat /\ Len(wire') < Needs'
  <2>1. n < Needs /\ Needs \in Nat
    BY <1>2, <1>3, <1>6, <1>8, NeedsKnown DEF Asked
  <2>2. CASE ~carried.scanning
    BY <1>4, <1>5, <2>1, <2>2 DEF Needs
  <2>3. CASE carried.scanning /\ n < BLOCK
    BY <1>4, <1>5, <2>3, PaddingFits DEF Needs
  <2>4. CASE carried.scanning /\ ~(n < BLOCK)
    <3>1. BLOCK \in Nat \ {0} /\ n \in Nat /\ n <= Len(wire)
      BY <1>3, PaddingFits
    <3>2. Needs # BLOCK
      BY <2>1, <2>4, <3>1
    <3>3. ~IsZeroBlock /\ HasBody(Fields.type)
      BY <2>4, <3>2 DEF Needs
    <3>4. \A k \in 1 .. BLOCK : wire'[k] = wire[k]
      BY <1>4, <2>4, <3>1
    <3>5. ~IsZeroBlock' /\ Fields' = Fields
      BY <3>1, <3>3, <3>4 DEF IsZeroBlock, Fields, Ahead
    <3>6. ~(Len(wire) < BLOCK) /\ ~(Len(wire') < BLOCK)
      BY <1>3, <1>4, <2>4, <3>1
    <3>7. Needs' = Needs
      BY <1>5, <2>4, <3>3, <3>5, <3>6 DEF Needs, HasBody
    <3> QED  BY <1>4, <2>1, <3>7
  <2> QED  BY <2>2, <2>3, <2>4
<1>9. ASSUME answer = "entry"  PROVE wire' = << >> /\ left > 0
  <2>1. n = 0 /\ left > 0
    BY <1>1, <1>2, <1>9 DEF Asked, Looking
  <2> QED  BY <1>4, <2>1, RowFacts
<1>10. BrokenOff'
  BY <1>1, <1>5, <1>7, <1>8, <1>9 DEF BrokenOff
<1>11. Common'
  <2>1. Tray'
    BY <1>3, <1>5 DEF Common, Tray, CarriesNothing, CarriesOnly
  <2> QED  BY <1>1, <1>3, <1>4, <1>5, <2>1, NewestStays DEF Common
<1> QED  BY <1>1, <1>10, <1>11 DEF Stream

(***************************************************************************)
(* The reader.                                                             *)
(***************************************************************************)
\* What is on the wire says which step is next.
LEMMA Determined ==
    ASSUME Scanning, wire # << >>, Has, Needs \in Nat, Row(wire), ReaderStep
    PROVE  /\ IsZeroBlock => ZeroBlock
           /\ ~IsZeroBlock =>
                 /\ Fields.type = "L" => LongName
                 /\ Fields.type = "K" => LongLink
                 /\ Fields.type = "x" => PaxRecords
                 /\ Fields.type = "g" => GlobalRecords
                 /\ Fields.type = "sparse" => SkipUnknown
                 /\ Fields.type \in Kinds => Deliver
<1>1. ~BeginNext /\ ~Skip /\ ~StreamEnds /\ ~Truncated
  BY DEF BeginNext, Skip, StreamEnds, Truncated, Scanning
<1>2. ZeroBlock => IsZeroBlock
  BY DEF ZeroBlock
<1>3. /\ LongName => ~IsZeroBlock /\ Fields.type = "L"
      /\ LongLink => ~IsZeroBlock /\ Fields.type = "K"
      /\ PaxRecords => ~IsZeroBlock /\ Fields.type = "x"
      /\ GlobalRecords => ~IsZeroBlock /\ Fields.type = "g"
      /\ SkipUnknown => ~IsZeroBlock /\ Fields.type = "sparse"
      /\ Deliver => ~IsZeroBlock /\ Fields.type \in Kinds
  BY DEF LongName, LongLink, PaxRecords, GlobalRecords, SkipUnknown, Deliver, Passing
<1>4. \A t \in {"L", "K", "x", "g", "sparse"} : t \notin Kinds
  BY DEF Kinds
<1> QED  BY <1>1, <1>2, <1>3, <1>4 DEF ReaderStep

\* What next carries while it scans.
Carrying(name, link, pax, zeroes) ==
    Tray /\ carried.scanning /\ CarriesOnly(name, link, pax) /\ carried.zeroes = zeroes

\* A step of next that keeps one record, or counts a zero block, keeps the others.
LEMMA Carries ==
    ASSUME NEW n, NEW l, NEW p, NEW z \in Nat, NEW v, Carrying(n, l, p, z)
    PROVE  /\ Carry("name", v) => Carrying(v, l, p, 0)'
           /\ Carry("link", v) => Carrying(n, v, p, 0)'
           /\ Carry("pax", v) => Carrying(n, l, v, 0)'
           /\ carried' = [carried EXCEPT !.zeroes = @ + 1] => Carrying(n, l, p, z + 1)'
<1>1. ASSUME Carry("name", v)  PROVE Carrying(v, l, p, 0)'
  BY <1>1 DEF Carry, Carrying, CarriesOnly, Tray
<1>2. ASSUME Carry("link", v)  PROVE Carrying(n, v, p, 0)'
  BY <1>2 DEF Carry, Carrying, CarriesOnly, Tray
<1>3. ASSUME Carry("pax", v)  PROVE Carrying(n, l, v, 0)'
  BY <1>3 DEF Carry, Carrying, CarriesOnly, Tray
<1>4. ASSUME carried' = [carried EXCEPT !.zeroes = @ + 1]  PROVE Carrying(n, l, p, z + 1)'
  <2>1. carried.zeroes = z /\ z + 1 \in Nat
    BY DEF Carrying
  <2> DEFINE y == z + 1
  <2>2. carried' = [carried EXCEPT !.zeroes = y] /\ y \in Nat
    BY <1>4, <2>1
  <2> HIDE DEF y
  <2>3. Carrying(n, l, p, y)'
    BY <2>2 DEF Carrying, CarriesOnly, Tray
  <2> QED  BY <2>3 DEF y
<1> QED  BY <1>1, <1>2, <1>3, <1>4

\* It begins with nothing, and ends so.
LEMMA BeginsEmpty ==
    ASSUME carried' = [NothingCarried EXCEPT !.scanning = TRUE]
    PROVE  Carrying({}, {}, NoRecords, 0)'
BY DEF NothingCarried, Carrying, CarriesOnly, Tray

\* next returns with nothing kept.
LEMMA EndsEmpty ==
    ASSUME carried' = NothingCarried
    PROVE  Tray' /\ ~carried'.scanning
BY DEF NothingCarried, Tray, CarriesNothing, CarriesOnly

\* The reader takes nothing from the writer but what is on the wire.
LEMMA ReaderFrame ==
    ASSUME ReaderStep
    PROVE  /\ answer = "asked"
           /\ closed' = closed /\ cut' = cut /\ sent' = sent /\ owed' = owed
           /\ owedPad' = owedPad /\ everywhere' = everywhere
<1>1. answer = "asked" /\ UNCHANGED writerVars
  BY DEF ReaderStep, BeginNext, Skip, StreamEnds, ZeroBlock, LongName, LongLink, PaxRecords,
         GlobalRecords, SkipUnknown, Deliver, Truncated, Passing, Carry, Scanning, Asked
<1> QED  BY <1>1 DEF writerVars

\* Common is about the reader in what it returns and what next carries only.
LEMMA ReadCommon ==
    ASSUME Common, ReaderStep, feed' = feed, Row(wire'), Tray',
           answer' \in {"asked", "entry", "end", "error"}
    PROVE  Common'
<1>1. cut' = cut /\ sent' = sent
  BY ReaderFrame
<1> QED  BY <1>1, NewestStays DEF Common

\* The reader goes on to the next header.
LEMMA GoesOn ==
    ASSUME Common, Between, carried.scanning, ReaderStep, feed' = feed, NEW s, Row(s), wire' = s,
           Tray', carried'.scanning, answer' = answer, left' = left, pad' = pad,
           Over(s)' \/ Quiet(s)' \/ Coming(s)'
    PROVE  Common' /\ Between'
<1>1. left = 0 /\ pad = 0 /\ answer = "asked"
  BY Scans
<1>2. Behind' = << >>
  BY DEF Behind
<1>3. wire' = Behind' \o s
  BY <1>2, EmptyRow, Joined
<1>4. Between'
  BY <1>1, <1>3 DEF Between
<1>5. Common'
  BY <1>1, ReadCommon
<1> QED  BY <1>4, <1>5

\* It comes to the end.
LEMMA ComesToEnd ==
    ASSUME Common, Between, carried.scanning, ReaderStep, feed' = feed, got = sent,
           got' = got, left' = left, answer' = "end", Row(wire'), Tray',
           feed = "pack" => wire' = << >>
    PROVE  Common' /\ ReadWhole'
<1>1. left = 0 /\ sent' = sent
  BY Scans, ReaderFrame
<1> QED  BY <1>1, ReadCommon DEF ReadWhole

\* With nothing on the wire it waits, or the archive is over.
LEMMA EmptyWire ==
    ASSUME Scanning, wire = << >>, ReaderStep
    PROVE  StreamEnds
<1>1. Len(wire) = 0 /\ BLOCK \in Nat \ {0}
  BY EmptyRow, PaddingFits
<1>2. ~Has
  BY <1>1 DEF Has, Needs, Scanning
<1> QED  BY <1>2 DEF ReaderStep, BeginNext, Skip, ZeroBlock, LongName, LongLink, PaxRecords,
            GlobalRecords, SkipUnknown, Deliver, Truncated, Passing, Scanning

\* At the end marker: a zero block more, or the end.
LEMMA OverStep ==
    ASSUME Common, Between, carried.scanning, Over(wire), ReaderStep, feed' = feed
    PROVE  Common' /\ (Between' \/ ReadWhole')
<1>1. /\ answer = "asked" /\ closed' = closed /\ sent' = sent /\ Scanning
      /\ Row(wire) /\ Tray /\ carried.zeroes \in Nat
  BY ReaderFrame DEF Common, Tray, Scanning, Asked
<1>2. closed /\ CarriesNothing /\ got = sent
  BY DEF Over
<1>3. CASE wire = << >>
  <2>1. StreamEnds
    BY <1>1, <1>3, EmptyWire
  <2>2. /\ answer' = "end" /\ wire' = wire /\ got' = got /\ left' = left /\ carried' = carried
    BY <2>1 DEF StreamEnds
  <2>3. Tray'
    BY <1>1, <2>2 DEF Tray, CarriesNothing, CarriesOnly
  <2> QED  BY <1>1, <1>2, <1>3, <2>2, <2>3, ComesToEnd
<1>4. ASSUME NEW n \in Nat, wire = Zeros(BLOCK + n), n = BLOCK \/ n = 0,
             feed = "pack" => (carried.zeroes = 1 <=> n = 0) /\ (carried.zeroes = 0 <=> n # 0)
      PROVE  Common' /\ (Between' \/ ReadWhole')
  <2>1. ZeroBlock /\ (Take(BLOCK) => wire' = Zeros(n))
    <3>1. /\ wire # << >> /\ IsZeroBlock /\ Has /\ Needs \in Nat
          /\ (Take(BLOCK) => wire' = Zeros(n))
      BY <1>4, AtZeros
    <3> QED  BY <1>1, <3>1, Determined
  <2>2. /\ wire' = Zeros(n) /\ carried' = [carried EXCEPT !.zeroes = @ + 1]
        /\ answer' = IF carried.zeroes + 1 >= 2 THEN "end" ELSE answer
        /\ got' = got /\ left' = left /\ pad' = pad
    BY <2>1 DEF ZeroBlock
  <2> DEFINE z == carried.zeroes
  <2>3. Carrying({}, {}, NoRecords, z)
    BY <1>1, <1>2 DEF Carrying, CarriesNothing
  <2>4. z \in Nat
    BY <1>1
  <2> HIDE DEF z
  <2>5. PICK y \in Nat : y = z
    BY <2>4
  <2>6. Carrying({}, {}, NoRecords, y + 1)'
    BY <2>2, <2>3, <2>5, Carries
  <2>7. Tray' /\ carried'.scanning /\ CarriesNothing' /\ carried'.zeroes = y + 1
    BY <2>6 DEF Carrying, CarriesNothing
  <2>8. Row(wire') /\ Row(Zeros(n))
    BY <2>2, ZerosRow
  <2>9. CASE y + 1 >= 2
    <3>1. answer' = "end"
      BY <2>2, <2>5, <2>9 DEF z
    <3>2. feed = "pack" => wire' = << >>
      <4>1. y # 0
        BY <2>9
      <4>2. feed = "pack" => n = 0
        BY <1>4, <2>5, <4>1 DEF z
      <4> QED  BY <2>2, <4>2, ZerosRow
    <3> QED  BY <1>2, <2>2, <2>7, <2>8, <3>1, <3>2, ComesToEnd
  <2>10. CASE ~(y + 1 >= 2)
    <3>1. y = 0 /\ y + 1 = 1 /\ answer' = answer
      BY <1>1, <2>2, <2>5, <2>10 DEF z
    <3>2. feed = "pack" => n = BLOCK
      BY <1>4, <2>5, <3>1 DEF z
    <3>3. Zeros(n) = << >> \/ Zeros(n) = Zeros(BLOCK)
      BY <1>4, ZerosRow
    <3>4. Over(Zeros(n))'
      BY <1>1, <1>2, <2>2, <2>7, <3>1, <3>2, <3>3 DEF Over
    <3> DEFINE s == Zeros(n)
    <3>5. wire' = s /\ Row(s) /\ Over(s)'
      BY <2>2, <2>8, <3>4
    <3> HIDE DEF s
    <3> QED  BY <2>2, <2>7, <3>1, <3>5, GoesOn
  <2> QED  BY <2>9, <2>10
<1>5. CASE wire = Zeros(2 * BLOCK) /\ (feed = "pack" => carried.zeroes = 0)
  <2>1. 2 * BLOCK = BLOCK + BLOCK /\ BLOCK \in Nat /\ BLOCK # 0
    BY PaddingFits
  <2> QED  BY <1>4, <1>5, <2>1
<1>6. CASE wire = Zeros(BLOCK) /\ (feed = "pack" => carried.zeroes = 1)
  <2>1. BLOCK = BLOCK + 0
    BY PaddingFits
  <2> QED  BY <1>4, <1>6, <2>1
<1> QED  BY <1>3, <1>5, <1>6 DEF Over

\* What is no entry is passed over, and records declared for all are kept.
LEMMA QuietStep ==
    ASSUME Common, Between, carried.scanning, Quiet(wire), ReaderStep, feed' = feed
    PROVE  Common' /\ (Between' \/ ReadWhole')
<1>1. /\ answer = "asked" /\ closed' = closed /\ sent' = sent /\ owed' = owed
      /\ owedPad' = owedPad /\ everywhere' = everywhere /\ Scanning
      /\ Row(wire) /\ Tray /\ carried.zeroes \in Nat
  BY ReaderFrame DEF Common, Tray, Scanning, Asked
<1>2. ~closed /\ CarriesNothing /\ got = sent /\ owed = 0 /\ owedPad = 0
  BY DEF Quiet
<1>3. PICK z \in Nat : z = carried.zeroes
  BY <1>1
<1>4. Carrying({}, {}, NoRecords, z)
  BY <1>1, <1>2, <1>3 DEF Carrying, CarriesNothing
<1>5. carried.pax = NoRecords
  BY <1>2 DEF CarriesNothing, CarriesOnly
<1>6. ASSUME wire' = << >>, answer' = answer, got' = got, left' = left, pad' = pad,
             GlobalsRead', NEW y, Carrying({}, {}, NoRecords, y)', feed = "pack" => y = 0
      PROVE  Common' /\ Between'
  <2>1. Tray' /\ carried'.scanning /\ CarriesNothing' /\ carried'.zeroes = y
    BY <1>6 DEF Carrying, CarriesNothing
  <2>2. Quiet(<< >>)'
    BY <1>1, <1>2, <1>6, <2>1 DEF Quiet
  <2> QED  BY <1>6, <2>1, <2>2, EmptyRow, GoesOn
<1>7. ASSUME GlobalsRead, global' = global  PROVE GlobalsRead'
  BY <1>1, <1>7 DEF GlobalsRead
<1>8. CASE wire = << >>
  BY <1>1, <1>2, <1>8, EmptyWire DEF StreamEnds
<1>9. CASE wire = Zeros(BLOCK) /\ feed = "tool" /\ GlobalsRead
  <2>1. ZeroBlock /\ (Take(BLOCK) => wire' = << >>)
    <3>1. BLOCK = BLOCK + 0
      BY PaddingFits
    <3>2. /\ wire # << >> /\ IsZeroBlock /\ Has /\ Needs \in Nat
          /\ (Take(BLOCK) => wire' = Zeros(0))
      BY <1>1, <1>9, <3>1, AtZeros
    <3>3. Zeros(0) = << >>
      BY ZerosRow
    <3> QED  BY <1>1, <3>2, <3>3, Determined
  <2>2. /\ wire' = << >> /\ carried' = [carried EXCEPT !.zeroes = @ + 1]
        /\ answer' = IF carried.zeroes + 1 >= 2 THEN "end" ELSE answer
        /\ got' = got /\ left' = left /\ pad' = pad /\ global' = global
    BY <2>1 DEF ZeroBlock
  <2>3. Carrying({}, {}, NoRecords, z + 1)'
    BY <1>4, <2>2, Carries
  <2>4. CASE answer' = answer
    BY <1>6, <1>7, <1>9, <2>2, <2>3, <2>4
  <2>5. CASE answer' = "end"
    <3>1. Row(wire') /\ Tray'
      BY <2>2, <2>3, EmptyRow DEF Carrying
    <3> QED  BY <1>2, <2>2, <2>5, <3>1, ComesToEnd
  <2> QED  BY <2>2, <2>4, <2>5
<1>10. ASSUME GlobalsRead, NEW size \in UnknownSizes, wire = Unknown(size)
       PROVE  Common' /\ Between'
  <2>1. SkipUnknown /\ (Take(Needs) => wire' = << >>)
    <3>1. size \in Nat
      BY ToolAssumption
    <3>2. /\ wire # << >> /\ ~IsZeroBlock /\ Fields.type = "sparse" /\ Has /\ Needs \in Nat
          /\ (Take(Needs) => wire' = << >>)
      BY <1>1, <1>10, <3>1, AtUnknown
    <3> QED  BY <1>1, <3>2, Determined
  <2>2. /\ Carry("pax", NoRecords) /\ wire' = << >> /\ answer' = answer
        /\ got' = got /\ left' = left /\ pad' = pad /\ global' = global
    BY <1>5, <2>1 DEF SkipUnknown, Carry
  <2>3. Carrying({}, {}, NoRecords, 0)'
    BY <1>4, <2>2, Carries
  <2> QED  BY <1>6, <1>7, <1>10, <2>2, <2>3
<1>11. CASE DeclaredAhead(wire)
  <2> DEFINE h == Header(Stump, "file", 0, 0, 1, << >>, {})
  <2>1. PICK d : d = Declared(everywhere)
    OBVIOUS
  <2>2. GlobalRecords /\ BodyHeld = d /\ (Take(Needs) => wire' = << >>)
    <3>1. wire = Extension("g", h, d)
      BY <1>11, <2>1 DEF DeclaredAhead
    <3>2. wire = wire \o << >>
      BY <1>1, EmptyRow, Joined
    <3>3. "g" \notin Kinds
      BY DEF Kinds
    <3> HIDE DEF h
    <3>4. wire = Extension("g", h, d) \o << >>
      BY <3>1, <3>2
    <3>5. /\ wire # << >> /\ ~IsZeroBlock /\ Fields.type = "g" /\ Has /\ BodyHeld = d
          /\ Needs \in Nat /\ (Take(Needs) => wire' = << >>)
      BY <1>1, <3>3, <3>4, EmptyRow, AtExtension
    <3> QED  BY <1>1, <3>5, Determined
  <2>3. /\ Carry("pax", NoRecords) /\ wire' = << >> /\ answer' = answer
        /\ got' = got /\ left' = left /\ pad' = pad /\ global' = d
    BY <1>5, <2>2 DEF GlobalRecords, Carry
  <2>4. Carrying({}, {}, NoRecords, 0)'
    BY <1>4, <2>3, Carries
  <2>5. GlobalsRead'
    BY <1>1, <2>1, <2>3 DEF GlobalsRead
  <2> QED  BY <1>6, <2>3, <2>4, <2>5
<1> QED  BY <1>8, <1>9, <1>10, <1>11 DEF Quiet

\* The entry put in last is delivered as it was meant.
LEMMA DeliverKeeps ==
    ASSUME Common, Coming(wire), Deliver, Resolved = Newest, wire' = << >>, ReaderStep, feed' = feed
    PROVE  Common' /\ InHand'
<1>1. /\ closed' = closed /\ sent' = sent /\ owed' = owed /\ owedPad' = owedPad
      /\ everywhere' = everywhere
  BY ReaderFrame
<1>2. PICK h : h = Newest
  OBVIOUS
<1>3. /\ ~closed /\ sent # << >> /\ got = Front(sent) /\ GlobalsRead
      /\ owed = SizeField(h) /\ owedPad = PadFor(owed)
  BY <1>2 DEF Coming
<1>4. Good(h) /\ SizeField(h) = h.size /\ h.size \in Nat /\ PadFor(h.size) \in Nat
  <2>1. Good(h)
    BY <1>2, <1>3 DEF Common
  <2> QED  BY <2>1, Relabelled, PaddingFits
<1>5. /\ got' = Append(got, h) /\ left' = h.size /\ pad' = PadFor(h.size)
      /\ answer' = "entry" /\ carried' = NothingCarried /\ global' = global
  BY <1>2 DEF Deliver
<1>6. got' = sent
  <2>1. Append(Front(sent), Last(sent)) = sent
    BY <1>3, FrontAndLast DEF Common
  <2> QED  BY <1>2, <1>3, <1>5, <2>1 DEF Newest
<1>7. Tray' /\ ~carried'.scanning
  BY <1>5, EndsEmpty
<1>8. GlobalsRead'
  BY <1>1, <1>3, <1>5 DEF GlobalsRead
<1>9. Len(wire') = 0 /\ Row(wire') /\ Newest' = h
  BY <1>1, <1>2, EmptyRow DEF Newest
<1>10. InHand'
  <2>1. owed' = h.size /\ owedPad' = PadFor(h.size)
    BY <1>1, <1>3, <1>4
  <2> DEFINE s == h.size  p == PadFor(h.size)
  <2>2. /\ s \in Nat /\ p \in Nat /\ owed' = s /\ owedPad' = p /\ left' = s /\ pad' = p
        /\ Newest'.size = s
    BY <1>4, <1>5, <1>9, <2>1
  <2> HIDE DEF s, p
  <2>3. owed' <= Newest'.size /\ left' = owed' + Len(wire')
    BY <1>9, <2>2
  <2> QED  BY <1>1, <1>3, <1>5, <1>6, <1>7, <1>8, <2>2, <2>3 DEF InHand
<1> QED  BY <1>5, <1>7, <1>9, <1>10, ReadCommon

\* Header by header, the reader comes to it.
LEMMA ComingStep ==
    ASSUME Spills = {}, Common, Between, carried.scanning, Coming(wire), ReaderStep, feed' = feed
    PROVE  Common' /\ (Between' \/ InHand')
<1>1. /\ answer = "asked" /\ closed' = closed /\ sent' = sent /\ owed' = owed
      /\ owedPad' = owedPad /\ everywhere' = everywhere /\ Scanning
      /\ Row(wire) /\ Tray /\ carried.zeroes \in Nat /\ Newest' = Newest
  BY ReaderFrame DEF Common, Tray, Scanning, Asked, Newest
<1>2. /\ ~closed /\ sent # << >> /\ got = Front(sent) /\ GlobalsRead
      /\ owed = SizeField(Newest) /\ owedPad = PadFor(owed)
      /\ ComesPacked(wire) \/ ComesGnu(wire)
  BY DEF Coming
<1>3. PICK g : g = Newest
  OBVIOUS
<1>4. Good(g)
  BY <1>2, <1>3 DEF Common
<1>5. PICK z \in Nat : z = carried.zeroes
  BY <1>1
<1>6. ASSUME NEW t, Row(t), wire' = t, answer' = answer, got' = got, left' = left, pad' = pad,
             global' = global, Tray', carried'.scanning, carried'.zeroes = 0,
             ComesPacked(t)' \/ ComesGnu(t)'
      PROVE  Common' /\ Between'
  <2>1. GlobalsRead'
    BY <1>1, <1>2, <1>6 DEF GlobalsRead
  <2>2. owed' = SizeField(Newest') /\ owedPad' = PadFor(owed')
    BY <1>1, <1>2
  <2>3. Coming(t)'
    BY <1>1, <1>2, <1>6, <2>1, <2>2 DEF Coming
  <2> QED  BY <1>6, <2>3, GoesOn
<1>7. ASSUME NEW h, NEW u, wire = Encode(u, h.kind, SizeField(h)), h.kind \in Kinds,
             Fields = FieldsOf(u, h.kind, SizeField(h)) => Resolved = Newest
      PROVE  Common' /\ InHand'
  <2>1. /\ wire # << >> /\ ~IsZeroBlock /\ Fields.type = h.kind /\ Has /\ Needs \in Nat
        /\ Fields = FieldsOf(u, h.kind, SizeField(h)) /\ (Take(BLOCK) => wire' = << >>)
    BY <1>1, <1>7, AtEntry DEF Scanning
  <2>2. Deliver
    BY <1>1, <1>7, <2>1, Determined
  <2>3. wire' = << >>
    BY <2>1, <2>2 DEF Deliver
  <2> QED  BY <1>7, <2>1, <2>2, <2>3, DeliverKeeps
<1>8. ASSUME NEW h, AtPaxHeader(wire, h)  PROVE Common' /\ Between'
  <2>1. Labelled(h) /\ CarriesNothing /\ wire = Extension("x", h, Records(h)) \o PlainBlock(h)
    BY <1>8 DEF AtPaxHeader
  <2>2. PaxRecords /\ BodyHeld = Records(h) /\ (Take(Needs) => wire' = PlainBlock(h))
    <3>1. "x" \notin Kinds /\ Row(PlainBlock(h))
      BY HeaderRows DEF Kinds
    <3>2. /\ wire # << >> /\ ~IsZeroBlock /\ Fields.type = "x" /\ Has /\ BodyHeld = Records(h)
          /\ Needs \in Nat /\ (Take(Needs) => wire' = PlainBlock(h))
      BY <1>1, <2>1, <3>1, AtExtension
    <3> QED  BY <1>1, <3>2, Determined
  <2>3. /\ Carry("pax", Records(h)) /\ wire' = PlainBlock(h) /\ answer' = answer
        /\ got' = got /\ left' = left /\ pad' = pad /\ global' = global
    BY <2>2 DEF PaxRecords, Carry
  <2>4. Carrying({}, {}, Records(h), 0)'
    <3>1. Carrying({}, {}, NoRecords, z)
      BY <1>1, <1>5, <2>1 DEF Carrying, CarriesNothing
    <3> QED  BY <2>3, <3>1, Carries
  <2>5. Tray' /\ carried'.scanning /\ carried'.zeroes = 0 /\ CarriesOnly({}, {}, Records(h))'
    BY <2>4 DEF Carrying
  <2>6. ComesPacked(PlainBlock(h))'
    <3> DEFINE u == h.labels \cup everywhere
    <3>1. Newest' = WithLabels(h, u) /\ Good(h)
      BY <1>1, <2>1 DEF Labelled
    <3> HIDE DEF u
    <3>2. Newest'.labels = u /\ WithLabels(Newest', h.labels) = h
      <4>1. /\ WithLabels(h, u).labels = u
            /\ WithLabels(WithLabels(h, u), h.labels) = WithLabels(h, h.labels)
            /\ WithLabels(h, h.labels) = h
        BY <3>1, Relabelled
      <4> QED  BY <3>1, <4>1
    <3>3. u = h.labels \cup everywhere' /\ h.labels \in SUBSET u
      BY <1>1 DEF u
    <3>4. \E labels \in SUBSET Newest'.labels :
             /\ Newest'.labels = labels \cup everywhere'
             /\ \/ /\ CarriesNothing'
                   /\ PlainBlock(h) = Extension("x", WithLabels(Newest', labels),
                                                Records(WithLabels(Newest', labels)))
                                      \o PlainBlock(WithLabels(Newest', labels))
                \/ /\ carried'.name = {} /\ carried'.link = {}
                   /\ carried'.pax = Records(WithLabels(Newest', labels))
                   /\ PlainBlock(h) = PlainBlock(WithLabels(Newest', labels))
      <4>1. carried'.name = {} /\ carried'.link = {} /\ carried'.pax = Records(h)
        BY <2>5 DEF CarriesOnly
      <4> QED  BY <3>2, <3>3, <4>1, Zenon
    <3> QED  BY <3>4, Zenon DEF ComesPacked, CarriesOnly
  <2>7. Row(PlainBlock(h))
    BY HeaderRows
  <2> DEFINE t == PlainBlock(h)
  <2>8. wire' = t /\ Row(t) /\ ComesPacked(t)'
    BY <2>3, <2>6, <2>7
  <2> HIDE DEF t
  <2> QED  BY <1>6, <2>3, <2>5, <2>8
<1>9. ASSUME NEW h, AtPlainBlock(wire, h)  PROVE Common' /\ InHand'
  <2>1. Labelled(h) /\ CarriesOnly({}, {}, Records(h)) /\ wire = Encode(h, h.kind, SizeField(h))
    BY <1>9 DEF AtPlainBlock, PlainBlock
  <2>2. Good(h) /\ h.kind \in Kinds /\ Newest = WithLabels(h, h.labels \cup everywhere)
    BY <2>1 DEF Labelled, Good
  <2>3. Fields = FieldsOf(h, h.kind, SizeField(h)) => Resolved = Newest
    BY <1>2, <2>1, <2>2, PackedResolves
  <2> QED  BY <1>7, <2>1, <2>2, <2>3
<1>10. ASSUME AtLongName(wire), g.labels = everywhere  PROVE Common' /\ Between'
  <2> DEFINE t == LinkAhead(g) \o GnuBlock(g)
             d == <<".">> \o g.path
  <2>1. CarriesNothing /\ wire = Extension("L", g, d) \o t /\ Row(t) /\ NameKept(g) = {d}
    BY <1>3, <1>10, HeaderRows DEF AtLongName, NameKept
  <2> HIDE DEF t, d
  <2>2. LongName /\ BodyHeld = d /\ (Take(Needs) => wire' = t)
    <3>1. "L" \notin Kinds
      BY DEF Kinds
    <3>2. /\ wire # << >> /\ ~IsZeroBlock /\ Fields.type = "L" /\ Has /\ BodyHeld = d
          /\ Needs \in Nat /\ (Take(Needs) => wire' = t)
      BY <1>1, <2>1, <3>1, AtExtension
    <3> QED  BY <1>1, <3>2, Determined
  <2>3. /\ Carry("name", {d}) /\ wire' = t /\ answer' = answer
        /\ got' = got /\ left' = left /\ pad' = pad /\ global' = global
    BY <2>2 DEF LongName, Carry
  <2>4. Carrying({d}, {}, NoRecords, 0)'
    <3>1. Carrying({}, {}, NoRecords, z)
      BY <1>1, <1>5, <2>1 DEF Carrying, CarriesNothing
    <3> QED  BY <2>3, <3>1, Carries
  <2>5. /\ Tray' /\ carried'.scanning /\ carried'.zeroes = 0
        /\ CarriesOnly(NameKept(g), {}, NoRecords)'
    BY <2>1, <2>4 DEF Carrying, CarriesOnly
  <2>6. ComesGnu(t)'
    BY <1>1, <1>3, <1>10, <2>5 DEF ComesGnu, t
  <2> QED  BY <1>6, <2>1, <2>3, <2>5, <2>6
<1>11. ASSUME AtLongLink(wire), g.labels = everywhere  PROVE Common' /\ Between'
  <2> DEFINE t == GnuBlock(g)
             d == g.link
             n == NameKept(g)
  <2>1. /\ CarriesOnly(n, {}, NoRecords) /\ wire = Extension("K", g, d) \o t /\ Row(t)
        /\ LinkKept(g) = {d}
    BY <1>3, <1>11, HeaderRows DEF AtLongLink, LinkKept
  <2> HIDE DEF t, d, n
  <2>2. LongLink /\ BodyHeld = d /\ (Take(Needs) => wire' = t)
    <3>1. "K" \notin Kinds
      BY DEF Kinds
    <3>2. /\ wire # << >> /\ ~IsZeroBlock /\ Fields.type = "K" /\ Has /\ BodyHeld = d
          /\ Needs \in Nat /\ (Take(Needs) => wire' = t)
      BY <1>1, <2>1, <3>1, AtExtension
    <3> QED  BY <1>1, <3>2, Determined
  <2>3. /\ Carry("link", {d}) /\ wire' = t /\ answer' = answer
        /\ got' = got /\ left' = left /\ pad' = pad /\ global' = global
    BY <2>2 DEF LongLink, Carry
  <2>4. Carrying(n, {d}, NoRecords, 0)'
    <3>1. Carrying(n, {}, NoRecords, z)
      BY <1>1, <1>5, <2>1 DEF Carrying
    <3> QED  BY <2>3, <3>1, Carries
  <2>5. /\ Tray' /\ carried'.scanning /\ carried'.zeroes = 0
        /\ CarriesOnly(NameKept(g), LinkKept(g), NoRecords)'
    BY <2>1, <2>4 DEF Carrying, CarriesOnly, n
  <2>6. ComesGnu(t)'
    BY <1>1, <1>3, <1>11, <2>5 DEF ComesGnu, t
  <2> QED  BY <1>6, <2>1, <2>3, <2>5, <2>6
<1>12. ASSUME AtGnuBlock(wire), g.labels = everywhere  PROVE Common' /\ InHand'
  <2>1. /\ CarriesOnly(NameKept(g), LinkKept(g), NoRecords)
        /\ wire = Encode(Cut(g), g.kind, SizeField(g)) /\ g.kind \in Kinds
    BY <1>3, <1>4, <1>12 DEF AtGnuBlock, GnuBlock, Good
  <2>2. WithLabels(g, everywhere) = Newest
    <3>1. WithLabels(g, g.labels) = g
      BY <1>4, Relabelled
    <3> QED  BY <1>3, <1>12, <3>1
  <2>3. Fields = FieldsOf(Cut(g), g.kind, SizeField(g)) => Resolved = Newest
    BY <1>2, <1>4, <2>1, <2>2, GnuResolves
  <2> QED  BY <1>7, <2>1, <2>3
<1>13. CASE ComesPacked(wire)
  <2>1. \E h : AtPaxHeader(wire, h) \/ AtPlainBlock(wire, h)
    BY <1>3, <1>4, <1>13, PackedForms
  <2> QED  BY <1>8, <1>9, <2>1
<1>14. CASE ComesGnu(wire)
  <2>1. g.labels = everywhere /\ (AtLongName(wire) \/ AtLongLink(wire) \/ AtGnuBlock(wire))
    <3>1. g.labels = everywhere
      BY <1>3, <1>14 DEF ComesGnu
    <3> QED  BY <1>14, <3>1, GnuForms
  <2> QED  BY <1>10, <1>11, <1>12, <2>1
<1> QED  BY <1>2, <1>13, <1>14

\* What is on its way stays that while nobody touches it.
LEMMA FormsStay ==
    ASSUME NEW s, feed' = feed, closed' = closed, sent' = sent, owed' = owed, owedPad' = owedPad,
           everywhere' = everywhere, got' = got, global' = global,
           carried'.name = carried.name, carried'.link = carried.link,
           carried'.pax = carried.pax, carried'.zeroes = carried.zeroes,
           carried.scanning => carried'.scanning
    PROVE  /\ GlobalsRead => GlobalsRead'
           /\ (Over(s) => Over(s)') /\ (Quiet(s) => Quiet(s)') /\ (Coming(s) => Coming(s)')
<1>1. GlobalsRead => GlobalsRead'
  BY DEF GlobalsRead
<1>2. Newest' = Newest /\ (CarriesNothing => CarriesNothing')
  BY DEF Newest, CarriesNothing, CarriesOnly
<1>3. Over(s) => Over(s)'
  BY <1>2 DEF Over
<1>4. Quiet(s) => Quiet(s)'
  <2>1. DeclaredAhead(s) => DeclaredAhead(s)'
    BY DEF DeclaredAhead
  <2> QED  BY <1>1, <1>2, <2>1 DEF Quiet
<1>5. Coming(s) => Coming(s)'
  <2>1. ASSUME ComesPacked(s)  PROVE ComesPacked(s)'
    <3>1. PICK labels \in SUBSET Newest.labels :
             LET h == WithLabels(Newest, labels)
             IN  /\ Newest.labels = labels \cup everywhere
                 /\ \/ CarriesNothing /\ s = Extension("x", h, Records(h)) \o PlainBlock(h)
                    \/ CarriesOnly({}, {}, Records(h)) /\ s = PlainBlock(h)
      BY <2>1 DEF ComesPacked
    <3>2. PICK h : h = WithLabels(Newest, labels)
      OBVIOUS
    <3>3. /\ labels \in SUBSET Newest'.labels /\ h = WithLabels(Newest', labels)
          /\ Newest'.labels = labels \cup everywhere'
      BY <1>2, <3>1, <3>2
    <3>4. \/ CarriesNothing' /\ s = Extension("x", h, Records(h)) \o PlainBlock(h)
          \/ /\ carried'.name = {} /\ carried'.link = {} /\ carried'.pax = Records(h)
             /\ s = PlainBlock(h)
      BY <1>2, <3>1, <3>2 DEF CarriesOnly
    <3>5. \E l \in SUBSET Newest'.labels :
             /\ Newest'.labels = l \cup everywhere'
             /\ \/ /\ CarriesNothing'
                   /\ s = Extension("x", WithLabels(Newest', l), Records(WithLabels(Newest', l)))
                          \o PlainBlock(WithLabels(Newest', l))
                \/ /\ carried'.name = {} /\ carried'.link = {}
                   /\ carried'.pax = Records(WithLabels(Newest', l))
                   /\ s = PlainBlock(WithLabels(Newest', l))
      BY <3>3, <3>4, Zenon
    <3> QED  BY <3>5, Zenon DEF ComesPacked, CarriesOnly
  <2>2. ASSUME ComesGnu(s)  PROVE ComesGnu(s)'
    BY <1>2, <2>2 DEF ComesGnu, CarriesNothing, CarriesOnly
  <2>3. owed = SizeField(Newest) /\ owedPad = PadFor(owed)
        => owed' = SizeField(Newest') /\ owedPad' = PadFor(owed')
    BY <1>2
  <2> QED  BY <1>1, <1>2, <2>1, <2>2, <2>3 DEF Coming
<1> QED  BY <1>1, <1>3, <1>4, <1>5

\* What lies in front of the next header is passed over first.
LEMMA BeginStep ==
    ASSUME Common, Between, ~carried.scanning, ReaderStep, feed' = feed
    PROVE  Common' /\ Between'
<1>1. /\ answer = "asked" /\ closed' = closed /\ sent' = sent /\ owed' = owed
      /\ owedPad' = owedPad /\ everywhere' = everywhere /\ Newest' = Newest
      /\ Row(wire) /\ CarriesNothing /\ carried.zeroes = 0
  BY ReaderFrame DEF Common, Tray, Newest
<1>2. left = 0 /\ pad \in Nat
  BY DEF Between
<1>3. PICK s : Row(s) /\ wire = Behind \o s /\ (Over(s) \/ Quiet(s) \/ Coming(s))
  BY DEF Between
<1>4. Len(wire) = pad + Len(s) /\ Len(s) \in Nat /\ SubSeq(wire, pad + 1, Len(wire)) = s
  <2> DEFINE b == Zeros(pad)
  <2>1. Row(b) /\ Len(b) = pad /\ wire = b \o s
    BY <1>2, <1>3, ZerosRow DEF Behind
  <2> HIDE DEF b
  <2>2. Len(b \o s) = Len(b) + Len(s) /\ SubSeq(b \o s, Len(b) + 1, Len(b \o s)) = s
    BY <1>3, <2>1, Joined
  <2> QED  BY <1>3, <2>1, <2>2, RowFacts
<1>5. Has
  BY <1>2, <1>4 DEF Has, Needs
<1>6. BeginNext
  BY <1>2, <1>5 DEF ReaderStep, Skip, StreamEnds, ZeroBlock, LongName, LongLink, PaxRecords,
     GlobalRecords, SkipUnknown, Deliver, Truncated, Passing, Scanning
<1>7. /\ wire' = s /\ left' = 0 /\ pad' = 0 /\ answer' = answer /\ got' = got /\ global' = global
      /\ carried' = [NothingCarried EXCEPT !.scanning = TRUE]
  <2>1. left + pad = pad
    BY <1>2
  <2> QED  BY <1>4, <1>6, <2>1 DEF BeginNext, Take
<1>8. Carrying({}, {}, NoRecords, 0)'
  BY <1>7, BeginsEmpty
<1>9. /\ Tray' /\ carried'.scanning /\ carried'.zeroes = 0 /\ CarriesNothing'
      /\ carried'.name = carried.name /\ carried'.link = carried.link /\ carried'.pax = carried.pax
  BY <1>1, <1>8 DEF Carrying, CarriesNothing, CarriesOnly
<1>10. (Over(s) => Over(s)') /\ (Quiet(s) => Quiet(s)') /\ (Coming(s) => Coming(s)')
  BY <1>1, <1>7, <1>9, FormsStay
<1>11. Between'
  <2>1. Behind' = << >>
    BY <1>9 DEF Behind
  <2>2. wire' = Behind' \o s
    BY <1>3, <1>7, <2>1, EmptyRow, Joined
  <2> QED  BY <1>1, <1>3, <1>7, <1>10, <2>2 DEF Between
<1> QED  BY <1>1, <1>3, <1>7, <1>9, <1>11, ReadCommon

\* What the caller left of an entry's contents is passed over, as it comes.
LEMMA InHandStep ==
    ASSUME Common, InHand, ReaderStep, feed' = feed
    PROVE  Common' /\ (Between' \/ InHand')
<1>1. /\ answer = "asked" /\ closed' = closed /\ sent' = sent /\ owed' = owed
      /\ owedPad' = owedPad /\ everywhere' = everywhere /\ Newest' = Newest
      /\ Row(wire) /\ Len(wire) \in Nat /\ ~carried.scanning /\ Tray
  BY ReaderFrame, RowFacts DEF Common, InHand, Newest
<1>2. /\ ~closed /\ got = sent /\ GlobalsRead /\ owed \in Nat /\ owedPad \in Nat
      /\ left = owed + Len(wire) /\ pad = owedPad
  BY DEF InHand
<1>3. PICK m \in Nat : m = Len(wire)
  BY <1>1
<1>4. Needs = left + pad
  BY <1>1 DEF Needs
<1>5. BeginNext \/ Skip
  BY <1>1, <1>2 DEF ReaderStep, StreamEnds, ZeroBlock, LongName, LongLink, PaxRecords,
     GlobalRecords, SkipUnknown, Deliver, Truncated, Passing, Scanning
<1>6. CASE BeginNext
  <2>1. owed = 0 /\ owedPad = 0 /\ left + pad = m
    <3>1. m >= left + pad
      BY <1>3, <1>4, <1>6 DEF BeginNext, Has
    <3> QED  BY <1>2, <1>3, <3>1
  <2>2. /\ wire' = SubSeq(wire, m + 1, m) /\ left' = 0 /\ pad' = 0 /\ answer' = answer
        /\ got' = got /\ global' = global /\ carried' = [NothingCarried EXCEPT !.scanning = TRUE]
    BY <1>3, <1>6, <2>1 DEF BeginNext, Take
  <2>3. wire' = << >>
    BY <2>2, SubSeqEmpty
  <2>4. Carrying({}, {}, NoRecords, 0)'
    BY <2>2, BeginsEmpty
  <2>5. Tray' /\ carried'.scanning /\ carried'.zeroes = 0 /\ CarriesNothing'
    BY <2>4 DEF Carrying, CarriesNothing
  <2>6. GlobalsRead'
    BY <1>1, <1>2, <2>2 DEF GlobalsRead
  <2>7. Quiet(<< >>)'
    BY <1>1, <1>2, <2>1, <2>2, <2>5, <2>6 DEF Quiet
  <2>8. wire' = Behind' \o << >>
    <3>1. Behind' = << >>
      BY <2>5 DEF Behind
    <3>2. << >> \o << >> = << >>
      BY EmptyRow, Joined
    <3> QED  BY <2>3, <3>1, <3>2
  <2>9. Between'
    BY <1>1, <2>2, <2>7, <2>8, EmptyRow DEF Between
  <2> QED  BY <1>1, <2>2, <2>3, <2>5, <2>9, EmptyRow, ReadCommon
<1>7. CASE Skip
  <2> DEFINE k == IF Len(wire) < left THEN Len(wire) ELSE left
  <2>1. k = m
    BY <1>2, <1>3
  <2>2. /\ wire' = SubSeq(wire, k + 1, Len(wire)) /\ left' = left - k
        /\ answer' = answer /\ got' = got /\ pad' = pad /\ global' = global /\ carried' = carried
    BY <1>7 DEF Skip, Take
  <2> HIDE DEF k
  <2>3. wire' = << >> /\ left' = left - m
    BY <1>3, <2>1, <2>2, SubSeqEmpty
  <2>4. left' = owed' + Len(wire')
    BY <1>1, <1>2, <1>3, <2>3, EmptyRow
  <2>5. GlobalsRead'
    BY <1>1, <1>2, <2>2 DEF GlobalsRead
  <2>6. InHand'
    BY <1>1, <1>2, <2>2, <2>4, <2>5 DEF InHand
  <2>7. Tray'
    BY <1>1, <2>2 DEF Tray, CarriesNothing, CarriesOnly
  <2> QED  BY <1>1, <2>2, <2>3, <2>6, <2>7, EmptyRow, ReadCommon
<1> QED  BY <1>5, <1>6, <1>7

\* Of a stream that broke off, the reader gets nothing more but the end.
LEMMA BrokenStep ==
    ASSUME Common, cut, BrokenOff, ReaderStep, feed' = feed
    PROVE  Common' /\ BrokenOff'
<1>1. /\ answer = "asked" /\ closed' = closed /\ sent' = sent
      /\ Row(wire) /\ Len(wire) \in Nat /\ Tray
  BY ReaderFrame, RowFacts DEF Common
<1>2. /\ closed /\ IsPrefix(got, sent) /\ left \in Nat /\ pad \in Nat
      /\ Needs \in Nat /\ Len(wire) < Needs
  BY <1>1 DEF BrokenOff
<1>3. ~Has
  BY <1>1, <1>2 DEF Has
<1>4. Skip \/ StreamEnds \/ Truncated
  BY <1>3 DEF ReaderStep, BeginNext, ZeroBlock, LongName, LongLink, PaxRecords,
     GlobalRecords, SkipUnknown, Deliver, Passing
<1>5. CASE StreamEnds \/ Truncated
  <2>1. /\ answer' \in {"end", "error"} /\ wire' = wire /\ got' = got /\ left' = left
        /\ pad' = pad /\ carried' = carried
    BY <1>5 DEF StreamEnds, Truncated
  <2>2. BrokenOff'
    BY <1>1, <1>2, <2>1 DEF BrokenOff
  <2>3. Tray'
    BY <1>1, <2>1 DEF Tray, CarriesNothing, CarriesOnly
  <2> QED  BY <1>1, <2>1, <2>2, <2>3, ReadCommon
<1>6. CASE Skip
  <2> DEFINE k == IF Len(wire) < left THEN Len(wire) ELSE left
  <2>1. /\ wire' = SubSeq(wire, k + 1, Len(wire)) /\ left' = left - k
        /\ answer' = answer /\ got' = got /\ pad' = pad /\ carried' = carried
        /\ ~carried.scanning
    BY <1>6 DEF Skip, Take
  <2>2. k \in Nat /\ k <= left /\ k <= Len(wire)
    BY <1>1, <1>2
  <2> HIDE DEF k
  <2>3. Row(wire') /\ Len(wire') = Len(wire) - k
    <3> DEFINE m == Len(wire)
    <3>1. m \in Nat /\ k + 1 \in Nat \ {0} /\ m \in 0 .. m
      BY <1>1, <2>2
    <3>2. Row(SubSeq(wire, k + 1, m))
          /\ Len(SubSeq(wire, k + 1, m)) = IF k + 1 <= m THEN m - (k + 1) + 1 ELSE 0
      BY <1>1, <3>1, PartOf
    <3>3. (IF k + 1 <= m THEN m - (k + 1) + 1 ELSE 0) = m - k
      BY <2>2, <3>1
    <3> QED  BY <2>1, <3>2, <3>3
  <2>4. Needs' \in Nat /\ Len(wire') < Needs'
    <3>1. Needs = left + pad /\ Needs' = (left - k) + pad
      BY <2>1 DEF Needs
    <3> QED  BY <1>1, <1>2, <2>2, <2>3, <3>1
  <2>5. left' \in Nat
    BY <1>2, <2>1, <2>2
  <2>6. BrokenOff'
    BY <1>1, <1>2, <2>1, <2>4, <2>5 DEF BrokenOff
  <2>7. Tray'
    BY <1>1, <2>1 DEF Tray, CarriesNothing, CarriesOnly
  <2> QED  BY <1>1, <2>1, <2>3, <2>6, <2>7, ReadCommon
<1> QED  BY <1>4, <1>5, <1>6

\* Any step of the reader, wherever it is.
LEMMA ReaderKeeps ==
    ASSUME Spills = {}, Common, Stream, ReaderStep, feed' = feed
    PROVE  Common' /\ Stream'
<1>1. answer = "asked" /\ cut' = cut /\ cut \in BOOLEAN /\ carried.scanning \in BOOLEAN
  BY ReaderFrame DEF Common, Tray
<1>2. CASE cut
  BY <1>1, <1>2, BrokenStep DEF Stream
<1>3. CASE ~cut /\ InHand
  BY <1>1, <1>3, InHandStep DEF Stream
<1>4. CASE ~cut /\ Between /\ ~carried.scanning
  BY <1>1, <1>4, BeginStep DEF Stream
<1>5. CASE ~cut /\ Between /\ carried.scanning
  <2>1. Over(wire) \/ Quiet(wire) \/ Coming(wire)
    BY <1>5, Scans
  <2>2. Common' /\ (InHand' \/ Between' \/ ReadWhole')
    BY <1>5, <2>1, OverStep, QuietStep, ComingStep
  <2> QED  BY <1>1, <1>5, <2>2 DEF Stream
<1>6. CASE ~cut /\ ReadWhole
  BY <1>1, <1>6 DEF ReadWhole
<1> QED  BY <1>1, <1>2, <1>3, <1>4, <1>5, <1>6 DEF Stream

(***************************************************************************)
(* unpack_stream.                                                          *)
(***************************************************************************)
\* Nothing happens to the stream.
LEMMA StreamStays ==
    ASSUME Common, Stream, UNCHANGED streamVars, feed' = feed
    PROVE  Common' /\ Stream'
<1>1. /\ wire' = wire /\ closed' = closed /\ cut' = cut /\ sent' = sent /\ owed' = owed
      /\ owedPad' = owedPad /\ everywhere' = everywhere /\ answer' = answer /\ got' = got
      /\ left' = left /\ pad' = pad /\ global' = global /\ carried' = carried
  BY DEF streamVars, writerVars, readerVars
<1>2. Common'
  <2>1. Row(wire') /\ Row(sent')
    BY <1>1 DEF Common
  <2> QED  BY <1>1, <2>1, NewestStays, CommonKept DEF readerVars
<1>3. GlobalsRead' = GlobalsRead /\ Newest' = Newest /\ Behind' = Behind
  BY <1>1 DEF GlobalsRead, Newest, Behind
<1>4. InHand => InHand'
  BY <1>1, <1>3 DEF InHand
<1>5. Between => Between'
  <2>1. \A s : (Over(s) => Over(s)') /\ (Quiet(s) => Quiet(s)') /\ (Coming(s) => Coming(s)')
    BY <1>1, FormsStay
  <2> QED  BY <1>1, <1>3, <2>1 DEF Between
<1>6. ReadWhole => ReadWhole'
  BY <1>1 DEF ReadWhole
<1>7. BrokenOff => BrokenOff'
  <2>1. Needs' = Needs
    BY <1>1 DEF Needs, IsZeroBlock, Fields, Ahead, HasBody
  <2> QED  BY <1>1, <2>1 DEF BrokenOff
<1> QED  BY <1>1, <1>2, <1>4, <1>5, <1>6, <1>7 DEF Stream

\* The next entry is asked for when the one before is in hand.
LEMMA AskKeeps ==
    ASSUME Common, Stream, answer = "entry", AskNext, feed' = feed
    PROVE  Common' /\ Stream'
<1>1. /\ wire' = wire /\ closed' = closed /\ cut' = cut /\ sent' = sent /\ owed' = owed
      /\ owedPad' = owedPad /\ everywhere' = everywhere /\ answer' = "asked" /\ got' = got
      /\ left' = left /\ pad' = pad /\ global' = global /\ carried' = carried
      /\ cut \in BOOLEAN /\ Row(wire) /\ Row(sent) /\ Tray
  BY DEF AskNext, writerVars, Common
<1>2. Common'
  <2>1. Tray'
    BY <1>1 DEF Tray, CarriesNothing, CarriesOnly
  <2> QED  BY <1>1, <2>1, NewestStays DEF Common
<1>3. CASE ~cut
  <2>1. InHand
    BY <1>3 DEF Stream, Between, ReadWhole
  <2>2. GlobalsRead' /\ Newest' = Newest
    BY <1>1, <2>1 DEF InHand, GlobalsRead, Newest
  <2>3. InHand'
    BY <1>1, <2>1, <2>2 DEF InHand
  <2> QED  BY <1>1, <1>2, <1>3, <2>3 DEF Stream
<1>4. CASE cut
  <2>1. BrokenOff /\ wire = << >> /\ left > 0 /\ left \in Nat /\ pad \in Nat
    BY <1>4 DEF Stream, BrokenOff
  <2>2. Len(wire') = 0 /\ BLOCK \in Nat \ {0}
    BY <1>1, <2>1, EmptyRow, PaddingFits
  <2>3. Needs' \in Nat /\ Len(wire') < Needs'
    BY <1>1, <2>1, <2>2 DEF Needs
  <2>4. BrokenOff'
    BY <1>1, <2>1, <2>3 DEF BrokenOff
  <2> QED  BY <1>1, <1>2, <1>4, <2>4 DEF Stream
<1> QED  BY <1>1, <1>3, <1>4

\* What is read of its contents is gone from the wire.
LEMMA ReadKeeps ==
    ASSUME Common, Stream, answer = "entry", NEW n, ReadContents(n), feed' = feed
    PROVE  Common' /\ Stream'
<1>1. /\ closed' = closed /\ cut' = cut /\ sent' = sent /\ owed' = owed
      /\ owedPad' = owedPad /\ everywhere' = everywhere /\ answer' = answer /\ got' = got
      /\ pad' = pad /\ global' = global /\ carried' = carried
      /\ wire' = SubSeq(wire, n + 1, Len(wire)) /\ left' = left - n
      /\ n \in 1 .. Chunk /\ n <= left /\ n <= Len(wire)
      /\ cut \in BOOLEAN /\ Row(wire) /\ Row(sent) /\ Tray /\ Len(wire) \in Nat
  BY RowFacts DEF ReadContents, Readable, Read, Take, writerVars, Common
<1>2. Chunk \in Nat /\ n \in Nat \ {0}
  BY <1>1, StreamAssumption
<1>3. InHand /\ ~cut
  <2>1. CASE cut
    <3>1. wire = << >>
      BY <2>1 DEF Stream, BrokenOff
    <3> QED  BY <1>1, <1>2, <3>1, EmptyRow
  <2> QED  BY <1>1, <2>1 DEF Stream, Between, ReadWhole
<1>4. Row(wire') /\ Len(wire') = Len(wire) - n
  <2> DEFINE m == Len(wire)
  <2>1. m \in Nat /\ n + 1 \in Nat \ {0} /\ m \in 0 .. m /\ n <= m
    BY <1>1, <1>2
  <2>2. Row(SubSeq(wire, n + 1, m))
        /\ Len(SubSeq(wire, n + 1, m)) = IF n + 1 <= m THEN m - (n + 1) + 1 ELSE 0
    BY <1>1, <2>1, PartOf
  <2>3. (IF n + 1 <= m THEN m - (n + 1) + 1 ELSE 0) = m - n
    BY <1>2, <2>1
  <2> QED  BY <1>1, <2>2, <2>3
<1>5. Common'
  <2>1. Tray'
    BY <1>1 DEF Tray, CarriesNothing, CarriesOnly
  <2> QED  BY <1>1, <1>4, <2>1, NewestStays DEF Common
<1>6. GlobalsRead' /\ Newest' = Newest
  BY <1>1, <1>3 DEF InHand, GlobalsRead, Newest
<1>7. left' = owed' + Len(wire')
  BY <1>1, <1>2, <1>3, <1>4 DEF InHand
<1>8. InHand'
  BY <1>1, <1>3, <1>6, <1>7 DEF InHand
<1> QED  BY <1>1, <1>3, <1>5, <1>8 DEF Stream

\* What unpack_stream does to the stream: nothing, or one of these.
LEMMA UnpackKeeps ==
    ASSUME Inv, UnpackStep, UNCHANGED <<packVars, feed>>
    PROVE  Inv'
<1>1. Common /\ Stream /\ InHands /\ Walk /\ feed' = feed /\ src' = src /\ stack' = stack
  BY DEF Inv, packVars
<1>2. Walk'
  BY <1>1 DEF Walk
<1>3. ASSUME UNCHANGED streamVars, InHands'  PROVE Inv'
  BY <1>1, <1>2, <1>3, StreamStays DEF Inv
<1>4. ASSUME AskNext, answer = "entry", at' = "entries"  PROVE Inv'
  <2>1. InHands'
    BY <1>4 DEF InHands
  <2> QED  BY <1>1, <1>2, <1>4, <2>1, AskKeeps DEF Inv
<1>5. CASE SkipRoot \/ Whiteout \/ PlaceDir \/ PlaceSymlink \/ PlaceDevice \/ PlaceLink
  <2>1. AskNext /\ answer = "entry" /\ at = "entries" /\ at' = at
    BY <1>5 DEF SkipRoot, Whiteout, PlaceDir, PlaceSymlink, PlaceDevice, PlaceLink, Handled,
                IsEntry, IsMarked, Here
  <2> QED  BY <1>4, <2>1
<1>6. CASE StoreFile
  <2>1. AskNext /\ at' = "entries" /\ answer = "entry"
    BY <1>1, <1>6 DEF StoreFile, ContentsRead, InHands
  <2> QED  BY <1>4, <2>1
<1>7. ASSUME NEW n, ReadContents(n)  PROVE Inv'
  <2>1. at = "contents" /\ at' = at /\ answer = "entry" /\ answer' = answer
    BY <1>1, <1>7 DEF ReadContents, InHands
  <2>2. InHands'
    BY <1>1, <2>1 DEF InHands
  <2> QED  BY <1>1, <1>2, <1>7, <2>1, <2>2, ReadKeeps DEF Inv
<1>8. CASE ClearForFile \/ CreateEmpty \/ ArchiveEnds \/ Restamp \/ Done
  <2>1. UNCHANGED streamVars /\ answer' = answer
    BY <1>8 DEF ClearForFile, CreateEmpty, ArchiveEnds, Restamp, Done, streamVars, readerVars
  <2>2. InHands'
    BY <1>1, <1>8, <2>1 DEF ClearForFile, CreateEmpty, ArchiveEnds, Restamp, Done, IsEntry, Here,
                            InHands
  <2> QED  BY <1>3, <2>1, <2>2
<1>9. CASE EntryFails \/ ContentsFail \/ NextFails \/ RestampFails
  <2>1. UNCHANGED streamVars /\ at' = "failed"
    BY <1>9 DEF EntryFails, ContentsFail, NextFails, RestampFails, Stops
  <2>2. InHands'
    BY <2>1 DEF InHands
  <2> QED  BY <1>3, <2>1, <2>2
<1> QED  BY <1>5, <1>6, <1>7, <1>8, <1>9 DEF UnpackStep

(***************************************************************************)
(* The two writers.                                                        *)
(***************************************************************************)
\* A writer leaves the reader alone.
LEMMA WriterKeeps ==
    ASSUME Inv, UNCHANGED <<unpackVars, feed, readerVars>>, Walk', Common' /\ Stream'
    PROVE  Inv'
<1>1. at' = at /\ answer' = answer
  BY DEF unpackVars, readerVars
<1>2. InHands'
  BY <1>1 DEF Inv, InHands
<1> QED  BY <1>2 DEF Inv

\* The walk is at a path of the tree, whatever it holds next.
LEMMA WalkGoesOn ==
    ASSUME Walk, feed = "pack", CanPack
    PROVE  /\ src \in SourceTrees /\ Path \in Paths /\ Exists(src, Path)
           /\ Walked \in Seq(Seq({p \in Paths : Exists(src, p)}))
           /\ Append(Walked, SortedChildren(Path)) \in Seq(Seq({p \in Paths : Exists(src, p)}))
<1> DEFINE P == {p \in Paths : Exists(src, p)}
<1>1. src \in SourceTrees /\ stack \in Seq(Seq(P)) /\ stack # << >> /\ Pending # << >>
  BY DEF Walk, CanPack
<1>2. SortedChildren(Path) \in Seq(P)
  BY ChildrenExist DEF SortedChildren
<1>3. \A p \in P : p \in Paths /\ Exists(src, p)
  OBVIOUS
<1> HIDE DEF P
<1>4. Len(stack) \in Nat \ {0} /\ stack \in [1 .. Len(stack) -> Seq(P)]
  <2>1. Len(stack) \in Nat /\ stack \in [1 .. Len(stack) -> Seq(P)] /\ Len(stack) # 0
    BY <1>1, LenProperties, EmptySeq
  <2> QED  BY <2>1
<1>5. Pending \in Seq(P)
  BY <1>4 DEF Pending, Last
<1>6. Head(Pending) \in P /\ Tail(Pending) \in Seq(P)
  <2> DEFINE q == Pending
  <2>1. q \in Seq(P) /\ q # << >>
    BY <1>1, <1>5
  <2> HIDE DEF q
  <2>2. Head(q) \in P /\ Tail(q) \in Seq(P)
    BY <2>1, HeadTailProperties
  <2> QED  BY <2>2 DEF q
<1>7. Walked = [stack EXCEPT ![Len(stack)] = Tail(Pending)]
  BY DEF Walked, Pending, Last
<1>8. Walked \in Seq(Seq(P))
  <2>1. PICK n \in Nat \ {0} : n = Len(stack)
    BY <1>4
  <2>2. PICK t \in Seq(P) : t = Tail(Pending)
    BY <1>6
  <2>3. Walked = [stack EXCEPT ![n] = t] /\ stack \in [1 .. n -> Seq(P)]
    BY <1>4, <1>7, <2>1, <2>2
  <2>4. Walked \in [1 .. n -> Seq(P)]
    BY <2>3
  <2> QED  BY <2>4, SeqDef
<1>9. Append(Walked, SortedChildren(Path)) \in Seq(Seq(P))
  BY <1>2, <1>8, AppendProperties
<1>10. Path \in P
  BY <1>6 DEF Path
<1> QED  BY <1>1, <1>3, <1>8, <1>9, <1>10 DEF P

\* A path of a volume that exists names an inode, and that is in use.
LEMMA NamedInode ==
    ASSUME NEW v, IsVolume(v), NEW p \in Paths, Exists(v, p)
    PROVE  LET n == InodeAt(v, p)
           IN  /\ v.names[p] \in Inodes
               /\ n = Node(n.kind, n.data, n.attr, n.labels, n.time)
               /\ n.kind \in Kinds \ {"hardlink"}
               /\ n.kind \in {"dir", "device"} => n.data = << >>
<1>1. v.names[p] \in Inodes
  BY PathRow DEF IsVolume, Exists
<1>2. NamesOf(v, v.names[p]) # {}
  BY DEF NamesOf
<1> QED  BY <1>1, <1>2 DEF IsVolume, InodeAt

\* What pack writes is a header.
LEMMA PackedIsGood ==
    ASSUME Walk, feed = "pack", CanPack
    PROVE  /\ Stat.kind \in Kinds /\ Len(Stat.data) \in Nat
           /\ \A k \in Kinds, s \in Nat : \A l, b :
                  (k # "file" => s = 0) => Good(PackedAs(k, s, l, b))
<1>1. src \in SourceTrees /\ Path \in Paths /\ Exists(src, Path)
  BY WalkGoesOn
<1>2. Stat.kind \in Kinds /\ Row(Stat.data)
  <2>1. Stat.kind \in Kinds
    BY <1>1, SourcesAssumption, NamedInode DEF Stat
  <2>2. Stat.data \in Seq(ToSet(Stat.data))
    BY <1>1, SourcesAssumption DEF Stat
  <2> QED  BY <2>1, <2>2 DEF Row
<1>3. Row(Path) /\ "." \notin ToSet(Path)
  BY <1>1, PathRow
<1>4. \A k \in Kinds, s \in Nat : \A l, b :
                  (k # "file" => s = 0) => Good(PackedAs(k, s, l, b))
  BY <1>3, HeaderIsGood DEF PackedAs
<1> QED  BY <1>2, <1>4, RowFacts

\* Any step of pack_into.
LEMMA PackKeeps == Inv /\ Packs => Inv'
<1> SUFFICES ASSUME Inv, Packs  PROVE Inv'
  OBVIOUS
<1>1. feed = "pack" /\ PackStep /\ UNCHANGED <<unpackVars, feed, extras>> /\ feed' = feed /\ Walk
  BY DEF Packs, Inv
<1>2. src \in SourceTrees /\ stack \in Seq(Seq({p \in Paths : Exists(src, p)}))
  BY <1>1 DEF Walk
<1>3. ASSUME NEW h, Good(h), Start(h), src' = src,
             stack' \in Seq(Seq({p \in Paths : Exists(src, p)}))
      PROVE  Inv'
  <2>1. Walk'
    BY <1>2, <1>3 DEF Walk
  <2>2. Common' /\ Stream'
    BY <1>1, <1>3, StartKeeps
  <2>3. UNCHANGED readerVars
    BY <1>3 DEF Start
  <2> QED  BY <1>1, <2>1, <2>2, <2>3, WriterKeeps
<1>4. CASE Up
  <2>1. stack # << >> /\ stack' = Front(stack) /\ src' = src /\ UNCHANGED streamVars
    BY <1>4 DEF Up
  <2>2. Front(stack) \in Seq(Seq({p \in Paths : Exists(src, p)}))
    <3> DEFINE S == Seq({p \in Paths : Exists(src, p)})
    <3>1. stack \in Seq(S)
      BY <1>2
    <3> HIDE DEF S
    <3>2. PICK f \in Seq(S), e \in S : stack = Append(f, e)
      BY <2>1, <3>1, SequenceEmptyOrAppend
    <3>3. Front(stack) = f
      BY <3>2, RowIs, Appended
    <3> QED  BY <3>3 DEF S
  <2>3. Walk'
    BY <1>2, <2>1, <2>2 DEF Walk
  <2>4. Common' /\ Stream'
    BY <1>1, <2>1, StreamStays DEF Inv
  <2>5. UNCHANGED readerVars
    BY <2>1 DEF streamVars
  <2> QED  BY <1>1, <2>3, <2>4, <2>5, WriterKeeps
<1>5. CASE PackAgain
  <2>1. PICK h : h = PackedAs("hardlink", 0, seen[Inode], {})
    OBVIOUS
  <2>2. CanPack /\ Start(h) /\ stack' = Walked /\ src' = src
    BY <1>5, <2>1 DEF PackAgain
  <2>3. Good(h)
    BY <1>1, <2>1, <2>2, PackedIsGood DEF Kinds
  <2> QED  BY <1>1, <1>3, <2>2, <2>3, WalkGoesOn
<1>6. CASE PackDir
  <2>1. PICK h : h = PackedAs("dir", 0, << >>, Stat.labels)
    OBVIOUS
  <2>2. CanPack /\ Start(h) /\ stack' = Append(Walked, SortedChildren(Path)) /\ src' = src
    BY <1>6, <2>1 DEF PackDir
  <2>3. Good(h)
    BY <1>1, <2>1, <2>2, PackedIsGood DEF Kinds
  <2> QED  BY <1>1, <1>3, <2>2, <2>3, WalkGoesOn
<1>7. CASE PackLeaf
  <2>1. PICK h : h = CASE Stat.kind = "file" -> PackedAs("file", Len(Stat.data), << >>, Stat.labels)
                       [] Stat.kind = "symlink" -> PackedAs("symlink", 0, Stat.data, {})
                       [] OTHER -> PackedAs(Stat.kind, 0, << >>, Stat.labels)
    OBVIOUS
  <2>2. CanPack /\ Start(h) /\ stack' = Walked /\ src' = src
    BY <1>7, <2>1 DEF PackLeaf
  <2>3. Good(h)
    <3>1. Stat.kind \in Kinds /\ Len(Stat.data) \in Nat
      BY <1>1, <2>2, PackedIsGood
    <3>2. /\ Good(PackedAs("file", Len(Stat.data), << >>, Stat.labels))
          /\ Good(PackedAs("symlink", 0, Stat.data, {}))
          /\ Stat.kind # "file" => Good(PackedAs(Stat.kind, 0, << >>, Stat.labels))
      BY <1>1, <2>2, <3>1, PackedIsGood DEF Kinds
    <3> QED  BY <2>1, <3>2
  <2> QED  BY <1>1, <1>3, <2>2, <2>3, WalkGoesOn
<1>8. ASSUME UNCHANGED <<packVars, readerVars>>, Common' /\ Stream'  PROVE Inv'
  <2>1. Walk'
    BY <1>2, <1>8 DEF Walk, packVars
  <2> QED  BY <1>1, <1>8, <2>1, WriterKeeps
<1>9. CASE PackContents
  <2>1. PICK n : n = owed
    OBVIOUS
  <2>2. Write(n) /\ UNCHANGED packVars
    BY <1>9, <2>1 DEF PackContents
  <2>3. Common' /\ Stream'
    BY <1>1, <2>2, WriteKeeps
  <2> QED  BY <1>8, <2>2, <2>3 DEF Write
<1>10. CASE PackEnds
  <2>1. Finish /\ UNCHANGED packVars
    BY <1>10 DEF PackEnds
  <2>2. Common' /\ Stream'
    BY <1>1, <2>1, FinishKeeps
  <2> QED  BY <1>8, <2>1, <2>2 DEF Finish
<1> QED  BY <1>1, <1>4, <1>5, <1>6, <1>7, <1>9, <1>10 DEF PackStep

\* Any step of another tool.
LEMMA ToolKeeps == Inv /\ ToolWrites => Inv'
<1> SUFFICES ASSUME Inv, ToolWrites  PROVE Inv'
  OBVIOUS
<1>1. feed = "tool" /\ feed' = feed /\ UNCHANGED <<unpackVars, feed>>
  BY DEF ToolWrites
<1>2. Walk'
  BY <1>1 DEF Walk
<1>3. ASSUME UNCHANGED readerVars, Common' /\ Stream'  PROVE Inv'
  BY <1>1, <1>2, <1>3, WriterKeeps
<1>4. ASSUME NEW h \in ToolHeaders,
             StartGnu([h EXCEPT !.attr = Len(sent) + 1,
                                !.time = IF @ = 0 THEN 0 ELSE Len(sent) + 1])
      PROVE  Inv'
  <2>1. PICK x : x = Len(sent) + 1
    OBVIOUS
  <2>2. PICK g : g = [h EXCEPT !.attr = x, !.time = IF @ = 0 THEN 0 ELSE x]
    OBVIOUS
  <2>3. Good(h)
    BY ToolAssumption DEF Good, Row
  <2>4. Good(g)
    BY <2>2, <2>3, Renumbered
  <2>5. StartGnu(g)
    BY <1>4, <2>1, <2>2
  <2>6. Common' /\ Stream'
    BY <1>1, <2>4, <2>5, StartGnuKeeps
  <2> QED  BY <1>3, <2>5, <2>6 DEF StartGnu
<1>5. ASSUME NEW labels, Declare(labels)  PROVE Inv'
  BY <1>1, <1>3, <1>5, DeclareKeeps DEF Declare
<1>6. ASSUME NEW size \in UnknownSizes, StartUnknown(size)  PROVE Inv'
  BY <1>1, <1>3, <1>6, UnknownKeeps DEF StartUnknown
<1>7. CASE LoneZeroes
  BY <1>1, <1>3, <1>7, LoneZeroesKeeps DEF LoneZeroes
<1>8. ASSUME NEW n, Write(n)  PROVE Inv'
  BY <1>1, <1>3, <1>8, WriteKeeps DEF Write
<1>9. CASE Finish
  BY <1>1, <1>3, <1>9, FinishKeeps DEF Finish
<1>10. CASE Leave
  BY <1>1, <1>3, <1>10, LeaveKeeps DEF Leave
<1> QED  BY <1>4, <1>5, <1>6, <1>7, <1>8, <1>9, <1>10 DEF ToolWrites

(***************************************************************************)
(* The theorems.                                                           *)
(***************************************************************************)
LEMMA NextInv ==
    ASSUME Spills = {}, Inv, [Next]_vars
    PROVE  Inv'
<1>1. InHands /\ Walk /\ Common /\ Stream
  BY DEF Inv
<1>2. CASE Packs
  BY <1>2, PackKeeps
<1>3. CASE ToolWrites
  BY <1>3, ToolKeeps
<1>4. CASE Breaks
  <2>1. Break /\ feed' = feed /\ src' = src /\ stack' = stack /\ UNCHANGED <<unpackVars, feed>>
    BY <1>4 DEF Breaks, packVars
  <2>2. Common' /\ Stream'
    BY <2>1, BreakKeeps
  <2>3. Walk' /\ UNCHANGED readerVars
    BY <1>1, <2>1 DEF Walk, Break
  <2> QED  BY <2>1, <2>2, <2>3, WriterKeeps
<1>5. CASE Reads
  <2>1. ReaderStep /\ feed' = feed /\ src' = src /\ stack' = stack /\ at' = at
    BY <1>5 DEF Reads, packVars, unpackVars
  <2>2. Common' /\ Stream'
    BY <1>1, <2>1, ReaderKeeps
  <2>3. answer = "asked"
    BY <2>1, ReaderFrame
  <2>4. InHands' /\ Walk'
    BY <1>1, <2>1, <2>3 DEF InHands, Walk
  <2> QED  BY <2>2, <2>4 DEF Inv
<1>6. CASE Unpacks
  BY <1>6, UnpackKeeps DEF Unpacks
<1>7. CASE UNCHANGED vars
  <2>1. /\ UNCHANGED streamVars /\ feed' = feed /\ src' = src /\ stack' = stack
        /\ UNCHANGED <<unpackVars, feed>>
    BY <1>7 DEF vars, packVars
  <2>2. Common' /\ Stream'
    BY <1>1, <2>1, StreamStays
  <2>3. Walk' /\ UNCHANGED readerVars
    BY <1>1, <2>1 DEF Walk, streamVars
  <2> QED  BY <2>1, <2>2, <2>3, WriterKeeps
<1> QED  BY <1>2, <1>3, <1>4, <1>5, <1>6, <1>7 DEF Next, Finished

\* Where the reader is, what is on the wire, and what it has returned fit together, unless a
\* link target spills into the prefix field.
THEOREM StreamInv ==
    ASSUME Spills = {}
    PROVE  Spec => []Inv
<1>1. Inv /\ [Next]_vars => Inv'
  BY NextInv
<1> QED  BY <1>1, InitInv, PTL DEF Spec

\* What next has returned is the beginning of what was put in.
LEMMA GotStartsSent == Inv => IsPrefix(got, sent)
<1> SUFFICES ASSUME Inv  PROVE IsPrefix(got, sent)
  OBVIOUS
<1>1. Row(sent) /\ Stream
  BY DEF Inv, Common
<1>2. IsPrefix(sent, sent) /\ (sent # << >> => IsPrefix(Front(sent), sent))
  BY <1>1, FrontIsPrefix
<1>3. got = sent \/ (sent # << >> /\ got = Front(sent)) \/ IsPrefix(got, sent)
  BY <1>1 DEF Stream, BrokenOff, InHand, ReadWhole, Between, Over, Quiet, Coming
<1> QED  BY <1>2, <1>3

\* What next returns is what was put in, in that order, through Start and StartGnu, PAX and GNU
\* extensions, padding, broken streams and what the caller leaves unread.
THEOREM DeliveredAsSent ==
    ASSUME Spills = {}
    PROVE  Spec => []GotIsSent
BY GotStartsSent, StreamInv, PTL DEF GotIsSent

\* What unpack_stream has come to the end of, and did not break off, it has had all of.
THEOREM AllDelivered ==
    ASSUME Spills = {}
    PROVE  Spec => []NothingMissing
<1>1. Inv => NothingMissing
  <2> SUFFICES ASSUME Inv, at \in {"restamping", "done"}, ~cut
               PROVE  got = sent /\ (feed = "pack" => wire = << >>)
    BY DEF NothingMissing
  <2>1. answer = "end" /\ Stream
    BY DEF Inv, InHands
  <2>2. ReadWhole
    BY <2>1 DEF Stream, InHand, Between
  <2> QED  BY <2>2 DEF ReadWhole
<1> QED  BY <1>1, StreamInv, PTL

(***************************************************************************)
(* The order of an archive: where the walk of Pack is, and what it wrote.  *)
(***************************************************************************)
\* Where two paths part, the first takes the smaller name; or it leads to the second.
LeftOf(p, q) ==
    \E k \in 1 .. Len(p) : /\ k <= Len(q) /\ \A i \in 1 .. k - 1 : p[i] = q[i]
                           /\ NamePlace(p[k]) < NamePlace(q[k])
Above(p, q) == Len(p) < Len(q) /\ \A i \in 1 .. Len(p) : p[i] = q[i]
Precedes(p, q) == Above(p, q) \/ LeftOf(p, q)

\* Paths that agree up to a place have the same stretch up to it.
LEMMA SameStretch ==
    ASSUME NEW p, NEW q, Row(p), Row(q), NEW n \in 0 .. Len(p), n <= Len(q),
           \A i \in 1 .. n : p[i] = q[i]
    PROVE  SubSeq(p, 1, n) = SubSeq(q, 1, n)
<1> DEFINE a == SubSeq(p, 1, n)  b == SubSeq(q, 1, n)
<1>1. Len(p) \in Nat /\ Len(q) \in Nat /\ n \in Nat /\ n \in 0 .. Len(q)
  BY RowFacts
<1>2. /\ Row(a) /\ Len(a) = IF 1 <= n THEN n - 1 + 1 ELSE 0
      /\ \A i \in 1 .. n - 1 + 1 : a[i] = p[1 + i - 1]
  BY <1>1, PartOf
<1>3. /\ Row(b) /\ Len(b) = IF 1 <= n THEN n - 1 + 1 ELSE 0
      /\ \A i \in 1 .. n - 1 + 1 : b[i] = q[1 + i - 1]
  BY <1>1, PartOf
<1> HIDE DEF a, b
<1>4. Len(a) = n /\ Len(b) = n /\ \A i \in 1 .. n : a[i] = b[i]
  BY <1>1, <1>2, <1>3
<1>5. DOMAIN a = 1 .. n /\ DOMAIN b = 1 .. n
  BY <1>2, <1>3, <1>4, RowFacts
<1>6. a \in Seq(ToSet(a) \cup ToSet(b)) /\ b \in Seq(ToSet(a) \cup ToSet(b))
  BY <1>2, <1>3, SeqMonotonic DEF Row
<1>7. a = b
  BY <1>4, <1>6, SeqEqual
<1> QED  BY <1>7 DEF a, b

\* Precedes is Before, written out.
LEMMA PrecedesIsBefore ==
    ASSUME NEW p, NEW q, Row(p), Row(q), Precedes(p, q)
    PROVE  Before(p, q)
<1>1. Len(p) \in Nat /\ Len(q) \in Nat
  BY RowFacts
<1>2. CASE Above(p, q)
  <2>1. SubSeq(p, 1, Len(p)) = SubSeq(q, 1, Len(p))
    BY <1>1, <1>2, SameStretch DEF Above
  <2>2. p # q /\ Len(p) <= Len(q)
    BY <1>1, <1>2 DEF Above
  <2> QED  BY <2>1, <2>2 DEF Before, IsStrictPrefix, IsPrefix
<1>3. CASE LeftOf(p, q)
  <2>1. PICK k \in 1 .. Len(p) : /\ k <= Len(q) /\ \A i \in 1 .. k - 1 : p[i] = q[i]
                                 /\ NamePlace(p[k]) < NamePlace(q[k])
    BY <1>3 DEF LeftOf
  <2>2. k - 1 \in 0 .. Len(p) /\ k - 1 <= Len(q)
    BY <1>1, <2>1
  <2>3. SubSeq(p, 1, k - 1) = SubSeq(q, 1, k - 1)
    BY <2>1, <2>2, SameStretch
  <2> QED  BY <2>1, <2>3 DEF Before
<1> QED  BY <1>2, <1>3 DEF Precedes

\* What is in a directory is where the directory is, and behind it.
LEMMA ChildWith ==
    ASSUME NEW c \in Paths, NEW p \in Paths, Front(c) = p, NEW q, Row(q)
    PROVE  /\ Above(p, c)
           /\ Precedes(q, p) => Precedes(q, c)
           /\ LeftOf(p, q) => LeftOf(c, q)
<1>1. Row(p) /\ Row(c) /\ c # << >>
  BY PathRow
<1>2. /\ Append(p, Last(c)) = c /\ Len(p) = Len(c) - 1
      /\ Len(c) \in Nat \ {0} /\ Len(p) \in Nat /\ Len(q) \in Nat
  BY <1>1, FrontAndLast, RowFacts
<1>3. \A i \in 1 .. Len(p) : c[i] = p[i]
  BY <1>1, <1>2, Appended
<1>4. Above(p, c)
  BY <1>2, <1>3 DEF Above
<1>5. Above(q, p) => Above(q, c)
  BY <1>2, <1>3 DEF Above
<1>6. LeftOf(q, p) => LeftOf(q, c)
  <2> SUFFICES ASSUME LeftOf(q, p)  PROVE LeftOf(q, c)
    OBVIOUS
  <2>1. PICK k \in 1 .. Len(q) : /\ k <= Len(p) /\ \A i \in 1 .. k - 1 : q[i] = p[i]
                                 /\ NamePlace(q[k]) < NamePlace(p[k])
    BY DEF LeftOf
  <2>2. k <= Len(c) /\ k \in 1 .. Len(p) /\ \A i \in 1 .. k - 1 : i \in 1 .. Len(p)
    BY <1>2, <2>1
  <2>3. c[k] = p[k] /\ \A i \in 1 .. k - 1 : q[i] = c[i]
    BY <1>3, <2>1, <2>2
  <2> QED  BY <2>1, <2>2, <2>3 DEF LeftOf
<1>7. LeftOf(p, q) => LeftOf(c, q)
  <2> SUFFICES ASSUME LeftOf(p, q)  PROVE LeftOf(c, q)
    OBVIOUS
  <2>1. PICK k \in 1 .. Len(p) : /\ k <= Len(q) /\ \A i \in 1 .. k - 1 : p[i] = q[i]
                                 /\ NamePlace(p[k]) < NamePlace(q[k])
    BY DEF LeftOf
  <2>2. k \in 1 .. Len(c) /\ k \in 1 .. Len(p) /\ \A i \in 1 .. k - 1 : i \in 1 .. Len(p)
    BY <1>2, <2>1
  <2>3. c[k] = p[k] /\ \A i \in 1 .. k - 1 : c[i] = q[i]
    BY <1>3, <2>1, <2>2
  <2> QED  BY <2>1, <2>2, <2>3 DEF LeftOf
<1> QED  BY <1>4, <1>5, <1>6, <1>7 DEF Precedes

\* Of two in one directory, the one with the smaller name.
LEMMA SiblingsLeft ==
    ASSUME NEW p \in Paths, NEW q \in Paths, Front(p) = Front(q),
           NamePlace(Last(p)) < NamePlace(Last(q))
    PROVE  LeftOf(p, q)
<1> DEFINE f == Front(p)
<1>1. /\ Row(f) /\ Append(f, Last(p)) = p /\ Append(f, Last(q)) = q
      /\ Len(f) = Len(p) - 1 /\ Len(f) = Len(q) - 1
      /\ Len(p) \in Nat \ {0} /\ Len(q) \in Nat \ {0}
  BY PathRow, FrontAndLast
<1> HIDE DEF f
<1>2. \A i \in 1 .. Len(f) : p[i] = f[i] /\ q[i] = f[i]
  BY <1>1, Appended
<1>3. Len(p) \in 1 .. Len(p) /\ Len(p) <= Len(q) /\ \A i \in 1 .. Len(p) - 1 : p[i] = q[i]
  BY <1>1, <1>2
<1>4. p[Len(p)] = Last(p) /\ q[Len(p)] = Last(q)
  BY <1>1 DEF Last
<1> QED  BY <1>3, <1>4 DEF LeftOf

\* The paths to come, and that they come in turn: a level's by name, and a deeper level's
\* ahead of those it is in.
Waiting(st) == UNION {ToSet(st[l]) : l \in 1 .. Len(st)}
ByName(a) == \A i, j \in 1 .. Len(a) : i < j => LeftOf(a[i], a[j])
InTurn(st) ==
    /\ \A l \in 1 .. Len(st) : ByName(st[l])
    /\ \A l, m \in 1 .. Len(st) : l < m =>
          \A p \in ToSet(st[m]), q \in ToSet(st[l]) : LeftOf(p, q)

\* A level that is done leaves the others in turn.
LEMMA LevelDone ==
    ASSUME NEW U, NEW st \in Seq(U), st # << >>, InTurn(st)
    PROVE  /\ Front(st) \in Seq(U) /\ InTurn(Front(st)) /\ Waiting(Front(st)) \subseteq Waiting(st)
           /\ Last(st) = << >> => Waiting(Front(st)) = Waiting(st)
<1>1. PICK f \in Seq(U), e \in U : st = Append(f, e)
  BY SequenceEmptyOrAppend
<1>2. /\ Front(st) = f /\ Len(st) = Len(f) + 1 /\ Len(f) \in Nat
      /\ \A l \in 1 .. Len(f) : st[l] = f[l] /\ l \in 1 .. Len(st)
  BY <1>1, RowIs, Appended, RowFacts
<1>3. ASSUME Last(st) = << >>, NEW x \in Waiting(st)  PROVE x \in Waiting(f)
  <2>1. PICK l \in 1 .. Len(st) : x \in ToSet(st[l])
    BY <1>3 DEF Waiting
  <2>2. l # Len(st)
    BY <1>3, <2>1, EmptyRow, RowFacts DEF Last, ToSet
  <2> QED  BY <1>2, <2>1, <2>2 DEF Waiting
<1> QED  BY <1>2, <1>3 DEF InTurn, Waiting

\* Another level goes on top, all of it ahead of what is below.
LEMMA LevelAdded ==
    ASSUME NEW U, NEW st \in Seq(U), NEW c \in U, InTurn(st), ByName(c),
           \A p \in ToSet(c), q \in Waiting(st) : LeftOf(p, q)
    PROVE  InTurn(Append(st, c)) /\ Waiting(Append(st, c)) = Waiting(st) \cup ToSet(c)
<1> DEFINE w == Append(st, c)  n == Len(st)
<1>1. /\ n \in Nat /\ Len(w) = n + 1 /\ w[n + 1] = c
      /\ \A l \in 1 .. n : w[l] = st[l]
  BY AppendProperties, LenProperties
<1> HIDE DEF w, n
<1>2. \A l \in 1 .. Len(w) : l \in 1 .. n \/ l = n + 1
  BY <1>1
<1>3. \A l \in 1 .. n : l \in 1 .. Len(w) /\ ToSet(st[l]) \subseteq Waiting(st)
  BY <1>1 DEF Waiting, n
<1>4. \A l \in 1 .. Len(w) : ByName(w[l])
  BY <1>1, <1>2 DEF InTurn, n
<1>5. ASSUME NEW l \in 1 .. Len(w), NEW m \in 1 .. Len(w), l < m,
             NEW p \in ToSet(w[m]), NEW q \in ToSet(w[l])
      PROVE  LeftOf(p, q)
  <2>1. l \in 1 .. n
    BY <1>1, <1>2, <1>5
  <2>2. w[l] = st[l] /\ q \in Waiting(st)
    BY <1>1, <1>3, <1>5, <2>1
  <2>3. CASE m \in 1 .. n
    BY <1>1, <1>5, <2>1, <2>2, <2>3 DEF InTurn, n
  <2>4. CASE m = n + 1
    BY <1>1, <1>5, <2>2, <2>4
  <2> QED  BY <1>2, <2>3, <2>4
<1>6. InTurn(w)
  BY <1>4, <1>5 DEF InTurn
<1>7. Waiting(w) = Waiting(st) \cup ToSet(c)
  <2>1. ASSUME NEW x \in Waiting(w)  PROVE x \in Waiting(st) \cup ToSet(c)
    <3>1. PICK l \in 1 .. Len(w) : x \in ToSet(w[l])
      BY <2>1 DEF Waiting
    <3> QED  BY <1>1, <1>2, <1>3, <3>1
  <2>2. ASSUME NEW x \in Waiting(st)  PROVE x \in Waiting(w)
    <3>1. PICK l \in 1 .. n : x \in ToSet(st[l])
      BY <2>2 DEF Waiting, n
    <3> QED  BY <1>1, <1>3, <3>1 DEF Waiting
  <2>3. n + 1 \in 1 .. Len(w)
    BY <1>1
  <2>4. ToSet(c) \subseteq Waiting(w)
    BY <1>1, <2>3 DEF Waiting
  <2> QED  BY <2>1, <2>2, <2>4
<1> QED  BY <1>6, <1>7 DEF w

\* The first path of a row is taken: it is ahead of all others.
LEMMA FirstTaken ==
    ASSUME NEW P, NEW a \in Seq(P), a # << >>, ByName(a)
    PROVE  /\ Head(a) \in ToSet(a) /\ Tail(a) \in Seq(P) /\ ByName(Tail(a))
           /\ ToSet(Tail(a)) \subseteq ToSet(a)
           /\ \A p \in ToSet(Tail(a)) : LeftOf(Head(a), p)
           /\ ToSet(a) = ToSet(Tail(a)) \cup {Head(a)}
<1> DEFINE t == Tail(a)
<1>1. /\ t \in Seq(P) /\ Len(t) = Len(a) - 1 /\ Len(a) \in Nat \ {0} /\ Head(a) = a[1]
      /\ \A i \in 1 .. Len(t) : t[i] = a[i + 1]
  BY HeadTailProperties, LenProperties, EmptySeq
<1>2. DOMAIN a = 1 .. Len(a) /\ DOMAIN t = 1 .. Len(t)
  BY <1>1, LenProperties
<1> HIDE DEF t
<1>3. 1 \in 1 .. Len(a) /\ \A i \in 1 .. Len(t) : i + 1 \in 1 .. Len(a) /\ 1 < i + 1
  BY <1>1
<1>4. ByName(t)
  <2> SUFFICES ASSUME NEW i \in 1 .. Len(t), NEW j \in 1 .. Len(t), i < j
               PROVE  LeftOf(t[i], t[j])
    BY DEF ByName
  <2>1. i + 1 < j + 1
    BY <1>1
  <2> QED  BY <1>1, <1>3, <2>1 DEF ByName
<1>5. ASSUME NEW p \in ToSet(t)  PROVE p \in ToSet(a) /\ LeftOf(a[1], p)
  <2>1. PICK i \in 1 .. Len(t) : p = t[i]
    BY <1>2 DEF ToSet
  <2>2. p = a[i + 1]
    BY <1>1, <2>1
  <2> QED  BY <1>2, <1>3, <2>2 DEF ByName, ToSet
<1>6. a[1] \in ToSet(a)
  BY <1>2, <1>3 DEF ToSet
<1>7. ASSUME NEW p \in ToSet(a)  PROVE p = a[1] \/ p \in ToSet(t)
  <2>1. PICK i \in 1 .. Len(a) : p = a[i]
    BY <1>2, <1>7 DEF ToSet
  <2>2. i = 1 \/ (i - 1 \in 1 .. Len(t) /\ (i - 1) + 1 = i)
    BY <1>1
  <2> QED  BY <1>1, <1>2, <2>1, <2>2 DEF ToSet
<1> QED  BY <1>1, <1>4, <1>5, <1>6, <1>7 DEF t

\* The walk takes its next path: it is ahead of all that still wait, which stay in turn.
LEMMA PathTaken ==
    ASSUME NEW P, NEW st \in Seq(Seq(P)), st # << >>, Last(st) # << >>, InTurn(st)
    PROVE  LET w == [st EXCEPT ![Len(st)] = Tail(@)]
               h == Head(Last(st))
           IN  /\ w \in Seq(Seq(P)) /\ InTurn(w) /\ h \in Waiting(st)
               /\ Waiting(st) = Waiting(w) \cup {h}
               /\ \A p \in Waiting(w) : LeftOf(h, p)
<1> DEFINE n == Len(st)  a == Last(st)  t == Tail(a)  h == Head(a)
           w == [st EXCEPT ![n] = Tail(@)]
<1>1. n \in Nat \ {0} /\ st \in [1 .. n -> Seq(P)] /\ a = st[n]
  BY LenProperties, EmptySeq DEF Last
<1>2. a \in Seq(P) /\ ByName(a) /\ a # << >> /\ n \in 1 .. n
  BY <1>1 DEF InTurn
<1>3. /\ h \in ToSet(a) /\ t \in Seq(P) /\ ByName(t) /\ ToSet(t) \subseteq ToSet(a)
      /\ \A p \in ToSet(t) : LeftOf(h, p)
      /\ ToSet(a) = ToSet(t) \cup {h}
  BY <1>2, FirstTaken
<1>4. w = [st EXCEPT ![n] = t]
  BY <1>1
<1> HIDE DEF a, t, h, w, n
<1>5. w \in [1 .. n -> Seq(P)] /\ w[n] = t /\ \A l \in 1 .. n : l # n => w[l] = st[l]
  BY <1>1, <1>3, <1>4
<1>6. w \in Seq(Seq(P)) /\ Len(w) = n
  BY <1>1, <1>5, SeqDef, LenProperties
<1>7. \A l \in 1 .. n : ByName(w[l]) /\ ToSet(w[l]) \subseteq ToSet(st[l])
  <2> TAKE l \in 1 .. n
  <2>1. CASE l = n
    BY <1>1, <1>3, <1>5, <2>1
  <2>2. CASE l # n
    <3>1. w[l] = st[l]
      BY <1>5, <2>2
    <3> QED  BY <3>1 DEF InTurn, n
  <2> QED  BY <2>1, <2>2
<1>8. InTurn(w)
  BY <1>6, <1>7 DEF InTurn, n
<1>9. h \in Waiting(st)
  BY <1>1, <1>2, <1>3 DEF Waiting, n
<1>10. ASSUME NEW p \in Waiting(w)  PROVE p \in Waiting(st) /\ LeftOf(h, p)
  <2>1. PICK l \in 1 .. n : p \in ToSet(w[l])
    BY <1>6, <1>10 DEF Waiting
  <2>2. p \in Waiting(st)
    BY <1>7, <2>1 DEF Waiting, n
  <2>3. CASE l = n
    BY <1>3, <1>5, <2>1, <2>2, <2>3
  <2>4. CASE l # n
    <3>1. l < n /\ p \in ToSet(st[l]) /\ h \in ToSet(st[n])
      BY <1>1, <1>3, <1>5, <2>1, <2>4
    <3>2. LeftOf(h, p)
      BY <1>2, <3>1 DEF InTurn, n
    <3> QED  BY <2>2, <3>2
  <2> QED  BY <2>2, <2>3, <2>4
<1>11. ASSUME NEW p \in Waiting(st)  PROVE p = h \/ p \in Waiting(w)
  <2>1. PICK l \in 1 .. n : p \in ToSet(st[l])
    BY <1>11 DEF Waiting, n
  <2>2. p = h \/ p \in ToSet(w[l])
    BY <1>1, <1>3, <1>5, <2>1
  <2> QED  BY <1>6, <2>1, <2>2 DEF Waiting
<1> QED  BY <1>6, <1>8, <1>9, <1>10, <1>11 DEF w, h, a, n

\* What waits is paths of the tree.
LEMMA WaitingExist ==
    ASSUME NEW P, NEW st \in Seq(Seq(P))  PROVE Waiting(st) \subseteq P
<1>1. \A l \in 1 .. Len(st) : st[l] \in Seq(P)
  BY ElementOfSeq
<1>2. \A a \in Seq(P) : ToSet(a) \subseteq P
  BY ElementOfSeq, LenProperties DEF ToSet
<1> QED  BY <1>1, <1>2 DEF Waiting

\* What there is to know of an archive while it is packed, and of the walk.
Holds(log, i, p) ==
    \E j \in 1 .. Len(log) : log[j].path = p /\ log[j].kind # "hardlink" /\ src.names[p] = i
Ordered ==
    feed = "pack" =>
        /\ Row(sent) /\ InTurn(stack)
        /\ \A k \in 1 .. Len(sent) :
              sent[k].path \in Paths /\ \A p \in Waiting(stack) : Precedes(sent[k].path, p)
        /\ \A j, k \in 1 .. Len(sent) : j < k => Precedes(sent[j].path, sent[k].path)
        /\ \A i \in DOMAIN seen : Holds(sent, i, seen[i])
        /\ \A k \in 1 .. Len(sent) : sent[k].kind = "hardlink" =>
              \E j \in 1 .. k - 1 : /\ sent[j].path = sent[k].link /\ sent[j].kind # "hardlink"
                                    /\ src.names[sent[j].path] = src.names[sent[k].path]

\* The next path goes, with what is in it or without: all that waits comes after it, and
\* after all that was ahead of what waited before.
LEMMA WalkInTurn ==
    ASSUME Walk, Ordered, feed = "pack", CanPack,
           NEW s, s = Walked \/ s = Append(Walked, SortedChildren(Path))
    PROVE  /\ Path \in Paths /\ Path \in Waiting(stack) /\ InTurn(s)
           /\ \A p \in Waiting(s) : Precedes(Path, p)
           /\ \A q \in Paths : (\A p \in Waiting(stack) : Precedes(q, p)) =>
                                    \A p \in Waiting(s) : Precedes(q, p)
           /\ s = Walked => Waiting(s) \cup {Path} = Waiting(stack)
           /\ s = Append(Walked, SortedChildren(Path)) =>
                  Waiting(s) \cup {Path} = Waiting(stack) \cup Children(src, Path)
<1> DEFINE P == {p \in Paths : Exists(src, p)}
           c == SortedChildren(Path)
<1>1. stack \in Seq(Seq(P)) /\ stack # << >> /\ Last(stack) # << >> /\ InTurn(stack)
  BY DEF Walk, Ordered, CanPack, Pending
<1>2. P \subseteq Paths
  OBVIOUS
<1>3. /\ c \in Seq(Children(src, Path)) /\ c \in Seq(P)
      /\ \A j, k \in 1 .. Len(c) : j < k => NamePlace(Last(c[j])) < NamePlace(Last(c[k]))
      /\ \A p \in Children(src, Path) : \E k \in 1 .. Len(c) : c[k] = p
  BY ChildrenSorted, ChildrenExist DEF SortedChildren
<1>4. \A p \in Children(src, Path) : p \in Paths /\ Front(p) = Path
  BY DEF Children, Parent
<1> HIDE DEF P, c
<1>5. /\ Walked \in Seq(Seq(P)) /\ InTurn(Walked) /\ Path \in Waiting(stack)
      /\ Waiting(stack) = Waiting(Walked) \cup {Path}
      /\ \A p \in Waiting(Walked) : LeftOf(Path, p)
  BY <1>1, PathTaken DEF Walked, Path, Pending
<1>6. Path \in Paths /\ Waiting(stack) \subseteq Paths /\ Waiting(Walked) \subseteq Paths
  BY <1>1, <1>2, <1>5, WaitingExist
<1>7. Append(Walked, c) # Walked
  <2>1. Len(Append(Walked, c)) = Len(Walked) + 1 /\ Len(Walked) \in Nat
    BY <1>3, <1>5, AppendProperties, LenProperties
  <2> QED  BY <2>1
<1>8. CASE s = Walked
  BY <1>5, <1>6, <1>7, <1>8 DEF Precedes
<1>9. CASE s = Append(Walked, c)
  <2>1. \A k \in 1 .. Len(c) : c[k] \in Children(src, Path)
    BY <1>3, ElementOfSeq
  <2>2. ASSUME NEW j \in 1 .. Len(c), NEW k \in 1 .. Len(c), j < k  PROVE LeftOf(c[j], c[k])
    BY <1>3, <1>4, <2>1, <2>2, SiblingsLeft
  <2>3. /\ ToSet(c) = Children(src, Path)
        /\ \A p \in ToSet(c) : p \in Paths /\ Front(p) = Path
    <3>1. ToSet(c) = Children(src, Path)
      BY <1>3, <2>1, LenProperties DEF ToSet
    <3> QED  BY <1>4, <3>1
  <2>4. \A p \in ToSet(c), q \in Waiting(Walked) : LeftOf(p, q)
    BY <1>5, <1>6, <2>3, ChildWith, PathRow
  <2>5. InTurn(s) /\ Waiting(s) = Waiting(Walked) \cup ToSet(c)
    BY <1>3, <1>5, <1>9, <2>2, <2>4, LevelAdded DEF ByName
  <2>6. \A p \in ToSet(c) : Precedes(Path, p)
    BY <1>6, <2>3, ChildWith, PathRow DEF Precedes
  <2>7. \A q \in Paths : Precedes(q, Path) => \A p \in ToSet(c) : Precedes(q, p)
    BY <1>6, <2>3, ChildWith, PathRow
  <2> QED  BY <1>5, <1>6, <1>7, <1>9, <2>3, <2>5, <2>6, <2>7 DEF Precedes
<1> QED  BY <1>8, <1>9 DEF c

\* Start puts an entry behind the others.
LEMMA OneMoreSent ==
    ASSUME Row(sent), NEW k, NEW s, NEW l, NEW b, Start(PackedAs(k, s, l, b))
    PROVE  LET n == Len(sent) + 1
           IN  /\ Row(sent') /\ Len(sent') = n /\ n \in Nat \ {0}
               /\ \A j \in 1 .. Len(sent) : sent'[j] = sent[j]
               /\ sent'[n].path = Path /\ sent'[n].kind = k /\ sent'[n].link = l
               /\ sent'[n] = [PackedAs(k, s, l, b) EXCEPT !.labels = @ \cup everywhere]
<1> DEFINE h == PackedAs(k, s, l, b)
           g == [h EXCEPT !.labels = @ \cup everywhere]
<1>1. g.path = Path /\ g.kind = k /\ g.link = l
  BY DEF PackedAs, Header
<1>2. sent' = Append(sent, g)
  BY DEF Start
<1> HIDE DEF g
<1>3. /\ Row(sent') /\ Len(sent') = Len(sent) + 1 /\ Len(sent) \in Nat
      /\ \A j \in 1 .. Len(sent) : sent'[j] = sent[j]
      /\ Last(sent') = g
  BY <1>2, Appended, RowFacts
<1>4. sent'[Len(sent) + 1] = g
  BY <1>3 DEF Last
<1> QED  BY <1>1, <1>3, <1>4 DEF g

\* An entry for the next path keeps the order; a hard link has to go back to a name that was
\* written, and what is remembered to be one that is.
LEMMA PackedKeeps ==
    ASSUME Walk, Ordered, feed = "pack", feed' = feed, src' = src, CanPack,
           stack' = Walked \/ stack' = Append(Walked, SortedChildren(Path)),
           NEW k, NEW s, NEW l, NEW b, Start(PackedAs(k, s, l, b)),
           k = "hardlink" => Holds(sent, Inode, l),
           \A i \in DOMAIN seen' : \/ i \in DOMAIN seen /\ seen'[i] = seen[i]
                                   \/ i = Inode /\ seen'[i] = Path /\ k # "hardlink"
    PROVE  Ordered'
<1> DEFINE n == Len(sent) + 1
<1>1. /\ Row(sent) /\ InTurn(stack)
      /\ \A i \in 1 .. Len(sent) :
            sent[i].path \in Paths /\ \A p \in Waiting(stack) : Precedes(sent[i].path, p)
      /\ \A i, j \in 1 .. Len(sent) : i < j => Precedes(sent[i].path, sent[j].path)
      /\ \A i \in DOMAIN seen : Holds(sent, i, seen[i])
      /\ \A i \in 1 .. Len(sent) : sent[i].kind = "hardlink" =>
            \E j \in 1 .. i - 1 : /\ sent[j].path = sent[i].link /\ sent[j].kind # "hardlink"
                                  /\ src.names[sent[j].path] = src.names[sent[i].path]
  BY DEF Ordered
<1>2. /\ Row(sent') /\ Len(sent') = n /\ n \in Nat \ {0} /\ Len(sent) \in Nat
      /\ \A j \in 1 .. Len(sent) : sent'[j] = sent[j]
      /\ sent'[n].path = Path /\ sent'[n].kind = k /\ sent'[n].link = l
  BY <1>1, OneMoreSent, RowFacts
<1>3. /\ Path \in Paths /\ Path \in Waiting(stack) /\ InTurn(stack')
      /\ \A p \in Waiting(stack') : Precedes(Path, p)
      /\ \A q \in Paths : (\A p \in Waiting(stack) : Precedes(q, p)) =>
                               \A p \in Waiting(stack') : Precedes(q, p)
  BY WalkInTurn
<1>4. \A j \in 1 .. Len(sent') : j \in 1 .. Len(sent) \/ j = n
  BY <1>2
<1>5. \A j \in 1 .. Len(sent) : j \in 1 .. Len(sent')
  BY <1>2
<1>6. \A j \in 1 .. Len(sent') :
         sent'[j].path \in Paths /\ \A p \in Waiting(stack') : Precedes(sent'[j].path, p)
  <2> TAKE j \in 1 .. Len(sent')
  <2>1. CASE j \in 1 .. Len(sent)
    BY <1>1, <1>2, <1>3, <2>1
  <2>2. CASE j = n
    BY <1>2, <1>3, <2>2
  <2> QED  BY <1>4, <2>1, <2>2
<1>7. ASSUME NEW i \in 1 .. Len(sent'), NEW j \in 1 .. Len(sent'), i < j
      PROVE  Precedes(sent'[i].path, sent'[j].path)
  <2>1. i \in 1 .. Len(sent) /\ sent'[i] = sent[i]
    BY <1>2, <1>4, <1>7
  <2>2. CASE j \in 1 .. Len(sent)
    BY <1>1, <1>2, <1>7, <2>1, <2>2
  <2>3. CASE j = n
    BY <1>1, <1>2, <1>3, <2>1, <2>3
  <2> QED  BY <1>4, <2>2, <2>3
<1>8. ASSUME NEW i, NEW p, Holds(sent, i, p)  PROVE Holds(sent', i, p)
  <2>1. PICK j \in 1 .. Len(sent) :
           sent[j].path = p /\ sent[j].kind # "hardlink" /\ src.names[p] = i
    BY <1>8 DEF Holds
  <2> QED  BY <1>2, <1>5, <2>1 DEF Holds
<1>9. \A i \in DOMAIN seen' : Holds(sent', i, seen'[i])
  <2> SUFFICES ASSUME NEW i \in DOMAIN seen'  PROVE Holds(sent', i, seen'[i])
    OBVIOUS
  <2>1. CASE i \in DOMAIN seen /\ seen'[i] = seen[i]
    BY <1>1, <1>8, <2>1
  <2>2. CASE i = Inode /\ seen'[i] = Path /\ k # "hardlink"
    <3>1. n \in 1 .. Len(sent') /\ src.names[Path] = i
      BY <1>2, <2>2 DEF Inode
    <3> QED  BY <1>2, <2>2, <3>1 DEF Holds
  <2> QED  BY <2>1, <2>2
<1>10. ASSUME NEW i \in 1 .. Len(sent'), sent'[i].kind = "hardlink"
       PROVE  \E j \in 1 .. i - 1 :
                 /\ sent'[j].path = sent'[i].link /\ sent'[j].kind # "hardlink"
                 /\ src'.names[sent'[j].path] = src'.names[sent'[i].path]
  <2>1. CASE i \in 1 .. Len(sent)
    <3>1. PICK j \in 1 .. i - 1 :
             /\ sent[j].path = sent[i].link /\ sent[j].kind # "hardlink"
             /\ src.names[sent[j].path] = src.names[sent[i].path]
      BY <1>1, <1>2, <1>10, <2>1
    <3>2. j \in 1 .. Len(sent)
      BY <1>2, <2>1
    <3> QED  BY <1>2, <2>1, <3>1, <3>2
  <2>2. CASE i = n
    <3>1. Holds(sent, Inode, l)
      BY <1>2, <1>10, <2>2
    <3>2. PICK j \in 1 .. Len(sent) :
             sent[j].path = l /\ sent[j].kind # "hardlink" /\ src.names[l] = Inode
      BY <3>1 DEF Holds
    <3>3. j \in 1 .. i - 1
      BY <1>2, <2>2
    <3> QED  BY <1>2, <2>2, <3>2, <3>3 DEF Inode
  <2> QED  BY <1>4, <2>1, <2>2
<1> QED  BY <1>2, <1>3, <1>6, <1>7, <1>9, <1>10 DEF Ordered, Holds

\* At first the names of the root wait, and nothing is written.
LEMMA InitOrdered == Init => Walk /\ Ordered
<1> SUFFICES ASSUME Init, feed = "pack"  PROVE Walk /\ Ordered
  BY DEF Walk, Ordered
<1>1. src \in SourceTrees /\ seen = << >> /\ sent = << >> /\ PackFrom(src)
  BY DEF Init, PackFrom
<1> DEFINE S == Children(src, << >>)  c == InOrder(S)  P == {p \in Paths : Exists(src, p)}
<1>2. /\ c \in Seq(S) /\ c \in Seq(P)
      /\ \A j, k \in 1 .. Len(c) : j < k => NamePlace(Last(c[j])) < NamePlace(Last(c[k]))
  BY ChildrenSorted, ChildrenExist
<1>3. \A p \in S : p \in Paths /\ Front(p) = << >>
  BY DEF Children, Parent
<1>4. stack = <<c>>
  BY <1>1 DEF PackFrom
<1> HIDE DEF S, c, P
<1>5. ByName(c)
  <2>1. \A k \in 1 .. Len(c) : c[k] \in S
    BY <1>2, ElementOfSeq
  <2> QED  BY <1>2, <1>3, <2>1, SiblingsLeft DEF ByName
<1>6. stack \in Seq(Seq(P)) /\ Len(stack) = 1 /\ stack[1] = c
  BY <1>2, <1>4
<1>7. InTurn(stack)
  BY <1>5, <1>6 DEF InTurn
<1>8. Row(sent) /\ Len(sent) = 0 /\ DOMAIN seen = {}
  BY <1>1, EmptyRow
<1>9. Walk
  BY <1>1, <1>6 DEF Walk, P
<1> QED  BY <1>7, <1>8, <1>9 DEF Ordered

\* Steps of anyone else leave the walk and the archive as they are.
LEMMA OrderStays ==
    ASSUME Walk, Ordered, feed' = feed, feed = "pack" => UNCHANGED <<packVars, sent>>
    PROVE  Walk' /\ Ordered'
<1>1. CASE feed = "pack"
  BY <1>1 DEF Walk, Ordered, Holds, packVars
<1>2. CASE feed # "pack"
  BY <1>2 DEF Walk, Ordered
<1> QED  BY <1>1, <1>2

\* Each step of pack_into.
LEMMA PackInOrder ==
    ASSUME Walk, Ordered, Packs
    PROVE  Walk' /\ Ordered'
<1>1. feed = "pack" /\ feed' = feed /\ PackStep
  BY DEF Packs
<1>2. src \in SourceTrees /\ stack \in Seq(Seq({p \in Paths : Exists(src, p)}))
  BY <1>1 DEF Walk
<1>3. ASSUME CanPack, src' = src,
             stack' = Walked \/ stack' = Append(Walked, SortedChildren(Path))
      PROVE  Walk'
  <2>1. stack' \in Seq(Seq({p \in Paths : Exists(src, p)}))
    BY <1>1, <1>3, WalkGoesOn
  <2> QED  BY <1>2, <1>3, <2>1 DEF Walk
<1>4. CASE Up
  <2>1. stack # << >> /\ stack' = Front(stack) /\ src' = src /\ seen' = seen /\ sent' = sent
    BY <1>4 DEF Up, streamVars, writerVars
  <2>2. InTurn(stack)
    BY <1>1 DEF Ordered
  <2> DEFINE U == Seq({p \in Paths : Exists(src, p)})
  <2>3. stack \in Seq(U)
    BY <1>2
  <2> HIDE DEF U
  <2>4. stack' \in Seq(U) /\ InTurn(stack') /\ Waiting(stack') \subseteq Waiting(stack)
    BY <2>1, <2>2, <2>3, LevelDone
  <2>5. Walk'
    BY <1>2, <2>1, <2>4 DEF Walk, U
  <2> QED  BY <1>1, <2>1, <2>4, <2>5 DEF Ordered, Holds
<1>5. CASE PackAgain
  <2>1. /\ CanPack /\ Inode \in DOMAIN seen /\ stack' = Walked /\ src' = src /\ seen' = seen
        /\ Start(PackedAs("hardlink", 0, seen[Inode], {}))
    BY <1>5 DEF PackAgain
  <2>2. Holds(sent, Inode, seen[Inode])
    BY <1>1, <2>1 DEF Ordered
  <2>3. Ordered'
    BY <1>1, <2>1, <2>2, PackedKeeps
  <2> QED  BY <1>3, <2>1, <2>3
<1>6. CASE PackDir
  <2>1. /\ CanPack /\ stack' = Append(Walked, SortedChildren(Path)) /\ src' = src
        /\ seen' = seen /\ Start(PackedAs("dir", 0, << >>, Stat.labels))
    BY <1>6 DEF PackDir
  <2>2. Ordered'
    BY <1>1, <2>1, PackedKeeps
  <2> QED  BY <1>3, <2>1, <2>2
<1>7. CASE PackLeaf
  <2>1. /\ CanPack /\ stack' = Walked /\ src' = src /\ Inode \notin DOMAIN seen
        /\ \/ seen' = seen
           \/ seen' = [i \in DOMAIN seen \cup {Inode} |-> IF i = Inode THEN Path ELSE seen[i]]
        /\ Start(CASE Stat.kind = "file" ->
                          PackedAs("file", Len(Stat.data), << >>, Stat.labels)
                   [] Stat.kind = "symlink" -> PackedAs("symlink", 0, Stat.data, {})
                   [] OTHER -> PackedAs(Stat.kind, 0, << >>, Stat.labels))
    BY <1>7 DEF PackLeaf
  <2>2. Stat.kind # "hardlink"
    BY <1>1, <1>2, <2>1, WalkGoesOn, NamedInode, SourcesAssumption DEF Stat
  <2>3. PICK k, s, l, b : k # "hardlink" /\ Start(PackedAs(k, s, l, b))
    BY <2>1, <2>2
  <2>4. ASSUME NEW i \in DOMAIN seen'
        PROVE  \/ i \in DOMAIN seen /\ seen'[i] = seen[i]
               \/ i = Inode /\ seen'[i] = Path
    BY <2>1, <2>4
  <2>5. Ordered'
    BY <1>1, <2>1, <2>3, <2>4, PackedKeeps
  <2> QED  BY <1>3, <2>1, <2>5
<1>8. CASE PackContents \/ PackEnds
  <2>1. UNCHANGED <<packVars, sent>>
    BY <1>8 DEF PackContents, PackEnds, Write, Finish
  <2> QED  BY <1>1, <2>1, OrderStays
<1> QED  BY <1>1, <1>4, <1>5, <1>6, <1>7, <1>8 DEF PackStep

\* Unpacking puts nothing into an archive.
LEMMA UnpackSendsNothing ==
    ASSUME UnpackStep  PROVE sent' = sent
BY DEF UnpackStep, SkipRoot, Whiteout, PlaceDir, PlaceSymlink, PlaceDevice, PlaceLink,
       ClearForFile, ReadContents, CreateEmpty, StoreFile, ArchiveEnds, Restamp, Done, EntryFails,
       ContentsFail, NextFails, RestampFails, Stops, Handled, AskNext, streamVars, writerVars

\* Every step.
LEMMA NextInOrder == Walk /\ Ordered /\ [Next]_vars => Walk' /\ Ordered'
<1> SUFFICES ASSUME Walk, Ordered, [Next]_vars  PROVE Walk' /\ Ordered'
  OBVIOUS
<1>1. CASE Packs
  BY <1>1, PackInOrder
<1>2. CASE ToolWrites
  BY <1>2, OrderStays DEF ToolWrites
<1>3. CASE Breaks
  BY <1>3, OrderStays DEF Breaks, Break
<1>4. CASE Reads
  <2>1. UNCHANGED packVars /\ feed' = feed /\ sent' = sent
    BY <1>4, ReaderFrame DEF Reads
  <2> QED  BY <2>1, OrderStays
<1>5. CASE Unpacks
  <2>1. UNCHANGED packVars /\ feed' = feed /\ sent' = sent
    BY <1>5, UnpackSendsNothing DEF Unpacks
  <2> QED  BY <2>1, OrderStays
<1>6. CASE UNCHANGED vars
  <2>1. UNCHANGED packVars /\ feed' = feed /\ sent' = sent
    BY <1>6 DEF vars, streamVars, writerVars
  <2> QED  BY <2>1, OrderStays
<1> QED  BY <1>1, <1>2, <1>3, <1>4, <1>5, <1>6 DEF Next, Finished

\* pack_into writes the paths of the tree in order, each once, a directory ahead of what is in
\* it, and a hard link goes back to a name of the same inode that is written with its contents.
THEOREM ArchiveInOrder == Spec => []PackedInOrder
<1>1. Walk /\ Ordered => PackedInOrder
  <2> SUFFICES ASSUME Ordered, feed = "pack"  PROVE PackedInOrder
    BY DEF PackedInOrder
  <2>1. \A k \in 1 .. Len(sent) : Row(sent[k].path)
    BY PathRow DEF Ordered
  <2>2. \A j, k \in 1 .. Len(sent) : j < k => Before(sent[j].path, sent[k].path)
    BY <2>1, PrecedesIsBefore DEF Ordered
  <2> QED  BY <2>2 DEF Ordered, PackedInOrder
<1> QED  BY <1>1, InitOrdered, NextInOrder, PTL DEF Spec
=============================================================================
