------------------------------ MODULE TarStream ------------------------------
(***************************************************************************)
(* Reading and writing tar (tar.rs).  A stream carries units; BLOCK of     *)
(* them make a block.  The writer puts a header block in front of an       *)
(* entry's contents and pads them to the next block; what the fixed fields *)
(* cannot hold goes in a PAX header ahead of it.  The reader finds its own *)
(* way through the stream, with nothing but the sizes in the headers to    *)
(* tell contents from headers.                                             *)
(*                                                                         *)
(* The stream is a pipe: it holds what one write put in it until the       *)
(* reader has taken that, and it may break off at any unit.                *)
(***************************************************************************)
EXTENDS Naturals, Sequences, SequencesExt, FiniteSets

CONSTANTS
    BLOCK,          \* units in a block
    Chunk,          \* the most units one read of contents asks for
    Long,           \* paths longer than a header field
    Spills          \* link targets that reach past the link field into the prefix

ASSUME StreamAssumption ==
    /\ BLOCK \in Nat \ {0} /\ Chunk \in Nat \ {0}
    /\ Spills \subseteq Long

VARIABLES
    wire,           \* what is written and not yet read, in units
    closed,         \* nothing more will be written
    cut,            \* it broke off before its end
    sent,           \* the headers of the entries put in, as they were meant
    owed,           \* Writer: contents still owed for the entry started
    owedPad,        \* Writer: padding owed after them
    everywhere,     \* the records a tool has declared for every later entry
    answer,         \* Reader::next: "asked", "entry", "end" or "error"
    got,            \* the headers next has returned
    left, pad,      \* Reader: contents of the entry not yet handed over, padding
    global,         \* Reader: PAX records for every entry from here on
    carried         \* next: what it carries from header to header

writerVars == <<closed, cut, sent, owed, owedPad, everywhere>>
readerVars == <<answer, got, left, pad, global, carried>>
streamVars == <<wire, writerVars, readerVars>>

-----------------------------------------------------------------------------
(* Units *)

Zero == [is |-> "zero"]
RestOfBlock == [is |-> "rest"]
Contents(h) == [k \in 1..h.size |-> [is |-> "data", of |-> h.attr, at |-> k]]
Zeros(n) == [k \in 1..n |-> Zero]

\* Mutant: contents that fill their last block padded by another.
PadForAlways(size) == BLOCK - (size % BLOCK)

PadFor(size) == (BLOCK - (size % BLOCK)) % BLOCK

\* The rest of a block after the unit that stands for its fields.
Block(unit) == <<unit>> \o [k \in 1..BLOCK - 1 |-> RestOfBlock]

\* A header, what an entry is apart from its contents.
Kinds == {"file", "hardlink", "symlink", "device", "dir"}
Header(path, kind, attr, time, size, link, labels) ==
    [path |-> path, kind |-> kind, attr |-> attr, time |-> time, size |-> size,
     link |-> link, labels |-> labels]

\* What is left of a text cut to its field, and of a link that ran past its own.
Stump == <<"...">>

\* split_name: the two fields of a long path, cut where no separator serves.
SplitName(path) ==
    IF path \notin Long THEN [name |-> path, prefix |-> << >>]
    ELSE IF Len(path) > 1 THEN [name |-> <<Last(path)>>, prefix |-> Front(path)]
    ELSE [name |-> Stump, prefix |-> << >>]

\* encode: the fields of a header block.  A link is written over whatever lies
\* behind its field and only a prefix that is not empty is written over that.
Encode(h, type, size) ==
    LET split == SplitName(h.path)
    IN  Block([is |-> "head", type |-> type, name |-> split.name,
               prefix |-> IF split.prefix = << >> /\ h.link \in Spills THEN Stump
                          ELSE split.prefix,
               link |-> IF h.link \in Long THEN Stump ELSE h.link,
               size |-> size, attr |-> h.attr, time |-> h.time])

SizeField(h) == IF h.kind = "file" THEN h.size ELSE 0

\* A body of one unit and its padding, carrying extension data (build_pax).
Body(data) == <<[is |-> "body", holds |-> data]>> \o Zeros(PadFor(1))

NoRecords == [path |-> {}, link |-> {}, labels |-> {}]
Extension(type, h, data) ==
    Encode(Header(Stump, "file", h.attr, h.time, 1, << >>, {}), type, 1) \o Body(data)

\* Mutant: a long link target left to the header field.
RecordsPathOnly(h) == [path |-> {p \in {h.path} : p \in Long}, link |-> {}, labels |-> h.labels]

\* The PAX records start() writes: what the fixed fields would lose.
Records(h) ==
    [path   |-> {p \in {h.path} : p \in Long},
     link   |-> {l \in {h.link} : l \in Long},
     labels |-> h.labels]

PaxHeader(h) ==
    IF Records(h) = NoRecords THEN << >> ELSE Extension("x", h, Records(h))

-----------------------------------------------------------------------------
(* Writer *)

\* What happens at the writer's end happens while the reader is looking, and
\* a write waits until it has emptied the pipe.
Looking == answer = "asked" \/ left > 0
CanWrite == ~closed /\ wire = << >> /\ Looking

Padding == Zeros(owedPad)

\* Writer::start, end_entry in it.
Start(h) ==
    /\ CanWrite /\ owed = 0
    /\ wire' = Padding \o PaxHeader(h) \o Encode(h, h.kind, SizeField(h))
    /\ owed' = SizeField(h)
    /\ owedPad' = PadFor(SizeField(h))
    /\ sent' = Append(sent, [h EXCEPT !.labels = @ \cup everywhere])
    /\ UNCHANGED <<closed, cut, everywhere, readerVars>>

\* Writer::write, n units of the contents of the entry started last.
Write(n) ==
    /\ CanWrite /\ n \in 1..owed
    /\ LET h == Last(sent)
       IN  wire' = SubSeq(Contents(h), h.size - owed + 1, h.size - owed + n)
    /\ owed' = owed - n
    /\ UNCHANGED <<closed, cut, sent, owedPad, everywhere, readerVars>>

\* Writer::finish: the padding and two blocks of zeroes.
Finish ==
    /\ CanWrite /\ owed = 0
    /\ wire' = Padding \o Zeros(2 * BLOCK)
    /\ owedPad' = 0 /\ closed' = TRUE
    /\ UNCHANGED <<cut, sent, owed, everywhere, readerVars>>

(* What other tools write: GNU long names and links instead of PAX records, *)
(* names with "./" in front, records for every entry, entries of types      *)
(* nobody else knows, a lone block of zeroes, no end marker.                *)

GnuHeader(h) ==
    (IF h.path \in Long THEN Extension("L", h, <<".">> \o h.path) ELSE << >>)
    \o (IF h.link \in Long THEN Extension("K", h, h.link) ELSE << >>)
    \o Encode([h EXCEPT !.path = IF @ \in Long THEN Stump ELSE <<".">> \o @,
                       !.link = IF @ \in Long THEN Stump ELSE @],
              h.kind, SizeField(h))

\* An entry that means to carry the records declared for all.
StartGnu(h) ==
    /\ CanWrite /\ owed = 0
    /\ wire' = Padding \o GnuHeader(h)
    /\ owed' = SizeField(h)
    /\ owedPad' = PadFor(SizeField(h))
    /\ sent' = Append(sent, [h EXCEPT !.labels = everywhere])
    /\ UNCHANGED <<closed, cut, everywhere, readerVars>>

Declare(labels) ==
    /\ CanWrite /\ owed = 0
    /\ wire' = Padding
               \o Extension("g", Header(Stump, "file", 0, 0, 1, << >>, {}),
                            [NoRecords EXCEPT !.labels = labels])
    /\ everywhere' = labels /\ owedPad' = 0
    /\ UNCHANGED <<closed, cut, sent, owed, readerVars>>

StartUnknown(size) ==
    /\ CanWrite /\ owed = 0
    /\ LET h == Header(Stump, "file", 0, 0, size, << >>, {})
       IN  wire' = Padding \o Encode(h, "sparse", size)
                   \o Contents(h) \o Zeros(PadFor(size))
    /\ owedPad' = 0
    /\ UNCHANGED <<closed, cut, sent, owed, everywhere, readerVars>>

LoneZeroes ==
    /\ CanWrite /\ owed = 0
    /\ wire' = Padding \o Zeros(BLOCK) /\ owedPad' = 0
    /\ UNCHANGED <<closed, cut, sent, owed, everywhere, readerVars>>

\* The contents end on a block boundary and so does the archive.
Leave ==
    /\ CanWrite /\ owed = 0
    /\ wire' = Padding /\ owedPad' = 0 /\ closed' = TRUE
    /\ UNCHANGED <<cut, sent, owed, everywhere, readerVars>>

-----------------------------------------------------------------------------
(* Reader *)

NothingCarried == [scanning |-> FALSE, name |-> {}, link |-> {}, pax |-> NoRecords, zeroes |-> 0]

Asked == answer = "asked"
Scanning == Asked /\ carried.scanning
Ahead == wire[1]
IsZeroBlock == \A k \in 1..BLOCK : wire[k] = Zero

\* The fields of the block ahead, whatever it is: contents read as a header
\* look like one.
Fields ==
    IF Ahead.is = "head" THEN Ahead
    ELSE [is |-> "head", type |-> "file", name |-> Stump, prefix |-> << >>, link |-> << >>,
          size |-> 0, attr |-> 0, time |-> 0]

HasBody(type) == type \notin Kinds

\* How much next takes in one go: the rest of the entry in hand, or a header
\* block and, unless it begins an entry, the body behind it.
Needs ==
    IF ~carried.scanning THEN left + pad
    ELSE IF Len(wire) < BLOCK \/ IsZeroBlock \/ ~HasBody(Fields.type) THEN BLOCK
    ELSE BLOCK + Fields.size + PadFor(Fields.size)

Has == Len(wire) >= Needs
Take(n) == wire' = SubSeq(wire, n + 1, Len(wire))
BodyHeld == wire[BLOCK + 1].holds

\* next begins: skip_rest passes over what the caller left unread.
BeginNext ==
    /\ Asked /\ ~carried.scanning /\ Has
    /\ Take(left + pad)
    /\ left' = 0 /\ pad' = 0
    /\ carried' = [NothingCarried EXCEPT !.scanning = TRUE]
    /\ UNCHANGED <<writerVars, answer, got, global>>

\* skip_rest waits for contents that come in several writes.
Skip ==
    /\ Asked /\ ~carried.scanning /\ left > 0 /\ ~Has /\ wire # << >>
    /\ LET n == IF Len(wire) < left THEN Len(wire) ELSE left
       IN  Take(n) /\ left' = left - n
    /\ UNCHANGED <<writerVars, answer, got, pad, global, carried>>

\* A stream that stops at a block is an archive that ends there.
StreamEnds ==
    /\ Scanning /\ closed /\ wire = << >>
    /\ answer' = "end"
    /\ UNCHANGED <<wire, writerVars, got, left, pad, global, carried>>

\* Mutant: any block of zeroes taken for the end.
ZeroBlockEnds ==
    /\ Scanning /\ Has /\ IsZeroBlock
    /\ Take(BLOCK) /\ answer' = "end"
    /\ UNCHANGED <<writerVars, got, left, pad, global, carried>>

ZeroBlock ==
    /\ Scanning /\ Has /\ IsZeroBlock
    /\ Take(BLOCK)
    /\ carried' = [carried EXCEPT !.zeroes = @ + 1]
    /\ answer' = IF carried.zeroes + 1 >= 2 THEN "end" ELSE answer
    /\ UNCHANGED <<writerVars, got, left, pad, global>>

\* A header block of a type that is not an entry to return: what its body
\* says is carried on, and the count of zero blocks starts again.
Passing(type) == Scanning /\ Has /\ ~IsZeroBlock /\ Fields.type = type
Carry(field, value) ==
    /\ Take(Needs)
    /\ carried' = [carried EXCEPT ![field] = value, !.zeroes = 0]
    /\ UNCHANGED <<writerVars, answer, got, left, pad>>

LongName == Passing("L") /\ Carry("name", {BodyHeld}) /\ UNCHANGED global
LongLink == Passing("K") /\ Carry("link", {BodyHeld}) /\ UNCHANGED global
PaxRecords == Passing("x") /\ Carry("pax", BodyHeld) /\ UNCHANGED global
GlobalRecords == Passing("g") /\ Carry("pax", carried.pax) /\ global' = BodyHeld
SkipUnknown == Passing("sparse") /\ Carry("pax", carried.pax) /\ UNCHANGED global

\* normalise: without the "./" and "/" in front.
Normalise(path) ==
    LET named == {k \in 1..Len(path) : path[k] # "."}
    IN  IF named = {} THEN << >>
        ELSE SubSeq(path, CHOOSE k \in named : \A j \in named : k <= j, Len(path))

Else(found, other) == IF found # {} THEN found ELSE other
The(found) == CHOOSE x \in found : TRUE

\* The header next returns: a PAX record beats a global one, that a GNU long
\* name, and that the fields.
Resolved ==
    LET f == Fields
    IN  Header(Normalise(The(Else(carried.pax.path, Else(global.path,
                                 Else(carried.name, {f.prefix \o f.name}))))),
               f.type, f.attr, f.time, IF f.type = "file" THEN f.size ELSE 0,
               The(Else(carried.pax.link, Else(global.link, Else(carried.link, {f.link})))),
               carried.pax.labels \cup global.labels)

Deliver ==
    /\ Scanning /\ Has /\ ~IsZeroBlock /\ Fields.type \in Kinds
    /\ Take(BLOCK)
    /\ got' = Append(got, Resolved)
    /\ left' = Resolved.size /\ pad' = PadFor(Resolved.size)
    /\ answer' = "entry" /\ carried' = NothingCarried
    /\ UNCHANGED <<writerVars, global>>

\* Mutant: a read of nothing is taken for one that came too early.
TruncatedRetries ==
    /\ Asked /\ closed /\ ~Has
    /\ (carried.scanning => wire # << >>)
    /\ UNCHANGED streamVars

\* The stream ends inside something next has to take whole.
Truncated ==
    /\ Asked /\ closed /\ ~Has
    /\ (carried.scanning => wire # << >>)
    /\ answer' = "error"
    /\ UNCHANGED <<wire, writerVars, got, left, pad, global, carried>>

\* The stream breaks off short of what the reader takes next: a sink that
\* fails, a pipe whose writer is gone.  A break further on shows only when the
\* reader gets there.
Break ==
    /\ ~closed /\ Looking
    /\ \E n \in 0..Len(wire) :
          /\ n < IF Asked THEN Needs ELSE 1
          /\ wire' = SubSeq(wire, 1, n)
    /\ closed' = TRUE /\ cut' = TRUE
    /\ UNCHANGED <<sent, owed, owedPad, everywhere, readerVars>>

ReaderStep ==
    \/ BeginNext \/ Skip \/ StreamEnds \/ ZeroBlock \/ LongName \/ LongLink
    \/ PaxRecords \/ GlobalRecords \/ SkipUnknown \/ Deliver \/ Truncated

\* Reader::read: up to n units of the entry in hand; none at its end.
Readable(n) == n \in 1..Chunk /\ n <= left /\ n <= Len(wire)
Read(n) == Take(n) /\ left' = left - n
=============================================================================
