------------------------------ MODULE Inflate ------------------------------
(***************************************************************************)
(* gzip's decompressor (usr.bin/gzip/inflate.c).                           *)
(*                                                                         *)
(* The state of a run is [pos, slide, w, out, ok]: the next bit, the       *)
(* circular window and the place in it, what was flushed, and whether all  *)
(* went well.  Bits are read one by one, which stands for NEEDBITS and     *)
(* DUMPBITS: what is left of a byte at the end is given back.              *)
(***************************************************************************)
EXTENDS Huffman

CONSTANTS
    SlideSize,              \* WSIZE
    LiteralCodes,           \* 256 in the code: literals are the codes below
    CpLens, CpLext,         \* base and extra bits of each length code
    CpDist, CpDext,         \* and of each distance code
    FixedLens, FixedDist,   \* code lengths of inflate_fixed, and of its distances
    Border, BorderBits,     \* order and size of the lengths of the length codes
    TableBits,              \* sizes of the three counts
    Repeat,                 \* 16 in the code: the first of the three repeating codes
    UnitBits, LengthBits    \* bits of a byte, and of a stored length

Failed(s) == [s EXCEPT !.ok = FALSE]
Left(bits, s, n) == s.pos + n - 1 <= Len(bits)
Field(bits, pos, n) == Value(SubSeq(bits, pos, pos + n - 1))

\* A byte goes to the window, which is flushed when it is full.
Put(s, c) ==
    LET slide == [s.slide EXCEPT ![s.w] = c]
    IN  IF s.w + 1 = SlideSize
        THEN [s EXCEPT !.slide = slide, !.w = 0,
                       !.out = @ \o [i \in 1..SlideSize |-> slide[i - 1]]]
        ELSE [s EXCEPT !.slide = slide, !.w = @ + 1]

\* Bytes are copied one by one, from d on, around the window: a copy may overlap what
\* it writes.
RECURSIVE CopySlide(_, _, _)
CopySlide(s, d, n) ==
    IF n = 0 THEN s ELSE CopySlide(Put(s, s.slide[d]), (d + 1) % SlideSize, n - 1)

\* The length, then the code and the extra bits of the distance.  l is the length code.
CopyMatch(bits, s, l, td) ==
    LET n == CpLens[l] + Field(bits, s.pos, CpLext[l])
        at == s.pos + CpLext[l]
        found == Lookup(td, bits, at)
        code == CHOOSE c \in found : TRUE
        after == at + Len(td[code])
        d == CpDist[code + 1] + Field(bits, after, CpDext[code + 1])
    IN  IF found = {} \/ l > Len(CpLens) THEN Failed(s)
        ELSE CopySlide([s EXCEPT !.pos = after + CpDext[code + 1]], (s.w - d) % SlideSize, n)

RECURSIVE InflateCodes(_, _, _, _)
InflateCodes(bits, s, tl, td) ==
    LET found == Lookup(tl, bits, s.pos)
        code == CHOOSE c \in found : TRUE
        next == [s EXCEPT !.pos = @ + Len(tl[code])]
    IN  CASE ~s.ok \/ found = {} -> Failed(s)
          [] s.ok /\ found # {} /\ code = LiteralCodes -> next
          [] s.ok /\ found # {} /\ code < LiteralCodes -> InflateCodes(bits, Put(next, code), tl, td)
          [] OTHER -> InflateCodes(bits, CopyMatch(bits, next, code - LiteralCodes, td), tl, td)

\* From the next byte on: the length, its complement, the bytes.
InflateStored(bits, s) ==
    LET at == s.pos + ((1 - s.pos) % UnitBits)
        n == Field(bits, at, LengthBits)
        bytes == [i \in 1..n |-> Field(bits, at + 2 * LengthBits + (i - 1) * UnitBits, UnitBits)]
        end == at + 2 * LengthBits + n * UnitBits
    IN  IF n + Field(bits, at + LengthBits, LengthBits) # 2^LengthBits - 1 THEN Failed(s)
        ELSE FoldLeft(Put, [s EXCEPT !.pos = end], bytes)

InflateFixed(bits, s) ==
    InflateCodes(bits, s, HuftBuild(FixedLens),
                 HuftBuild([n \in 0..(Len(CpDist) - 1) |-> FixedDist]))

\* The lengths of both trees, in one sequence of n: a repetition may not pass the end.
RECURSIVE ReadLengths(_, _, _, _, _)
ReadLengths(bits, s, table, n, len) ==
    LET found == Lookup(table, bits, s.pos)
        code == CHOOSE c \in found : TRUE
        at == s.pos + Len(table[code])
        repeat == CASE code = Repeat -> [min |-> 3, bits |-> 2]
                    [] code = Repeat + 1 -> [min |-> 3, bits |-> 3]
                    [] OTHER -> [min |-> 11, bits |-> 7]
        times == IF code < Repeat THEN 1 ELSE repeat.min + Field(bits, at, repeat.bits)
        value == CASE code < Repeat -> code
                   [] code = Repeat -> IF len = <<>> THEN 0 ELSE Last(len)
                   [] OTHER -> 0
        end == IF code < Repeat THEN at ELSE at + repeat.bits
    IN  CASE ~s.ok \/ Len(len) = n -> [s |-> s, len |-> len]
          [] s.ok /\ Len(len) # n /\ (found = {} \/ Len(len) + times > n) -> [s |-> Failed(s), len |-> len]
          [] OTHER -> ReadLengths(bits, [s EXCEPT !.pos = end], table, n,
                                  len \o [i \in 1..times |-> value])

\* The third tree must be complete, and the other two.
InflateDynamic(bits, s) ==
    LET nl == LiteralCodes + 1 + Field(bits, s.pos, TableBits[1])
        nd == 1 + Field(bits, s.pos + TableBits[1], TableBits[2])
        nb == 4 + Field(bits, s.pos + TableBits[1] + TableBits[2], TableBits[3])
        at == s.pos + TableBits[1] + TableBits[2] + TableBits[3]
        bl == [c \in 0..(Len(Border) - 1) |->
                  LET i == CHOOSE j \in DOMAIN Border : Border[j] = c
                  IN  IF i <= nb THEN Field(bits, at + (i - 1) * BorderBits, BorderBits) ELSE 0]
        read == ReadLengths(bits, [s EXCEPT !.pos = at + nb * BorderBits], HuftBuild(bl), nl + nd, <<>>)
        ll == [c \in 0..(nl - 1) |-> read.len[c + 1]]
        dl == [c \in 0..(nd - 1) |-> read.len[nl + c + 1]]
    IN  IF \/ nl > LiteralCodes + 1 + Len(CpLens) \/ nd > Len(CpDist)
           \/ HuftStatus(bl) # 0 \/ \A c \in DOMAIN bl : bl[c] = 0
           \/ ~read.s.ok \/ HuftStatus(ll) # 0 \/ HuftStatus(dl) # 0
        THEN Failed(s)
        ELSE InflateCodes(bits, read.s, HuftBuild(ll), HuftBuild(dl))

InflateBlock(bits, s) ==
    LET type == Field(bits, s.pos + 1, 2)
        start == [s EXCEPT !.pos = @ + 3]
    IN  CASE type = 0 -> InflateStored(bits, start)
          [] type = 1 -> InflateFixed(bits, start)
          [] type = 2 -> InflateDynamic(bits, start)
          [] OTHER -> Failed(s)

RECURSIVE InflateBlocks(_, _, _)
InflateBlocks(bits, s, last) ==
    IF last \/ ~s.ok THEN s
    ELSE IF ~Left(bits, s, 3) THEN Failed(s)
    ELSE InflateBlocks(bits, InflateBlock(bits, s), bits[s.pos] = 1)

\* What is left in the window comes after what was flushed.
FlushWindow(s) == [ok |-> s.ok, out |-> s.out \o [i \in 1..s.w |-> s.slide[i - 1]]]

\* The text, with ok = FALSE if the bits are not those of a compressed file.
InflateAll(bits) ==
    FlushWindow(InflateBlocks(bits, [pos |-> 1, slide |-> [i \in 0..(SlideSize - 1) |-> 0], w |-> 0,
                                     out |-> <<>>, ok |-> TRUE], FALSE))

=============================================================================
