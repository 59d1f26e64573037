------------------------------ MODULE Deflate ------------------------------
(***************************************************************************)
(* gzip's compressor (usr.bin/gzip): the sliding window and the hash       *)
(* chains of deflate.c, the blocks of trees.c and the bits of bits.c.      *)
(*                                                                         *)
(* One action is one round of the loop in deflate() or deflate_fast(), or  *)
(* one call of fill_window(), whose read may return less than asked for.   *)
(* All sizes are parameters, the C constants in small; match lengths are   *)
(* at least 3, as in the code.  Bytes are numbers below Literals.          *)
(***************************************************************************)
EXTENDS Huffman

CONSTANTS
    Inputs,         \* files to compress, sequences of bytes
    Levels,         \* [n, good, lazy, nice, chain]: levels, with their row of configuration_table
    WSIZE,          \* half of the window
    MAX_MATCH,
    HASH_BITS,
    H_SHIFT,
    TOO_FAR,
    Literals,
    ExtraLbits, ExtraDbits,     \* extra bits of each length and distance code
    StaticLens, StaticDist,     \* code lengths of the static trees
    MAX_BITS, MAX_BL_BITS,
    BlOrder,        \* the order in which lengths of length codes are sent
    BlBits,         \* bits of such a length
    CountBits,      \* bits of the three counts before dynamic trees
    LIT_BUFSIZE,    \* bound: literals and matches of a block
    TallyCheck,     \* how often ct_tally considers ending a block
    ByteBits, ShortBits, \* bits of a byte, and of a stored length
    Reads           \* what a read may return, if less than asked for

MIN_MATCH == 3
MIN_LOOKAHEAD == MAX_MATCH + MIN_MATCH + 1
MAX_DIST == WSIZE - MIN_LOOKAHEAD
NIL == 0
END_BLOCK == Literals
LENGTH_CODES == Len(ExtraLbits)
L_CODES == Literals + 1 + LENGTH_CODES
D_CODES == Len(ExtraDbits)
BL_CODES == MAX_BITS + 4
REP_3_6 == MAX_BITS + 1

VARIABLES
    input,      \* the file
    nread,      \* bytes of it that have been read
    level,
    window, strstart, block_start, lookahead, eofile,
    dict,       \* [ins_h, head, prev]
    match,      \* [length, start]: match_length and match_start
    available,  \* match_available
    tokens,     \* l_buf, d_buf and flag_buf: [dist, lc]
    bits,       \* what has been written
    at          \* "fill", "match", "finish" or "done"

vars == <<input, nread, level, window, strstart, block_start, lookahead, eofile,
          dict, match, available, tokens, bits, at>>
file == <<input, nread, level>>

Fast == level.n <= 3

-----------------------------------------------------------------------------
(* trees.c: the codes of a token                                                *)

\* The first value each code stands for.
Base(extra) == [c \in DOMAIN extra |-> SumFunction([i \in 1..(c - 1) |-> 2^extra[i]])]

\* The best code for the longest match is the last one, which has no extra bits.
LengthCode(lc) ==
    IF lc = MAX_MATCH - MIN_MATCH THEN LENGTH_CODES
    ELSE Max({c \in 1..(LENGTH_CODES - 1) : Base(ExtraLbits)[c] <= lc})
DCode(d) == Max({c \in 1..D_CODES : Base(ExtraDbits)[c] <= d})

\* The first code of dyn_ltree or dyn_dtree a token uses, and its distance code.
LTreeCode(t) == IF t.dist = 0 THEN t.lc ELSE Literals + LengthCode(t.lc)
LFreq(toks) == [n \in 0..(L_CODES - 1) |->
    Cardinality({i \in DOMAIN toks : LTreeCode(toks[i]) = n}) + (IF n = END_BLOCK THEN 1 ELSE 0)]
DFreq(toks) == [n \in 0..(D_CODES - 1) |->
    Cardinality({i \in DOMAIN toks : toks[i].dist # 0 /\ DCode(toks[i].dist - 1) = n + 1})]

\* compress_block(): the bits of one token.
TokenBits(t, lcodes, dcodes) ==
    IF t.dist = 0 THEN lcodes[t.lc]
    ELSE LET lcode == LengthCode(t.lc)
             dcode == DCode(t.dist - 1)
         IN  lcodes[Literals + lcode]
             \o (IF ExtraLbits[lcode] = 0 THEN <<>>
                 ELSE Bits(t.lc - Base(ExtraLbits)[lcode], ExtraLbits[lcode]))
             \o dcodes[dcode - 1]
             \o Bits(t.dist - 1 - Base(ExtraDbits)[dcode], ExtraDbits[dcode])

CompressBlock(toks, lcodes, dcodes) ==
    FlattenSeq([i \in DOMAIN toks |-> TokenBits(toks[i], lcodes, dcodes)]) \o lcodes[END_BLOCK]

\* opt_len and static_len: what the tokens take with given lengths.
BlockLength(toks, llen, dlen) ==
    Len(CompressBlock(toks, [n \in DOMAIN llen |-> [i \in 1..llen[n] |-> 0]],
                            [n \in DOMAIN dlen |-> [i \in 1..dlen[n] |-> 0]]))

-----------------------------------------------------------------------------
(* flush_block(): dynamic trees, static trees or stored, whichever is shortest. *)

StaticCodes == GenCodes(StaticLens, MAX_BITS)
StaticDCodes == [n \in 0..(D_CODES - 1) |-> CodeBits(n, StaticDist)]

\* build_bl_tree(): the tree for the lengths of the other two.
WithBlTree(llen, dlen) ==
    LET none == [n \in 0..(BL_CODES - 1) |-> 0]
        freq == ScanTree(ScanTree(none, llen, MaxCode(llen), REP_3_6),
                         dlen, MaxCode(dlen), REP_3_6)
    IN  [l |-> llen, d |-> dlen, bl |-> BuildTree(freq, MAX_BL_BITS)]

DynamicTrees(toks) ==
    WithBlTree(BuildTree(LFreq(toks), MAX_BITS), BuildTree(DFreq(toks), MAX_BITS))

\* At least four lengths of the third tree are sent.
BlCodes(bl) == Max({4} \cup {i \in DOMAIN BlOrder : bl[BlOrder[i]] # 0})

SendAllTrees(trees) ==
    LET codes == GenCodes(trees.bl, MAX_BITS)
        sent(len) == LET s == SendTree(len, MaxCode(len), REP_3_6)
                     IN  FlattenSeq([i \in DOMAIN s |-> codes[s[i].code] \o s[i].extra])
    IN  Bits(MaxCode(trees.l) - Literals, CountBits[1])
        \o Bits(MaxCode(trees.d), CountBits[2])
        \o Bits(BlCodes(trees.bl) - 4, CountBits[3])
        \o FlattenSeq([i \in 1..BlCodes(trees.bl) |-> Bits(trees.bl[BlOrder[i]], BlBits)])
        \o sent(trees.l) \o sent(trees.d)

\* bi_windup(): zeros up to the next byte.
Windup(out) == out \o [i \in 1..((-Len(out)) % ByteBits) |-> 0]

\* copy_block() with a header: the length and its complement, then the bytes.
CopyBlock(out, bytes) ==
    Windup(out) \o Bits(Len(bytes), ShortBits) \o Bits(2^ShortBits - 1 - Len(bytes), ShortBits)
    \o FlattenSeq([i \in DOMAIN bytes |-> Bits(bytes[i], ByteBits)])

InBytes(n) == (n + 3 + ByteBits - 1) \div ByteBits

\* The block as trees has them, their bits dyn, or with the static trees, of the lengths
\* given in bytes, or stored.
BlockOfType(type, toks, stored, inWindow, trees, dyn, optLen, staticLen) ==
    CASE inWindow /\ Len(stored) + 2 * (ShortBits \div ByteBits) <= Min({optLen, staticLen}) ->
           CopyBlock(type[0], stored)
      [] ~(inWindow /\ Len(stored) + 2 * (ShortBits \div ByteBits) <= Min({optLen, staticLen}))
         /\ staticLen <= optLen ->
           type[1] \o CompressBlock(toks, StaticCodes, StaticDCodes)
      [] OTHER ->
           type[2] \o dyn \o CompressBlock(toks, GenCodes(trees.l, MAX_BITS), GenCodes(trees.d, MAX_BITS))

ShortestBlock(type, toks, stored, inWindow, trees, dyn) ==
    BlockOfType(type, toks, stored, inWindow, trees, dyn,
        InBytes(BlockLength(toks, trees.l, trees.d) + Len(dyn)),
        InBytes(BlockLength(toks, StaticLens, [n \in 0..(D_CODES - 1) |-> StaticDist])))

WithTrees(type, toks, stored, inWindow, trees) ==
    ShortestBlock(type, toks, stored, inWindow, trees, SendAllTrees(trees))

\* stored is the text of the block, if it has not left the window.
FlushBlock(out, toks, stored, inWindow, eof) ==
    LET type == [t \in 0..2 |-> out \o Bits(2 * t + (IF eof THEN 1 ELSE 0), 3)]
        block == WithTrees(type, toks, stored, inWindow, DynamicTrees(toks))
    IN  IF eof THEN Windup(block) ELSE block

-----------------------------------------------------------------------------
(* deflate.c: the window and the dictionary                                     *)

\* Behind the data the window holds whatever it held before.
WindowDomain == 0..(2 * WSIZE + MAX_MATCH)

XorBits(a, b, n) == Value([i \in 1..n |-> (Bits(a, n)[i] + Bits(b, n)[i]) % 2])
UpdateHash(h, c) == XorBits((h * 2^H_SHIFT) % 2^HASH_BITS, c % 2^HASH_BITS, HASH_BITS)
FirstHash(w) == UpdateHash(UpdateHash(0, w[0]), w[1])

InsertString(d, s) ==
    LET h == UpdateHash(d.ins_h, window[s + MIN_MATCH - 1])
    IN  [ins_h |-> h, head |-> [d.head EXCEPT ![h] = s],
         prev |-> [d.prev EXCEPT ![s % WSIZE] = d.head[h]]]
RECURSIVE InsertStrings(_, _, _)
InsertStrings(d, first, last) ==
    IF first > last THEN d ELSE InsertStrings(InsertString(d, first), first + 1, last)

\* Mutant: the last byte is not compared.
MutMatchLength(m) ==
    Max({3} \cup {n \in 4..MAX_MATCH :
                    \A i \in 3..(n - 2) : window[m + i] = window[strstart + i]})

\* How many bytes at m equal those at strstart.  The third is not compared: it is
\* equal if the first two and the hash are.
MatchLength(m) ==
    Max({3} \cup {n \in 4..MAX_MATCH :
                    \A i \in 3..(n - 1) : window[m + i] = window[strstart + i]})

\* longest_match(): along the chain, as far as it may be searched.
RECURSIVE Search(_, _, _, _)
Search(d, cur, best, chain) ==
    LET fits == /\ window[cur + best.length] = window[strstart + best.length]
                /\ window[cur + best.length - 1] = window[strstart + best.length - 1]
                /\ window[cur] = window[strstart] /\ window[cur + 1] = window[strstart + 1]
        better == fits /\ MatchLength(cur) > best.length
        new == IF better THEN [length |-> MatchLength(cur), start |-> cur] ELSE best
        next == d.prev[cur % WSIZE]
        limit == IF strstart > MAX_DIST THEN strstart - MAX_DIST ELSE NIL
    IN  IF (better /\ new.length >= level.nice) \/ next <= limit \/ chain = 1
        THEN new ELSE Search(d, next, new, chain - 1)

LongestMatch(d, cur, prevLength, start) ==
    Search(d, cur, [length |-> prevLength, start |-> start],
           IF prevLength >= level.good THEN level.chain \div 4 ELSE level.chain)

\* The match at strstart, if one may be looked for, no longer than what is left.
FindMatch(d, cur, prevLength, start, none) ==
    IF cur # NIL /\ strstart - cur <= MAX_DIST
    THEN LET m == LongestMatch(d, cur, prevLength, start)
         IN  [m EXCEPT !.length = Min({@, lookahead})]
    ELSE [length |-> none, start |-> start]

-----------------------------------------------------------------------------
\* ct_tally(): whether the block is to end after these tokens.
BlockEnds(toks, here) ==
    LET n == Len(toks)
        dists == Cardinality({i \in 1..n : toks[i].dist # 0})
        freq == DFreq(toks)
        outLength == (n * ByteBits + SumFunction([c \in 0..(D_CODES - 1) |->
                                              freq[c] * (StaticDist + ExtraDbits[c + 1])])) \div ByteBits
    IN  \/ /\ level.n > 2 /\ n % TallyCheck = 0 /\ dists < n \div 2
           /\ outLength < (here - block_start) \div 2
        \/ n = LIT_BUFSIZE - 1

\* A token is added, and the block flushed if it is to end: ct_tally and FLUSH_BLOCK.
\* counted is where strstart is when ct_tally is called, end where the block ends.
Tally(t, counted, end) ==
    LET toks == Append(tokens, t)
    IN  IF BlockEnds(toks, counted)
        THEN /\ bits' = FlushBlock(bits, toks, [i \in 1..(end - block_start) |-> window[block_start + i - 1]],
                                   block_start >= 0, FALSE)
             /\ tokens' = <<>> /\ block_start' = end
        ELSE tokens' = toks /\ UNCHANGED <<bits, block_start>>

\* After each round the window is filled as long as it can be, then the next begins.
Continue(left) ==
    at' = IF left < MIN_LOOKAHEAD /\ ~eofile THEN "fill" ELSE IF left = 0 THEN "finish" ELSE "match"

Advance(d, m, n) ==
    /\ dict' = d /\ match' = m
    /\ strstart' = strstart + n /\ lookahead' = lookahead - n
    /\ Continue(lookahead - n)
    /\ UNCHANGED <<file, window, eofile>>

\* One round of deflate(): a match is taken only if the next place has no better one.
Deflate ==
    /\ at = "match" /\ ~Fast
    /\ LET d == InsertString(dict, strstart)
           cur == d.prev[strstart % WSIZE]
           prev == match
           found == IF prev.length < level.lazy
                    THEN FindMatch(d, cur, prev.length, prev.start, MIN_MATCH - 1)
                    ELSE [length |-> MIN_MATCH - 1, start |-> prev.start]
           new == IF found.length = MIN_MATCH /\ strstart - found.start > TOO_FAR
                  THEN [found EXCEPT !.length = MIN_MATCH - 1] ELSE found
           taken == prev.length >= MIN_MATCH /\ new.length <= prev.length
       IN  /\ IF taken \/ available
              THEN Tally(IF taken
                         THEN [dist |-> strstart - 1 - prev.start, lc |-> prev.length - MIN_MATCH]
                         ELSE [dist |-> 0, lc |-> window[strstart - 1]],
                         strstart, strstart + IF taken THEN prev.length - 1 ELSE 0)
              ELSE UNCHANGED <<tokens, bits, block_start>>
           /\ available' = ~taken
           /\ IF taken
              THEN Advance(InsertStrings(d, strstart + 1, strstart + prev.length - 2),
                           [new EXCEPT !.length = MIN_MATCH - 1], prev.length - 1)
              ELSE Advance(d, new, 1)

\* One round of deflate_fast(): the first match is taken, and its strings enter the
\* dictionary only if it is short.
DeflateFast ==
    /\ at = "match" /\ Fast
    /\ LET d == InsertString(dict, strstart)
           cur == d.prev[strstart % WSIZE]
           m == FindMatch(d, cur, MIN_MATCH - 1, match.start, 0)
           skipped == UpdateHash(window[strstart + m.length] % 2^HASH_BITS,
                                 window[strstart + m.length + 1])
           long == m.length >= MIN_MATCH
           n == IF long THEN m.length ELSE 1
       IN  /\ Tally(IF long THEN [dist |-> strstart - m.start, lc |-> m.length - MIN_MATCH]
                            ELSE [dist |-> 0, lc |-> window[strstart]],
                    strstart, strstart + n)
           /\ Advance(CASE ~long -> d
                        [] long /\ m.length <= level.lazy ->
                              InsertStrings(d, strstart + 1, strstart + m.length - 1)
                        [] OTHER -> [d EXCEPT !.ins_h = skipped],
                      IF long THEN [m EXCEPT !.length = 0] ELSE m, n)
    /\ UNCHANGED available

\* fill_window(): the upper half of the window moves down when the text has come near
\* its end; then as much is read as fits, or less.  Before the first round, lm_init()
\* calls it, and hashes the first two bytes when it is done.
FillWindow ==
    /\ at = "fill"
    /\ LET slide == strstart >= WSIZE + MAX_DIST
           by == IF slide THEN WSIZE ELSE 0
           older(p) == IF p >= WSIZE THEN p - WSIZE ELSE NIL
           old == IF slide THEN [i \in WindowDomain |-> IF i < WSIZE THEN window[i + WSIZE] ELSE window[i]]
                  ELSE window
           room == 2 * WSIZE - lookahead - (strstart - by)
           left == Len(input) - nread
       IN  \E n \in {Min({room, left})} \cup {r \in Reads : r < Min({room, left})} :
             /\ window' = [i \in WindowDomain |->
                    LET k == i - (strstart - by + lookahead)
                    IN  IF k \in 0..(n - 1) THEN input[nread + k + 1] ELSE old[i]]
             /\ strstart' = strstart - by /\ block_start' = block_start - by
             /\ match' = [match EXCEPT !.start = @ - by]
             /\ dict' = [ins_h |-> IF strstart = 0 THEN FirstHash(window') ELSE dict.ins_h,
                         head |-> IF slide THEN [h \in DOMAIN dict.head |-> older(dict.head[h])]
                                  ELSE dict.head,
                         prev |-> IF slide THEN [i \in DOMAIN dict.prev |-> older(dict.prev[i])]
                                  ELSE dict.prev]
             /\ nread' = nread + n /\ lookahead' = lookahead + n
             /\ eofile' = (n = 0)
             /\ at' = CASE lookahead + n < MIN_LOOKAHEAD /\ n # 0 -> "fill"
                        [] lookahead + n = 0 -> "finish"
                        [] OTHER -> "match"
    /\ UNCHANGED <<input, level, available, tokens, bits>>

\* The last literal, and the last block.
Finish ==
    /\ at = "finish"
    /\ LET toks == IF available THEN Append(tokens, [dist |-> 0, lc |-> window[strstart - 1]]) ELSE tokens
       IN  bits' = FlushBlock(bits, toks,
                       [i \in 1..(strstart - block_start) |-> window[block_start + i - 1]],
                       block_start >= 0, TRUE)
    /\ tokens' = <<>> /\ at' = "done"
    /\ UNCHANGED <<file, window, strstart, block_start, lookahead, eofile, dict, match, available>>

\* lm_init(): the window has been read for the first time, and read again until there
\* is enough ahead.
DeflateInit ==
    /\ input \in Inputs /\ level \in Levels
    /\ \E n \in {Min({2 * WSIZE, Len(input)})} \cup {r \in Reads : r < Min({2 * WSIZE, Len(input)})} :
         /\ nread = n /\ lookahead = n /\ eofile = (n = 0)
         /\ window = [i \in WindowDomain |-> IF i < n THEN input[i + 1] ELSE 0]
         /\ at = IF n = 0 THEN "finish" ELSE IF n < MIN_LOOKAHEAD THEN "fill" ELSE "match"
    /\ strstart = 0 /\ block_start = 0
    /\ dict = [ins_h |-> FirstHash(window),
               head |-> [h \in 0..(2^HASH_BITS - 1) |-> NIL],
               prev |-> [i \in 0..(WSIZE - 1) |-> NIL]]
    /\ match = [length |-> IF Fast THEN 0 ELSE MIN_MATCH - 1, start |-> 0]
    /\ available = FALSE /\ tokens = <<>> /\ bits = <<>>

DeflateNext == Deflate \/ DeflateFast \/ FillWindow \/ Finish

=============================================================================
