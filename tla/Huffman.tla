------------------------------ MODULE Huffman ------------------------------
(***************************************************************************)
(* The codes of gzip: how trees.c builds them and sends them, and how      *)
(* inflate.c builds its tables from what was sent.                         *)
(*                                                                         *)
(* A tree is a function from its codes, from 0 on, to frequencies or to    *)
(* lengths; a code is the sequence of its bits in the order they are sent, *)
(* so that bi_reverse is not needed.  inflate's tables of several levels   *)
(* are abstracted to the set of codes they recognise.                      *)
(***************************************************************************)
EXTENDS Integers, Sequences, SequencesExt, FiniteSetsExt, Functions

\* The n low bits of v, the lowest first, as send_bits sends them.
Bits(v, n) == [i \in 1..n |-> (v \div 2^(i - 1)) % 2]
Value(bits) == FoldFunction(LAMBDA a, b : a + b, 0, [i \in 1..Len(bits) |-> bits[i] * 2^(i - 1)])

\* A Huffman code is sent with its highest bit first.
CodeBits(v, n) == Reverse(Bits(v, n))

-----------------------------------------------------------------------------
(* build_tree(): nodes are codes and, from elems on, the nodes that join two.   *)

Smaller(t, n, m) ==
    t.freq[n] < t.freq[m] \/ (t.freq[n] = t.freq[m] /\ t.depth[n] <= t.depth[m])

RECURSIVE PqDownHeap(_, _, _)
PqDownHeap(t, heap, k) ==
    LET left == 2 * k
        j == IF left < Len(heap) /\ Smaller(t, heap[left + 1], heap[left]) THEN left + 1 ELSE left
    IN  IF left > Len(heap) \/ Smaller(t, heap[k], heap[j])
        THEN heap
        ELSE PqDownHeap(t, [heap EXCEPT ![k] = heap[j], ![j] = heap[k]], j)

\* The heap without its first element, which the last one replaces.
PqRemove(t, heap) == PqDownHeap(t, [Front(heap) EXCEPT ![1] = Last(heap)], 1)

\* At least two codes get a frequency: a format of one code has no bits to send.
RECURSIVE ForceTwo(_)
ForceTwo(freq) ==
    LET used == {n \in DOMAIN freq : freq[n] # 0}
        top == IF used = {} THEN -1 ELSE Max(used)
        new == IF top < 2 THEN top + 1 ELSE 0
    IN  IF Cardinality(used) >= 2 THEN freq ELSE ForceTwo([freq EXCEPT ![new] = 1])

\* The two least frequent nodes get a father, until one node is left.  order has
\* the nodes in the order in which they were removed.
RECURSIVE Combine(_, _, _, _)
Combine(t, heap, order, node) ==
    IF Len(heap) < 2 THEN [t |-> t, order |-> Append(order, heap[1])]
    ELSE LET n == heap[1]
             rest == PqRemove(t, heap)
             m == rest[1]
             joined == [freq |-> t.freq @@ (node :> t.freq[n] + t.freq[m]),
                        depth |-> t.depth @@ (node :> Max({t.depth[n], t.depth[m]}) + 1),
                        dad |-> (n :> node) @@ (m :> node) @@ t.dad]
         IN  Combine(joined, PqDownHeap(joined, [rest EXCEPT ![1] = node], 1),
                     order \o <<n, m>>, node + 1)

RECURSIVE Heapify(_, _, _)
Heapify(t, heap, k) == IF k = 0 THEN heap ELSE Heapify(t, PqDownHeap(t, heap, k), k - 1)

\* gen_bitlen(): a node is one deeper than its father, but not deeper than maxLength.
RECURSIVE Lengths(_, _, _, _)
Lengths(t, order, len, maxLength) ==
    IF order = <<>> THEN len
    ELSE LET n == Last(order)
             bits == len[t.dad[n]] + 1
         IN  Lengths(t, Front(order), len @@ (n :> Min({bits, maxLength})), maxLength)

\* A leaf moves down from the longest length that is not the limit, and takes one of
\* those that are too long as its brother.
RECURSIVE Balance(_, _, _)
Balance(count, overflow, maxLength) ==
    IF overflow <= 0 THEN count
    ELSE LET bits == Max({b \in 1..(maxLength - 1) : count[b] # 0})
             down == [count EXCEPT ![bits] = @ - 1]
             up == [down EXCEPT ![bits + 1] = @ + 2]
         IN  Balance([up EXCEPT ![maxLength] = @ - 1], overflow - 2, maxLength)

\* If some nodes hit the limit, the leaves get their lengths anew: the first removed,
\* the least frequent, the longest.
GenBitlen(built, elems, maxLength) ==
    LET t == built.t
        root == Last(built.order)
        len == Lengths(t, Front(built.order), root :> 0, maxLength)
        overflow == {n \in DOMAIN len \ {root} : len[t.dad[n]] = maxLength}
        leaves == SelectSeq(built.order, LAMBDA n : n < elems)
        count == [b \in 1..maxLength |-> Cardinality({i \in DOMAIN leaves : len[leaves[i]] = b})]
        new == Balance(count, Cardinality(overflow), maxLength)
        atLeast(b) == SumFunctionOnSet(new, b..maxLength)
        again(i) == Max({b \in 1..maxLength : i <= atLeast(b)})
    IN  [n \in 0..(elems - 1) |->
            IF ~Contains(leaves, n) THEN 0
            ELSE IF overflow = {} THEN len[n] ELSE again(CHOOSE i \in DOMAIN leaves : leaves[i] = n)]

\* The lengths of the codes; a code that does not occur has length 0.
BuildTree(freq, maxLength) ==
    LET forced == ForceTwo(freq)
        elems == Cardinality(DOMAIN freq)
        used == SelectSeq([i \in 1..elems |-> i - 1], LAMBDA n : forced[n] # 0)
        t == [freq |-> forced, depth |-> [n \in DOMAIN freq |-> 0], dad |-> <<>>]
        built == Combine(t, Heapify(t, used, Len(used) \div 2), <<>>, elems)
    IN  GenBitlen(built, elems, maxLength)

MaxCode(len) == Max({n \in DOMAIN len : len[n] # 0})

\* gen_codes(): codes of one length are consecutive, after the shorter ones.
GenCodes(len, maxBits) ==
    LET count[b \in 0..maxBits] ==
            IF b = 0 THEN 0 ELSE Cardinality({n \in DOMAIN len : len[n] = b})
        next[b \in 0..maxBits] == IF b = 0 THEN 0 ELSE 2 * (next[b - 1] + count[b - 1])
        code(n) == next[len[n]] + Cardinality({m \in DOMAIN len : m < n /\ len[m] = len[n]})
    IN  [n \in {m \in DOMAIN len : len[m] # 0} |-> CodeBits(code(n), len[n])]

-----------------------------------------------------------------------------
(* How the lengths of a tree are sent: scan_tree() and send_tree().             *)

\* The runs of equal lengths, cut at the longest run one code can say.
MaxCount(cur, prev) == IF cur = 0 THEN 138 ELSE IF cur = prev THEN 6 ELSE 7
MinCount(cur, prev) == IF cur = 0 \/ cur = prev THEN 3 ELSE 4

RECURSIVE RunsFrom(_, _, _, _)
RunsFrom(len, n, maxCode, prev) ==
    IF n > maxCode THEN <<>>
    ELSE LET cur == len[n]
             end == Max({k \in n..maxCode : \A i \in n..k : len[i] = cur})
             count == Min({end - n + 1, MaxCount(cur, prev)})
         IN  <<[cur |-> cur, count |-> count, prev |-> prev]>>
             \o RunsFrom(len, n + count, maxCode, cur)
Runs(len, maxCode) == RunsFrom(len, 0, maxCode, -1)

\* What is sent for a run: lengths one by one, or a code for a repetition with the
\* bits of its count.  rep is the first of the three codes for repetitions.
SendRun(run, rep) ==
    IF run.count < MinCount(run.cur, run.prev)
    THEN [i \in 1..run.count |-> [code |-> run.cur, extra |-> <<>>]]
    ELSE IF run.cur # 0
    THEN LET first == IF run.cur # run.prev THEN <<[code |-> run.cur, extra |-> <<>>]>> ELSE <<>>
         IN  Append(first, [code |-> rep, extra |-> Bits(run.count - Len(first) - 3, 2)])
    ELSE IF run.count <= 10
    THEN <<[code |-> rep + 1, extra |-> Bits(run.count - 3, 3)]>>
    ELSE <<[code |-> rep + 2, extra |-> Bits(run.count - 11, 7)]>>

SendTree(len, maxCode, rep) ==
    FlattenSeq([i \in DOMAIN Runs(len, maxCode) |-> SendRun(Runs(len, maxCode)[i], rep)])

\* How often each code of the third tree is used for a run.
ScanRun(run, rep) ==
    IF run.count < MinCount(run.cur, run.prev) THEN run.cur :> run.count
    ELSE IF run.cur # 0
    THEN (IF run.cur # run.prev THEN run.cur :> 1 ELSE <<>>) @@ (rep :> 1)
    ELSE IF run.count <= 10 THEN rep + 1 :> 1 ELSE rep + 2 :> 1

ScanTree(freq, len, maxCode, rep) ==
    FoldLeft(LAMBDA f, run : [c \in DOMAIN f |->
                 f[c] + (IF c \in DOMAIN ScanRun(run, rep) THEN ScanRun(run, rep)[c] ELSE 0)],
             freq, Runs(len, maxCode))

-----------------------------------------------------------------------------
(* inflate.c: huft_build() and what inflate_codes() looks up in its tables.     *)

\* 0 for a complete set of lengths, 1 for an incomplete and 2 for an impossible one; a
\* single code of one bit counts as complete.
HuftStatus(len) ==
    LET used == {n \in DOMAIN len : len[n] # 0}
        longest == Max({len[n] : n \in used})
        free == 2^longest - SumFunction([n \in used |-> 2^(longest - len[n])])
    IN  CASE used = {} -> 0
          [] used # {} /\ free < 0 -> 2
          [] OTHER -> IF free # 0 /\ longest # 1 THEN 1 ELSE 0

\* Codes in the order of their lengths, then of their values: each begins where the
\* one before ends.
HuftBuild(len) ==
    LET used == {n \in DOMAIN len : len[n] # 0}
        before(n) == {m \in used : len[m] < len[n] \/ (len[m] = len[n] /\ m < n)}
    IN  [n \in used |-> CodeBits(SumFunction([m \in before(n) |-> 2^(len[n] - len[m])]), len[n])]

\* The code that begins at bit pos, or {} if none does.
Lookup(table, bits, pos) ==
    {n \in DOMAIN table : pos + Len(table[n]) - 1 <= Len(bits)
                          /\ SubSeq(bits, pos, pos + Len(table[n]) - 1) = table[n]}

=============================================================================
