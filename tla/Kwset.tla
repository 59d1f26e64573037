------------------------------- MODULE Kwset -------------------------------
(***************************************************************************)
(* grep's search for one of several words (usr.bin/grep/kwset.c), with the *)
(* shifts of Commentz-Walter, or of Boyer-Moore for a single word.         *)
(*                                                                         *)
(* A node of the trie is the end of a word that has been read from the     *)
(* right: the empty sequence is the root, and its children are longer by   *)
(* one character on their left.  The balanced trees of links are left out. *)
(* Texts are searched from first up to, but without, lim.                  *)
(***************************************************************************)
EXTENDS Integers, Sequences, SequencesExt, FiniteSetsExt

CONSTANTS
    Chars,      \* all characters
    Lower       \* what tolower() makes of each character

NoWord == [at |-> 0, word |-> <<>>]

Nodes(words) == UNION {Suffixes(words[i]) \cup {<<>>} : i \in DOMAIN words}
Labels(nodes, n) == {c \in Chars : <<c>> \o n \in nodes}

\* The chain of fails of m: the nodes that m begins with.
Fails(nodes, m) == {n \in nodes : IsStrictPrefix(n, m)}

\* kwsprep(): the first traversal
Shift0(nodes, mind, n) ==
    Min({mind} \cup {Len(m) - Len(n) :
            m \in {k \in nodes : n \in Fails(nodes, k) /\ ~(Labels(nodes, k) \subseteq Labels(nodes, n))}})
MaxShift0(nodes, words, mind, n) ==
    Min({mind} \cup {Len(m) - Len(n) : m \in {k \in ToSet(words) : n \in Fails(nodes, k)}})

\* The second: a node shifts no further than any of its ancestors may.
Shift(nodes, words, mind, n) ==
    Min({Shift0(nodes, mind, n)} \cup
        {MaxShift0(nodes, words, mind, m) : m \in {k \in nodes : IsSuffix(k, n)}})


Delta(nodes, mind) == [c \in Chars |-> Min({mind} \cup {Len(n) : n \in {k \in nodes : c \in Labels(nodes, k)}})]

\* Boyer-Moore: the last place of a character, and the shift after a failed comparison
BmDelta(w) == [c \in Chars |-> Min({Len(w)} \cup {Len(w) - i : i \in {j \in DOMAIN w : w[j] = c}})]
Mind2(w) == Min({Len(w)} \cup {Len(w) - i : i \in {j \in 1..(Len(w) - 1) : w[j] = Last(w)}})

Prepared(words, nodes, mind, fold) ==
    IF Len(words) = 1 /\ ~fold
    THEN [words |-> words, nodes |-> nodes, mind |-> mind, maxd |-> mind, fold |-> FALSE,
          delta |-> BmDelta(words[1]), shift |-> [n \in {<<>>} |-> Mind2(words[1])]]
    ELSE [words |-> words, nodes |-> nodes, mind |-> mind, fold |-> fold,
          maxd |-> Max({Len(words[i]) : i \in DOMAIN words}),
          delta |-> Delta(nodes, mind), shift |-> [n \in nodes |-> Shift(nodes, words, mind, n)]]

\* kwsincr() for each word, then kwsprep(); with trans, words are kept in lower case.
KwsPrep(words, fold) ==
    LET kept == IF fold THEN [i \in DOMAIN words |-> [j \in DOMAIN words[i] |-> Lower[words[i][j]]]] ELSE words
    IN  Prepared(kept, Nodes(kept), Min({Len(words[i]) : i \in DOMAIN words}), fold)

-----------------------------------------------------------------------------
(* bmexec() *)

RECURSIVE BmScan(_, _, _, _, _)
BmCompare(K, text, lim, tp) ==
    IF SubSeq(text, tp - K.mind, tp - 1) = K.words[1] THEN [at |-> tp - K.mind, word |-> K.words[1]]
    ELSE BmScan(K, text, lim, tp, K.shift[<<>>])
BmNext(K, text, lim, tp, d) ==
    IF d # 0 THEN BmScan(K, text, lim, tp, d) ELSE BmCompare(K, text, lim, tp)
BmScan(K, text, lim, tp, d) ==
    IF d > lim - tp THEN NoWord ELSE BmNext(K, text, lim, tp + d, K.delta[text[tp + d - 1]])

BmExec(K, text, first, lim) ==
    CASE K.mind = 0 -> [at |-> first, word |-> <<>>]
      [] K.mind > lim - first -> NoWord
      [] OTHER -> BmScan(K, text, lim, first + K.mind, 0)

-----------------------------------------------------------------------------
(* cwexec() *)

Read(K, c) == IF K.fold THEN Lower[c] ELSE c

\* To the left from node n, whose first character is at at: the leftmost word that begins
\* no later than limit, and the shift of the last node.
RECURSIVE Walk(_, _, _, _, _, _, _)
WalkOn(K, text, first, at, limit, n, found, longer) ==
    IF longer \in K.nodes THEN Walk(K, text, first, at - 1, limit, longer, found)
    ELSE [found |-> found, d |-> K.shift[n]]
Passed(K, text, first, at, limit, n, found) ==
    IF at > first THEN WalkOn(K, text, first, at, limit, n, found, <<Read(K, text[at - 1])>> \o n)
    ELSE [found |-> found, d |-> K.shift[n]]
Walk(K, text, first, at, limit, n, found) ==
    Passed(K, text, first, at, limit, n,
           IF n \in ToSet(K.words) /\ at <= limit THEN [at |-> at, word |-> n] ELSE found)

\* The longest match at or before the one that was found.
RECURSIVE CwLongest(_, _, _, _, _, _, _)
LongestAfter(K, text, first, lim, end, found, w) ==
    IF w.found # NoWord THEN CwLongest(K, text, first, lim, end, w.found, 1)
    ELSE CwLongest(K, text, first, lim, end, found, Max({1, w.d}))
LongestAt(K, text, first, lim, end, found, c) ==
    CASE K.delta[c] # 0 -> CwLongest(K, text, first, lim, end, found, K.delta[c])
      [] K.delta[c] = 0 /\ <<c>> \notin K.nodes -> CwLongest(K, text, first, lim, end, found, 1)
      [] OTHER -> LongestAfter(K, text, first, lim, end, found,
                               Walk(K, text, first, end - 1, found.at, <<c>>, NoWord))
CwLongest(K, text, first, lim, end, found, d) ==
    IF Min({lim, found.at + K.maxd}) - end < d THEN found
    ELSE LongestAt(K, text, first, lim, end + d, found, Read(K, text[end + d - 1]))

RECURSIVE CwScan(_, _, _, _, _, _)
ScanAfter(K, text, first, lim, end, w) ==
    IF w.found # NoWord THEN CwLongest(K, text, first, lim, end, w.found, 1)
    ELSE CwScan(K, text, first, lim, end, w.d)
ScanAt(K, text, first, lim, end, c) ==
    IF K.delta[c] # 0 THEN CwScan(K, text, first, lim, end, K.delta[c])
    ELSE ScanAfter(K, text, first, lim, end, Walk(K, text, first, end - 1, lim, <<c>>, NoWord))
CwScan(K, text, first, lim, end, d) ==
    IF lim - end < d THEN NoWord
    ELSE ScanAt(K, text, first, lim, end + d, Read(K, text[end + d - 1]))

CwExec(K, text, first, lim) ==
    CASE lim - first < K.mind -> NoWord
      [] lim - first >= K.mind /\ K.mind = 0 ->
            CwLongest(K, text, first, lim, first, [at |-> first, word |-> <<>>], 1)
      [] OTHER -> CwScan(K, text, first, lim, first, K.mind)

KwsExec(K, text, first, lim) ==
    IF Len(K.words) = 1 /\ ~K.fold THEN BmExec(K, text, first, lim) ELSE CwExec(K, text, first, lim)

\* kwsmatch.index, from 1: the first word that is the one found
KwsIndex(K, found) == Min({i \in DOMAIN K.words : K.words[i] = found.word})

=============================================================================
