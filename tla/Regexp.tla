------------------------------- MODULE Regexp -------------------------------
(***************************************************************************)
(* What a regular expression matches: the library that grep asks where its *)
(* automaton does not know, and the meaning of patterns.  An expression is *)
(* a tree; Show gives it as a pattern, basic or extended.                  *)
(***************************************************************************)
EXTENDS Integers, Sequences, SequencesExt, FiniteSetsExt

CONSTANTS Chars, Eol, Word, Cased

Node(k, l, r) == [k |-> k, l |-> l, r |-> r]
Then(l, r) == Node("then", l, r)
Or(l, r) == Node("or", l, r)
OrLine(l, r) == Node("newline", l, r)
Group(e) == Node("group", e, <<>>)
Back == Node("back", <<>>, <<>>)
At(where) == Node(where, <<>>, <<>>)
Rep(e, how, lo, hi) == [k |-> "rep", l |-> e, r |-> <<>>, how |-> how, lo |-> lo, hi |-> hi]
Set(cs, hat, shown) == [k |-> "set", l |-> cs, r |-> hat, shown |-> shown]
Chr(c) == Set({c}, FALSE, <<c>>)

WordAt(t, i) == i \in DOMAIN t /\ t[i] \in Word
Assertion(where, t, i, eol) ==
    CASE where = "^" -> i = 1
      [] where = "$" -> eol /\ i = Len(t) + 1
      [] where = "<" -> ~WordAt(t, i - 1) /\ WordAt(t, i)
      [] where = ">" -> WordAt(t, i - 1) /\ ~WordAt(t, i)
      [] where = "b" -> WordAt(t, i - 1) # WordAt(t, i)
      [] where = "B" -> WordAt(t, i - 1) = WordAt(t, i)

Folded(cs, fold) == IF fold THEN cs \cup UNION {Cased[c] : c \in cs \cap DOMAIN Cased} ELSE cs
Takes(e, fold, c) == IF e.r THEN c \notin Folded(e.l, fold) ELSE c \in Folded(e.l, fold)

\* All <<end, group>> of matches of e that begin at i, where cap is what the group
\* matched; m is [t, fold, eol].
RECURSIVE Ends(_, _, _, _)
RECURSIVE Times(_, _, _, _)
Times(e, m, from, n) ==
    (IF n >= e.lo THEN from ELSE {}) \cup
    IF from = {} \/ n = (IF e.hi < 0 THEN e.lo + Len(m.t) ELSE e.hi) THEN {}
    ELSE Times(e, m, UNION {Ends(e.l, m, x[1], x[2]) : x \in from}, n + 1)
Step(l, m, i, cap) == Ends(l, m, i, cap)
Ends(e, m, i, cap) ==
    CASE e.k = "set" -> IF i <= Len(m.t) /\ Takes(e, m.fold, m.t[i]) THEN {<<i + 1, cap>>} ELSE {}
      [] e.k = "then" -> UNION {Step(e.r, m, x[1], x[2]) : x \in Step(e.l, m, i, cap)}
      [] e.k \in {"or", "newline"} -> UNION {Step(b, m, i, cap) : b \in {e.l, e.r}}
      [] e.k = "group" -> {<<x[1], SubSeq(m.t, i, x[1] - 1)>> : x \in Step(e.l, m, i, cap)}
      [] e.k = "back" -> IF IsPrefix(cap, SubSeq(m.t, i, Len(m.t))) THEN {<<i + Len(cap), cap>>} ELSE {}
      [] e.k = "rep" -> Times(e, m, {<<i, cap>>}, 0)
      [] OTHER -> IF Assertion(e.k, m.t, i, m.eol) THEN {<<i, cap>>} ELSE {}

Lengths(e, m, i) == {x[1] - i : x \in Ends(e, m, i, <<>>)}

\* re_match(): the longest match at i of the line up to size; -1 if there is none.
ReMatch(e, fold, line, size, i, eol) ==
    Max({-1} \cup Lengths(e, [t |-> SubSeq(line, 1, size), fold |-> fold, eol |-> eol], i))

\* re_search(): the first place from i on with a match; 0 if there is none.
ReSearch(e, fold, line, i) ==
    LET places == {j \in i..(Len(line) + 1) : ReMatch(e, fold, line, Len(line), j, TRUE) >= 0}
    IN  IF places = {} THEN 0 ELSE Min(places)

-----------------------------------------------------------------------------
(* The pattern of an expression *)

Quoted(c, plain) == IF plain THEN <<c>> ELSE <<"\\", c>>
RECURSIVE Show(_, _)
Joined(e, ere, mid) == Show(e.l, ere) \o mid \o Show(e.r, ere)
Show(e, ere) ==
    CASE e.k = "set" -> e.shown
      [] e.k = "then" -> Joined(e, ere, <<>>)
      [] e.k = "or" -> Joined(e, ere, Quoted("|", ere))
      [] e.k = "newline" -> Joined(e, ere, <<Eol>>)
      [] e.k = "group" -> Quoted("(", ere) \o Show(e.l, ere) \o Quoted(")", ere)
      [] e.k = "back" -> <<"\\", "1">>
      [] e.k = "rep" ->
            Show(e.l, ere) \o (IF e.how = <<"*">> THEN e.how
                               ELSE IF e.how \in {<<"+">>, <<"?">>} THEN Quoted(e.how[1], ere)
                               ELSE Quoted("{", ere) \o e.how \o Quoted("}", ere))
      [] e.k \in {"^", "$"} -> <<e.k>>
      [] OTHER -> <<"\\", e.k>>

=============================================================================
