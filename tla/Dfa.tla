-------------------------------- MODULE Dfa --------------------------------
(***************************************************************************)
(* grep's automaton (usr.bin/grep/dfa.c): the lexer, the parser, the       *)
(* strings that any match must hold, the positions and their constraints,  *)
(* and the search.                                                         *)
(*                                                                         *)
(* A pattern is a sequence of characters, in which a named class such as   *)
(* [:alnum:], with its brackets, counts as one.  A constraint is a set of  *)
(* contexts <<kind, previous, current>>: whether the character before and  *)
(* the one after are newlines ("n") or letters ("l").  A set of positions  *)
(* is a function from indices of tokens to constraints.                    *)
(*                                                                         *)
(* States are built as they are needed; the tables that remember them are  *)
(* left out, and so are errors, for which regcomp() has looked before.     *)
(***************************************************************************)
EXTENDS Integers, Sequences, SequencesExt, FiniteSetsExt, Functions

CONSTANTS
    Chars,      \* all characters
    Eol,        \* eolbyte
    Word,       \* characters of words
    Cased,      \* letters, each with the set of its upper and lower case
    Lower,      \* what tolower() makes of each character
    Order,      \* the collating order, a sequence
    Classes,    \* the named classes: a function from names to sets
    Digit       \* a function from digits to numbers

Tok(k) == [k |-> k, cs |-> {}, lo |-> 0, hi |-> 0]
Cset(cs) == [k |-> "cset", cs |-> cs, lo |-> 0, hi |-> 0]
Infinite == -1

-----------------------------------------------------------------------------
(* lex(): what it keeps is [at, last, start], for lexptr, lasttok, laststart *)

Here(p, at) == IF at \in DOMAIN p THEN p[at] ELSE "end"
Escaped(p, at, c) == Here(p, at) = "\\" /\ Here(p, at + 1) = c

\* A number in an interval, and where it ends; Infinite if there is none.
NumberAt(p, at) ==
    LET end == Min({i \in at..(Len(p) + 1) : Here(p, i) \notin DOMAIN Digit})
    IN  [next |-> end,
         v |-> IF end = at THEN Infinite
               ELSE FoldLeft(LAMBDA n, c : 10 * n + Digit[c], 0, SubSeq(p, at, end - 1))]

\* What is between the braces; after is where a closing brace must be.
IntervalAt(p, at) ==
    LET lo == NumberAt(p, at)
        comma == Here(p, lo.next) = ","
        hi == IF comma THEN NumberAt(p, lo.next + 1) ELSE lo
    IN  [lo |-> lo.v, hi |-> hi.v, after |-> hi.next]

\* egrep takes a brace literally if no valid interval follows.
ValidInterval(p, i) ==
    Here(p, i.after) = "}" /\ i.lo >= 0 /\ (i.hi >= 0 => i.lo <= i.hi)

\* What c means here, unless on is FALSE: the kind of its token, and laststart after it.
Special(p, syn, L, esc, c, next) ==
    LET is(on, k, start) == [on |-> on, k |-> k, start |-> start]
        operand == "CONTEXT_INDEP_OPS" \in syn \/ ~L.start
        anchors == "CONTEXT_INDEP_ANCHORS" \in syn
        paren == esc = ("NO_BK_PARENS" \notin syn)
        bar == esc = ("NO_BK_VBAR" \notin syn)
        plus == esc = ("BK_PLUS_QM" \in syn)
        closes(flag, d) == IF flag \in syn THEN Here(p, next) = d ELSE Escaped(p, next, d)
    IN  CASE c = "^" -> is(~esc /\ (anchors \/ L.last \in {"end", "lparen", "or"}), "begline", L.start)
          [] c = "$" -> is(~esc /\ (\/ anchors \/ next > Len(p)
                                    \/ closes("NO_BK_PARENS", ")") \/ closes("NO_BK_VBAR", "|")
                                    \/ "NEWLINE_ALT" \in syn /\ Here(p, next) = Eol), "endline", L.start)
          [] c \in DOMAIN Digit -> is(esc, "backref", FALSE)
          [] c = "`" -> is(esc, "begline", L.start)
          [] c = "'" -> is(esc, "endline", L.start)
          [] c = "<" -> is(esc, "begword", L.start)
          [] c = ">" -> is(esc, "endword", L.start)
          [] c = "b" -> is(esc, "limword", L.start)
          [] c = "B" -> is(esc, "notlimword", L.start)
          [] c = "?" -> is(plus /\ operand, "qmark", L.start)
          [] c = "+" -> is(plus /\ operand, "plus", L.start)
          [] c = "*" -> is(~esc /\ operand, "star", L.start)
          [] c = "{" -> is(/\ esc = ("NO_BK_BRACES" \notin syn) /\ operand
                           /\ "NO_BK_BRACES" \in syn => ValidInterval(p, IntervalAt(p, next)),
                           "repmn", FALSE)
          [] c = "|" -> is(bar, "or", TRUE)
          [] c = Eol -> is(~esc /\ "NEWLINE_ALT" \in syn, "or", TRUE)
          [] c = "(" -> is(paren, "lparen", TRUE)
          [] c = ")" -> is(paren, "rparen", FALSE)
          [] c = "." -> is(~esc, "any", FALSE)
          [] c = "w" -> is(esc, "word", FALSE)
          [] c = "W" -> is(esc, "nonword", FALSE)
          [] c = "[" -> is(~esc, "list", FALSE)
          [] OTHER -> is(FALSE, "", FALSE)

FoldCase(fold, cs) == IF fold THEN cs \cup UNION {Cased[c] : c \in cs \cap DOMAIN Cased} ELSE cs
Between(c, d) == {Order[i] : i \in {j \in DOMAIN Order : \E m, n \in DOMAIN Order :
                                        Order[m] = c /\ Order[n] = d /\ m <= j /\ j <= n}}

\* The members of a list from at on, up to its bracket: [cs, next].
RECURSIVE Members(_, _, _, _, _)
Members(p, fold, at, first, cs) ==
    LET c == p[at]
        range == Here(p, at + 1) = "-" /\ Here(p, at + 2) # "]"
    IN  IF c = "]" /\ ~first THEN [cs |-> cs, next |-> at + 1]
        ELSE IF c \in DOMAIN Classes THEN Members(p, fold, at + 1, FALSE, cs \cup Classes[c])
        ELSE IF range THEN Members(p, fold, at + 3, FALSE, cs \cup FoldCase(fold, Between(c, p[at + 2])))
        ELSE Members(p, fold, at + 1, FALSE, cs \cup FoldCase(fold, {c}))

\* A list; one of all the others has no newline.
ListAt(p, fold, at) ==
    LET hat == Here(p, at) = "^"
        m == Members(p, fold, IF hat THEN at + 1 ELSE at, TRUE, {})
    IN  [m EXCEPT !.cs = IF hat THEN Chars \ (@ \cup {Eol}) ELSE @]

\* A character that stands for itself.  Only its set, if it has one, is remembered as
\* the last token.
NormalChar(fold, L, c, next) ==
    [lex |-> [at |-> next, last |-> IF fold /\ c \in DOMAIN Cased THEN "cset" ELSE L.last, start |-> FALSE],
     tok |-> IF fold /\ c \in DOMAIN Cased THEN Cset(Cased[c]) ELSE [Tok("char") EXCEPT !.cs = {c}]]

TokenOf(p, syn, fold, L, c, next, s) ==
    LET token(t, after) == [lex |-> [at |-> after, last |-> t.k, start |-> s.start], tok |-> t]
    IN  CASE ~s.on -> NormalChar(fold, L, c, next)
          [] s.on /\ s.k = "any" -> token(Cset(Chars \ {Eol}), next)
          [] s.on /\ s.k = "word" -> token(Cset(Word), next)
          [] s.on /\ s.k = "nonword" -> token(Cset(Chars \ Word), next)
          [] s.on /\ s.k = "list" ->
                LET m == ListAt(p, fold, next) IN token(Cset(m.cs), m.next)
          [] s.on /\ s.k = "repmn" ->
                LET i == IntervalAt(p, next)
                IN  token([Tok("repmn") EXCEPT !.lo = i.lo, !.hi = i.hi],
                          IF "NO_BK_BRACES" \in syn THEN i.after + 1 ELSE i.after + 2)
          [] OTHER -> token(Tok(s.k), next)

Lexed(p, syn, fold, L, esc, c, next) == TokenOf(p, syn, fold, L, c, next, Special(p, syn, L, esc, c, next))

\* All the tokens of a pattern: the parser asks for them one by one, but changes nothing
\* that lex() looks at.
RECURSIVE TokensFrom(_, _, _, _)
Then(p, syn, fold, l) == <<l.tok>> \o TokensFrom(p, syn, fold, l.lex)
TokensFrom(p, syn, fold, L) ==
    CASE L.at > Len(p) -> <<Tok("end")>>
      [] Here(p, L.at) = "\\" -> Then(p, syn, fold, Lexed(p, syn, fold, L, TRUE, Here(p, L.at + 1), L.at + 2))
      [] OTHER -> Then(p, syn, fold, Lexed(p, syn, fold, L, FALSE, Here(p, L.at), L.at + 1))

-----------------------------------------------------------------------------
(* dfaparse(): tokens in postfix form, toks; next are those still to come.  *)

Leaves == {"char", "cset", "backref", "begline", "endline", "begword", "endword", "limword", "notlimword"}
Closures == {"qmark", "star", "plus", "repmn"}

Advance(S) == [S EXCEPT !.next = Tail(@)]
AddTok(S, t) == [S EXCEPT !.toks = Append(@, t)]
AddIf(S, t, there) == IF there THEN AddTok(S, t) ELSE S

\* nsubtoks(): the tokens of the expression that ends at n.
RECURSIVE NSubToks(_, _)
TwoSubToks(toks, n, right) == 1 + right + NSubToks(toks, n - 1 - right)
NSubToks(toks, n) ==
    CASE toks[n].k \in {"qmark", "star", "plus"} -> 1 + NSubToks(toks, n - 1)
      [] toks[n].k \in {"cat", "or"} -> TwoSubToks(toks, n, NSubToks(toks, n - 1))
      [] OTHER -> 1

CopyToks(sub, more, n) == FlattenSeq([i \in 1..Max({0, n}) |-> sub \o more])

\* {lo,hi}: at least one copy, be it optional.
Repeat(toks, sub, lo, hi) ==
    toks \o (IF hi < 0 THEN <<Tok("plus")>> ELSE <<>>)
         \o (IF lo = 0 THEN <<Tok("qmark")>> ELSE <<>>)
         \o CopyToks(sub, <<Tok("cat")>>, lo - 1)
         \o CopyToks(sub, <<Tok("qmark"), Tok("cat")>>, hi - Max({1, lo}))

Closed(toks, t) ==
    IF t.k = "repmn"
    THEN Repeat(toks, SubSeq(toks, Len(toks) - NSubToks(toks, Len(toks)) + 1, Len(toks)), t.lo, t.hi)
    ELSE Append(toks, t)

RECURSIVE Closure(_)
Closure(S) ==
    IF Head(S.next).k \in Closures
    THEN Closure(Advance([S EXCEPT !.toks = Closed(@, Head(S.next))])) ELSE S

RECURSIVE Regexp(_, _)
Atom(S) ==
    CASE Head(S.next).k \in Leaves -> Advance(AddTok(S, Head(S.next)))
      [] Head(S.next).k = "lparen" -> Advance(Regexp(Advance(S), FALSE))
      [] OTHER -> AddTok(S, Tok("empty"))

RECURSIVE Branch(_, _)
Branch(S, later) ==
    IF later /\ Head(S.next).k \in {"rparen", "or", "end"} THEN S
    ELSE Branch(AddIf(Closure(Atom(S)), Tok("cat"), later), TRUE)

Alternatives(S) == IF Head(S.next).k = "or" THEN Regexp(Advance(S), TRUE) ELSE S
Regexp(S, later) == Alternatives(AddIf(Branch(S, FALSE), Tok("or"), later))

DfaParse(p, syn, fold) ==
    Regexp([next |-> TokensFrom(p, syn, fold, [at |-> 1, last |-> "end", start |-> TRUE]), toks |-> <<>>],
           FALSE).toks \o <<Tok("end"), Tok("cat")>>

-----------------------------------------------------------------------------
(* dfamust(): strings that every match has, [in, left, right, is] for a node *)

NoMust == [in |-> <<>>, left |-> <<>>, right |-> <<>>, is |-> <<>>]

Holds(s, t) == \E i \in 0..(Len(s) - Len(t)) : SubSeq(s, i + 1, i + Len(t)) = t

\* enlist(): a string that another one holds is not kept; the last one moves to its place.
RECURSIVE Obsolete(_, _, _)
Obsolete(list, new, j) ==
    CASE j > Len(list) -> list
      [] j <= Len(list) /\ ~Holds(new, list[j]) -> Obsolete(list, new, j + 1)
      [] OTHER -> Obsolete(IF j = Len(list) THEN Front(list)
                           ELSE [Front(list) EXCEPT ![j] = Last(list)], new, j)
Enlist(list, new) ==
    IF \E i \in DOMAIN list : Holds(list[i], new) THEN list ELSE Append(Obsolete(list, new, 1), new)
AddLists(old, new) == FoldLeft(Enlist, old, new)

\* The longest prefix of s that t holds.
CommonAt(s, t) == SubSeq(s, 1, Max({n \in 0..Len(s) : n = 0 \/ Holds(t, SubSeq(s, 1, n))}))
ComSubs(left, right) ==
    AddLists(<<>>, SelectSeq([i \in DOMAIN left |-> CommonAt(SubSeq(left, i, Len(left)), right)],
                             LAMBDA s : s # <<>>))
InBoth(left, right) ==
    FoldLeft(LAMBDA both, i : FoldLeft(LAMBDA b, j : AddLists(b, ComSubs(left[i], right[j])), both,
                                       [j \in DOMAIN right |-> j]),
             <<>>, [i \in DOMAIN left |-> i])

CommonPrefix(s, t) == SubSeq(s, 1, Max({n \in 0..Min({Len(s), Len(t)}) : SubSeq(s, 1, n) = SubSeq(t, 1, n)}))

MustOr(l, r) ==
    [is |-> IF l.is = r.is THEN l.is ELSE <<>>,
     left |-> CommonPrefix(l.left, r.left),
     right |-> Reverse(CommonPrefix(Reverse(l.right), Reverse(r.right))),
     in |-> InBoth(l.in, r.in)]

\* Mutant: what follows an optional part is taken to follow what comes before it.
MutMustCat(l, r) ==
    [in |-> IF l.right # <<>> /\ r.left # <<>> THEN Enlist(AddLists(l.in, r.in), l.right \o r.left)
            ELSE AddLists(l.in, r.in),
     left |-> IF l.is # <<>> THEN l.left \o r.left ELSE l.left,
     right |-> l.right \o r.right,
     is |-> IF l.is # <<>> /\ r.is # <<>> THEN l.is \o r.is ELSE <<>>]

MustCat(l, r) ==
    [in |-> IF l.right # <<>> /\ r.left # <<>> THEN Enlist(AddLists(l.in, r.in), l.right \o r.left)
            ELSE AddLists(l.in, r.in),
     left |-> IF l.is # <<>> THEN l.left \o r.left ELSE l.left,
     right |-> IF r.is # <<>> THEN l.right \o r.right ELSE r.right,
     is |-> IF l.is # <<>> /\ r.is # <<>> THEN l.is \o r.is ELSE <<>>]

MustChar(c) == [in |-> << <<c>> >>, left |-> <<c>>, right |-> <<c>>, is |-> <<c>>]

\* One token, with the stack of nodes before it.
MustStep(stack, t) ==
    LET one == Front(stack)
        two == Front(one)
    IN  CASE t.k \in {"star", "qmark"} -> Append(one, NoMust)
          [] t.k = "plus" -> Append(one, [Last(stack) EXCEPT !.is = <<>>])
          [] t.k = "or" -> Append(two, MustOr(Last(one), Last(stack)))
          [] t.k = "cat" -> Append(two, MustCat(Last(one), Last(stack)))
          [] t.k = "char" -> Append(stack, MustChar(CHOOSE c \in t.cs : TRUE))
          [] OTHER -> Append(stack, NoMust)

\* The first of the longest strings of the whole, and whether it is all of a match.
LongestMust(root) ==
    LET best == FoldLeft(LAMBDA b, s : IF Len(s) > Len(b) THEN s ELSE b, <<>>, root.in)
    IN  [must |-> best, exact |-> best = root.is]
DfaMust(toks) == LongestMust(FoldLeft(MustStep, <<>>, SubSeq(toks, 1, Len(toks) - 2))[1])

-----------------------------------------------------------------------------
(* dfaanalyze(): what may follow each position *)

AllContexts == {"n", "l"} \X BOOLEAN \X BOOLEAN

\* The constraints of the tokens that match the empty string.
Allowed == [begline |-> {x \in AllContexts : x[1] = "n" => x[2]},
            endline |-> {x \in AllContexts : x[1] = "n" => x[3]},
            begword |-> {x \in AllContexts : x[1] = "l" => ~x[2] /\ x[3]},
            endword |-> {x \in AllContexts : x[1] = "l" => x[2] /\ ~x[3]},
            limword |-> {x \in AllContexts : x[1] = "l" => x[2] # x[3]},
            notlimword |-> {x \in AllContexts : x[1] = "l" => x[2] = x[3]}]

\* merge() and insert(): constraints of one position are joined by or.
Merge(s, t) == [i \in DOMAIN s \cup DOMAIN t |->
                   (IF i \in DOMAIN s THEN s[i] ELSE {}) \cup (IF i \in DOMAIN t THEN t[i] ELSE {})]

\* One token, with the stack of [null, first, last] and the follows so far.
Follow(A, from, to) == [i \in DOMAIN A.follows |-> IF i \in from THEN A.follows[i] \cup to ELSE A.follows[i]]
AnalyzeStep(A, t, i) ==
    LET q == Last(A.stack)
        rest == Front(A.stack)
        l == Last(rest)
        push(st, node, f) == [stack |-> Append(st, node), follows |-> f]
    IN  CASE t.k = "empty" -> push(A.stack, [null |-> TRUE, first |-> {}, last |-> {}], A.follows)
          [] t.k \in {"star", "plus"} ->
                push(rest, [q EXCEPT !.null = @ \/ t.k = "star"], Follow(A, q.last, q.first))
          [] t.k = "qmark" -> push(rest, [q EXCEPT !.null = TRUE], A.follows)
          [] t.k = "cat" ->
                push(Front(rest), [null |-> l.null /\ q.null,
                                   first |-> IF l.null THEN l.first \cup q.first ELSE l.first,
                                   last |-> IF q.null THEN l.last \cup q.last ELSE q.last],
                     Follow(A, l.last, q.first))
          [] t.k = "or" ->
                push(Front(rest), [null |-> l.null \/ q.null, first |-> l.first \cup q.first,
                                   last |-> l.last \cup q.last], A.follows)
          [] OTHER -> push(A.stack, [null |-> t.k = "backref", first |-> {i}, last |-> {i}], A.follows)

\* epsclosure(): a token that matches the empty string is replaced by what follows it,
\* once; the highest index comes first.
RECURSIVE EpsClosure(_, _, _, _)
EpsClosure(toks, follows, s, visited) ==
    LET funny == {i \in DOMAIN s : toks[i].k \in DOMAIN Allowed}
        i == Max(funny)
        rest == RestrictDomain(s, LAMBDA j : j # i)
        next == [j \in follows[i] |-> s[i] \cap Allowed[toks[i].k]]
    IN  IF funny = {} THEN s
        ELSE EpsClosure(toks, follows, IF i \in visited THEN rest ELSE Merge(rest, next), visited \cup {i})

Unconstrained(set) == [i \in set |-> AllContexts]

\* PREV_NEWLINE_DEPENDENT and PREV_LETTER_DEPENDENT
Dependent(kind, s) ==
    \E i \in DOMAIN s, cur \in BOOLEAN : (<<kind, TRUE, cur>> \in s[i]) # (<<kind, FALSE, cur>> \in s[i])

Analyzed(toks, A) ==
    LET start == EpsClosure(toks, A.follows, Unconstrained(A.stack[1].first), {})
    IN  [toks |-> toks,
         follows |-> [i \in DOMAIN toks |-> EpsClosure(toks, A.follows, Unconstrained(A.follows[i]), {})],
         zero |-> [pos |-> start, newline |-> Dependent("n", start), letter |-> FALSE]]

DfaAnalyze(toks) ==
    Analyzed(toks, FoldLeft(LAMBDA A, i : AnalyzeStep(A, toks[i], i),
                            [stack |-> <<>>, follows |-> [i \in DOMAIN toks |-> {}]],
                            [i \in DOMAIN toks |-> i]))

\* dfacomp(): with case_fold, the musts are those of the pattern in lower case.
DfaComp(p, syn, fold) ==
    [dfa |-> DfaAnalyze(DfaParse(p, syn, fold)),
     musts |-> DfaMust(DfaParse(IF fold THEN [i \in DOMAIN p |-> Lower[p[i]]] ELSE p, syn, FALSE))]

-----------------------------------------------------------------------------
(* dfaexec() *)

Succeeds(constraint, s, c) ==
    <<"n", s.newline, c = Eol>> \in constraint /\ <<"l", s.letter, c \in Word>> \in constraint

HasBackref(d, s) == \E i \in DOMAIN s.pos : d.toks[i].k = "backref"

\* state_index() and build_state(): whether s accepts before c.
Accepts(d, s, c) ==
    \/ HasBackref(d, s)
    \/ \E i, j \in {k \in DOMAIN s.pos : d.toks[k].k = "end"} :
            <<"n", s.newline, c = Eol>> \in s.pos[i] /\ <<"l", s.letter, c \in Word>> \in s.pos[j]

\* dfastate(): the state after c.  That of the beginning is always added.
Transition(d, s, c) ==
    LET taken == {i \in DOMAIN s.pos : d.toks[i].k \in {"char", "cset"} /\ c \in d.toks[i].cs
                                       /\ Succeeds(s.pos[i], s, c)}
        pos == FoldSet(LAMBDA i, m : Merge(d.follows[i], m), d.zero.pos, taken)
    IN  [pos |-> pos, newline |-> c = Eol /\ Dependent("n", pos), letter |-> c \in Word /\ Dependent("l", pos)]

\* The place of the first state that accepts, from p on in state s, with an Eol behind the
\* text's end; 0 if there is none.
RECURSIVE ExecFrom(_, _, _, _, _)
ExecFrom(d, text, end, p, s) ==
    LET c == IF p = end THEN Eol ELSE text[p]
    IN  CASE p > end -> [at |-> 0, backref |-> FALSE]
          [] p <= end /\ Accepts(d, s, c) -> [at |-> p, backref |-> HasBackref(d, s)]
          [] OTHER -> ExecFrom(d, text, end, p + 1, IF c = Eol THEN d.zero ELSE Transition(d, s, c))

DfaExec(d, text, begin, end) == ExecFrom(d, text, end, begin, d.zero)

=============================================================================
