-------------------------------- MODULE Grep --------------------------------
(***************************************************************************)
(* grep (usr.bin/grep/grep.c, search.c): the pattern is compiled, the file *)
(* is read piece by piece, every piece is searched up to its last newline, *)
(* and what is needed of it is kept: the rest of a line, and lines before  *)
(* the next match.                                                         *)
(*                                                                         *)
(* Pointers are places in the file, so that totalcc is bufbeg.  Lines are  *)
(* always printed with their numbers.  Left out: directories, binary and   *)
(* compressed files, mmap(), more than one file.                           *)
(***************************************************************************)
EXTENDS Integers, Sequences, SequencesExt, FiniteSets, FiniteSetsExt

CONSTANTS
    Chars, Eol, Word, Cased, Lower, Order, Classes, Digit,    \* as in Dfa
    Commands,   \* [matcher, e, keys, fold, words, lines, invert, before, after, mode]
    Texts,      \* files
    Reads       \* how much a read may return

Auto == INSTANCE Dfa
Keys == INSTANCE Kwset
Re == INSTANCE Regexp

VARIABLES
    opt,        \* the command
    prog,       \* what compile() made of the pattern
    text,       \* the file
    pc,
    bufbeg, buflim, save, residue,
    printed     \* [lastout, lastnl, totalnl, pending, used, nlines, out]
vars == <<opt, prog, text, pc, bufbeg, buflim, save, residue, printed>>

-----------------------------------------------------------------------------
(* search.c: Gcompile(), Ecompile(), Fcompile() *)

Syntax(ere) ==
    {"CHAR_CLASSES", "HAT_LISTS_NOT_NEWLINE", "INTERVALS", "NEWLINE_ALT"} \cup
    IF ere THEN {"CONTEXT_INDEP_ANCHORS", "CONTEXT_INDEP_OPS", "NO_BK_PARENS", "NO_BK_VBAR", "NO_BK_BRACES"}
    ELSE {"BK_PLUS_QM"}

Lp(ere) == Re!Quoted("(", ere)
Rp(ere) == Re!Quoted(")", ere)
Bar(ere) == Re!Quoted("|", ere)
NotWord == <<"[", "^", "[:alnum:]", "_", "]">>

\* The automaton gets the pattern with what -w or -x asks for around it.
Wrapped(o, p, ere) ==
    CASE o.lines -> <<"^">> \o Lp(ere) \o p \o Rp(ere) \o <<"$">>
      [] o.words /\ ~o.lines -> Lp(ere) \o <<"^">> \o Bar(ere) \o NotWord \o Rp(ere) \o Lp(ere) \o p \o Rp(ere)
                                \o Lp(ere) \o NotWord \o Bar(ere) \o <<"$">> \o Rp(ere)
      [] OTHER -> p

\* kwsmusts()
WithMusts(D, fold) ==
    [dfa |-> D.dfa, lastexact |-> D.musts.exact, some |-> D.musts.must # <<>>,
     kws |-> IF D.musts.must = <<>> THEN <<>> ELSE Keys!KwsPrep(<<D.musts.must>>, fold)]
EGcompile(o, ere) == WithMusts(Auto!DfaComp(Wrapped(o, Re!Show(o.e, ere), ere), Syntax(ere), o.fold), o.fold)
Fcompile(o) == [dfa |-> <<>>, lastexact |-> FALSE, some |-> TRUE, kws |-> Keys!KwsPrep(o.keys, o.fold)]

-----------------------------------------------------------------------------
(* EGexecute(), Fexecute(): [b, end] of the first line that matches *)

NoLine == [b |-> 0, end |-> 0]
LineStart(t, buf, at) == Max({buf} \cup {i + 1 : i \in {j \in buf..(at - 1) : t[j] = Eol}})
LineEnd(t, lim, at) == Min({lim} \cup {i \in at..(lim - 1) : t[i] = Eol})
NextLine(t, lim, at) == Min({lim, LineEnd(t, lim, at) + 1})

\* -w: at each place, ever shorter matches, and then the next place.
RECURSIVE WordsFrom(_, _, _, _)
Further(o, line, start) ==
    IF start = Len(line) + 1 THEN FALSE
    ELSE WordsFrom(o, line, Re!ReSearch(o.e, o.fold, line, start + 1), -1)
Shorter(o, line, start, len) ==
    IF len <= 0 THEN Further(o, line, start) ELSE WordsFrom(o, line, start, len)
Retry(o, line, start, len) ==
    Shorter(o, line, start, IF len > 0 THEN Re!ReMatch(o.e, o.fold, line, start + len - 2, start, FALSE) ELSE len)
Aligned(o, line, start, len) ==
    IF ~Re!WordAt(line, start - 1) /\ (len = Len(line) \/ ~Re!WordAt(line, start + len)) THEN TRUE
    ELSE Retry(o, line, start, len)
WordsFrom(o, line, start, len) ==
    IF start = 0 THEN FALSE
    ELSE Aligned(o, line, start,
                 IF len = -1 THEN Re!ReMatch(o.e, o.fold, line, Len(line), start, TRUE) ELSE len)

RegexAt(o, line, start) ==
    /\ start # 0
    /\ \/ ~o.lines /\ ~o.words
       \/ o.lines /\ Re!ReMatch(o.e, o.fold, line, Len(line), start, TRUE) = Len(line)
       \/ o.words /\ WordsFrom(o, line, start, -1)
Regex(o, line) == RegexAt(o, line, Re!ReSearch(o.e, o.fold, line, 1))

RECURSIVE EGexecute(_, _, _, _, _, _)
Decide(P, o, t, buf, lim, b, end, d) ==
    IF d.at # 0 /\ (d.backref => Regex(o, SubSeq(t, b, end - 1))) THEN [b |-> b, end |-> Min({end + 1, lim})]
    ELSE EGexecute(P, o, t, buf, lim, end + 1)
Candidate(P, o, t, buf, lim, b, end, exact) ==
    Decide(P, o, t, buf, lim, b, end,
           IF exact THEN [at |-> b, backref |-> FALSE] ELSE Auto!DfaExec(P.dfa, t, b, end))
FromKeys(P, o, t, buf, lim, k) ==
    IF k = Keys!NoWord THEN NoLine
    ELSE Candidate(P, o, t, buf, lim, LineStart(t, buf, k.at), LineEnd(t, lim, k.at), P.lastexact)
FromDfa(P, o, t, buf, lim, d) ==
    IF d.at = 0 THEN NoLine
    ELSE Decide(P, o, t, buf, lim, LineStart(t, buf, d.at), LineEnd(t, lim, d.at), d)
EGexecute(P, o, t, buf, lim, beg) ==
    CASE beg >= lim -> NoLine
      [] beg < lim /\ P.some -> FromKeys(P, o, t, buf, lim, Keys!KwsExec(P.kws, t, beg, lim))
      [] OTHER -> FromDfa(P, o, t, buf, lim, Auto!DfaExec(P.dfa, t, beg, lim))

\* -w: shorter and shorter words from the place that was found on; 0 if none stands alone.
RECURSIVE AloneAt(_, _, _, _, _, _, _)
AloneIn(K, t, buf, lim, beg, k) ==
    IF k = Keys!NoWord THEN 0 ELSE AloneAt(K, t, buf, lim, beg, k.at, Len(k.word))
AloneAt(K, t, buf, lim, beg, try, len) ==
    IF len = 0 \/ (try > buf /\ t[try - 1] \in Word) THEN 0
    ELSE IF try + len < lim /\ t[try + len] \in Word
         THEN AloneIn(K, t, buf, lim, beg, Keys!KwsExec(K, t, beg, beg + len - 1))
         ELSE len

WholeLine(t, buf, lim, beg, len) ==
    (beg = buf \/ t[beg - 1] = Eol) /\ (beg + len = lim \/ t[beg + len] = Eol)

RECURSIVE Fexecute(_, _, _, _, _, _)
Success(t, buf, lim, beg, len) == [b |-> LineStart(t, buf, beg), end |-> NextLine(t, lim, beg + len)]
FixedWord(P, o, t, buf, lim, beg, len) ==
    IF len > 0 THEN Success(t, buf, lim, beg, len) ELSE Fexecute(P, o, t, buf, lim, beg + 1)
Fixed(P, o, t, buf, lim, k) ==
    CASE k = Keys!NoWord -> NoLine
      [] k # Keys!NoWord /\ o.lines /\ ~WholeLine(t, buf, lim, k.at, Len(k.word)) ->
            Fexecute(P, o, t, buf, lim, k.at + 1)
      [] k # Keys!NoWord /\ ~o.lines /\ o.words ->
            FixedWord(P, o, t, buf, lim, k.at, AloneIn(P.kws, t, buf, lim, k.at, k))
      [] OTHER -> Success(t, buf, lim, k.at, Len(k.word))
Fexecute(P, o, t, buf, lim, beg) ==
    IF beg > lim THEN NoLine ELSE Fixed(P, o, t, buf, lim, Keys!KwsExec(P.kws, t, beg, lim))

Execute(P, o, t, buf, lim) ==
    IF o.matcher = "F" THEN Fexecute(P, o, t, buf, lim, buf) ELSE EGexecute(P, o, t, buf, lim, buf)

-----------------------------------------------------------------------------
(* grep.c: printing.  S is printed. *)

Newlines(t, from, lim) == Cardinality({i \in from..(lim - 1) : t[i] = Eol})
NlScan(t, S, lim) == [S EXCEPT !.totalnl = @ + Newlines(t, S.lastnl, lim), !.lastnl = lim]

Numbered(t, S, beg, lim, sep) ==
    [S EXCEPT !.totalnl = @ + 1, !.lastnl = lim, !.lastout = lim,
              !.out = Append(@, <<S.totalnl + 1, SubSeq(t, beg, lim - 1), sep>>)]
PrLine(t, S, beg, lim, sep) == Numbered(t, NlScan(t, S, beg), beg, lim, sep)

\* Up to n lines from beg on, and how many they were
RECURSIVE PrLines(_, _, _, _, _, _)
PrLines(t, S, beg, lim, sep, n) ==
    IF n = 0 \/ beg >= lim THEN S
    ELSE PrLines(t, PrLine(t, S, beg, NextLine(t, lim, beg), sep), NextLine(t, lim, beg), lim, sep, n - 1)

LinesIn(t, beg, lim) == Newlines(t, beg, lim) + IF beg < lim /\ t[lim - 1] # Eol THEN 1 ELSE 0

Pend(t, S, lim, n) == [PrLines(t, S, S.lastout, lim, "-", n) EXCEPT !.pending = @ - n]
PrPending(t, buf, S, lim) ==
    IF S.lastout = 0 THEN Pend(t, [S EXCEPT !.lastout = buf], lim, Min({S.pending, LinesIn(t, buf, lim)}))
    ELSE Pend(t, S, lim, Min({S.pending, LinesIn(t, S.lastout, lim)}))

\* n lines back from p, but not before bp
RECURSIVE LinesBack(_, _, _, _)
LinesBack(t, bp, p, n) ==
    IF n = 0 \/ p <= bp THEN p ELSE LinesBack(t, bp, LineStart(t, bp, p - 1), n - 1)

Separated(o, S, p) ==
    IF (o.before > 0 \/ o.after > 0) /\ S.used /\ p # S.lastout
    THEN [S EXCEPT !.out = Append(@, <<0, <<>>, "--">>)] ELSE S
LeadingFrom(o, t, S, p, beg) == PrLines(t, Separated(o, S, p), p, beg, "-", Len(t))
Leading(o, t, buf, S, beg) ==
    LeadingFrom(o, t, S, LinesBack(t, IF S.lastout = 0 THEN buf ELSE S.lastout, beg, o.before), beg)

\* prtext(): the lines between beg and lim, which are counted
Quiet(o) == o.mode # "show"
PrText(o, t, buf, S, beg, lim) ==
    IF Quiet(o) THEN [S EXCEPT !.nlines = @ + LinesIn(t, beg, lim), !.used = TRUE]
    ELSE [PrLines(t, Leading(o, t, buf, IF S.pending > 0 THEN PrPending(t, buf, S, beg) ELSE S, beg),
                  beg, lim, ":", Len(t))
          EXCEPT !.nlines = @ + LinesIn(t, beg, lim), !.used = TRUE, !.pending = o.after]

-----------------------------------------------------------------------------
(* grepbuf() and grep() *)

RECURSIVE GrepBuf(_, _, _, _, _, _, _)
\* The rest, of which no line matches
NoneLeft(o, t, buf, S, p, lim) == IF o.invert /\ p < lim THEN PrText(o, t, buf, S, p, lim) ELSE S
MatchAt(P, o, t, buf, S, p, lim, l) ==
    IF o.invert THEN GrepBuf(P, o, t, buf, IF p < l.b THEN PrText(o, t, buf, S, p, l.b) ELSE S, l.end, lim)
    ELSE IF o.mode = "first" THEN PrText(o, t, buf, S, l.b, l.end)
    ELSE GrepBuf(P, o, t, buf, PrText(o, t, buf, S, l.b, l.end), l.end, lim)
Matched(P, o, t, buf, S, p, lim, l) ==
    IF l.b \in {0, lim} THEN NoneLeft(o, t, buf, S, p, lim) ELSE MatchAt(P, o, t, buf, S, p, lim, l)
GrepBuf(P, o, t, buf, S, p, lim) == Matched(P, o, t, buf, S, p, lim, Execute(P, o, t, p, lim))

\* What follows the last match so far
Trailing(t, buf, lim, S) == IF S.pending > 0 THEN PrPending(t, buf, S, lim) ELSE S

Compile ==
    /\ pc = "compile"
    /\ prog' = IF opt.matcher = "F" THEN Fcompile(opt) ELSE EGcompile(opt, opt.matcher = "E")
    /\ pc' = "open"
    /\ UNCHANGED <<opt, text, bufbeg, buflim, save, residue, printed>>

Open ==
    /\ pc = "open" /\ pc' = "fill"
    /\ text' \in Texts
    /\ UNCHANGED <<opt, prog, bufbeg, buflim, save, residue, printed>>

\* fillbuf() and the top of the loop.  What was printed last is only known if it is still
\* there.
FillBuf ==
    /\ pc = "fill" /\ pc' = "scan"
    /\ \E n \in Reads : buflim' = Min({buflim + n, Len(text) + 1})
    /\ bufbeg' = buflim - save
    /\ printed' = [printed EXCEPT !.lastnl = buflim - save,
                                  !.lastout = IF @ # 0 THEN buflim - save ELSE 0]
    /\ UNCHANGED <<opt, prog, text, save, residue>>

\* The last newline in the buffer ends what can be searched.
Searched(lim) ==
    IF bufbeg + save - residue >= lim THEN printed
    ELSE Trailing(text, bufbeg, lim, GrepBuf(prog, opt, text, bufbeg, printed, bufbeg + save - residue, lim))

\* Lines are kept for the context of the next match, but none that was printed.
Kept(S, lim) ==
    LinesBack(text, IF S.lastout = 0 THEN bufbeg ELSE S.lastout, lim, opt.before)

Scan ==
    /\ pc = "scan" /\ buflim - bufbeg # save
    /\ \E lim \in {LineStart(text, bufbeg + save - residue, buflim)} :
          /\ residue' = buflim - lim
          /\ \E S \in {Searched(lim)} :
                IF S.nlines > 0 /\ opt.mode = "first" /\ ~opt.invert
                THEN pc' = "done" /\ printed' = S /\ UNCHANGED save
                ELSE \E beg \in {Kept(S, lim)} :
                        /\ pc' = "fill"
                        /\ save' = buflim - beg
                        /\ printed' = NlScan(text, [S EXCEPT !.lastout = IF beg # @ THEN 0 ELSE @], beg)
    /\ UNCHANGED <<opt, prog, text, bufbeg, buflim>>

\* What is left at the end of the file is a line as well.
Final(t) == Trailing(t, bufbeg, buflim + 1, GrepBuf(prog, opt, t, bufbeg, printed, buflim - residue, buflim + 1))
LastLine ==
    /\ pc = "scan" /\ buflim - bufbeg = save
    /\ pc' = "done"
    /\ printed' = IF residue > 0 THEN Final(Append(text, Eol)) ELSE printed
    /\ UNCHANGED <<opt, prog, text, bufbeg, buflim, save, residue>>

GrepInit ==
    /\ opt \in Commands
    /\ prog = <<>> /\ text = <<>> /\ pc = "compile"
    /\ bufbeg = 1 /\ buflim = 1 /\ save = 0 /\ residue = 0
    /\ printed = [lastout |-> 0, lastnl |-> 0, totalnl |-> 0, pending |-> 0, used |-> FALSE,
                  nlines |-> 0, out |-> <<>>]
GrepNext == Compile \/ Open \/ FillBuf \/ Scan \/ LastLine

-----------------------------------------------------------------------------
(* What grep is to print *)

Lines(t) ==
    LET ends == {0} \cup {i \in DOMAIN t : t[i] = Eol} \cup IF t = <<>> THEN {} ELSE {Len(t)}
        sorted == SetToSortSeq(ends, <)
    IN  [i \in 1..(Len(sorted) - 1) |->
            SelectSeq(SubSeq(t, sorted[i] + 1, sorted[i + 1]), LAMBDA c : c # Eol)]

Alone(line, i, len) == ~Re!WordAt(line, i - 1) /\ ~Re!WordAt(line, i + len)
Wanted(o, line) ==
    LET m == [t |-> line, fold |-> o.fold, eol |-> TRUE]
    IN  o.invert # \E i \in 1..(Len(line) + 1) : \E len \in Re!Lengths(o.e, m, i) :
                      CASE o.lines -> i = 1 /\ len = Len(line)
                        [] o.words /\ ~o.lines -> Alone(line, i, len)
                        [] OTHER -> TRUE

Context(o, chosen, n) == \E k \in chosen : k - o.before <= n /\ n <= k + o.after
Group(o, lines, chosen, n) ==
    IF ~Context(o, chosen, n) THEN <<>>
    ELSE (IF o.before + o.after > 0 /\ ~Context(o, chosen, n - 1) /\ \E k \in chosen : k < n - 1
          THEN << <<0, <<>>, "--">> >> ELSE <<>>)
         \o << <<n, Append(lines[n], Eol), IF n \in chosen THEN ":" ELSE "-">> >>
Expected(o, lines, chosen) == FlattenSeq([n \in DOMAIN lines |-> Group(o, lines, chosen, n)])

Agrees(lines, chosen) ==
    CASE opt.mode = "show" -> printed.out = Expected(opt, lines, chosen)
      [] opt.mode = "count" -> printed.nlines = Cardinality(chosen)
      [] opt.mode = "first" -> (printed.nlines > 0) = (chosen # {})
SelectsFrom(lines) == Agrees(lines, {n \in DOMAIN lines : Wanted(opt, lines[n])})

\* Whatever the reads return, grep prints the lines that match (or do not), each once, in
\* order and with its number, and the context that was asked for.
Selects == pc = "done" => SelectsFrom(Lines(text))

=============================================================================
