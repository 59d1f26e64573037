--------------------------------- MODULE Dd ---------------------------------
(***************************************************************************)
(* dd (bin/dd): blocks of one size are read, converted, gathered to blocks *)
(* of another size and written.  Reads of a pipe and writes may be short,  *)
(* and a read may fail.                                                    *)
(*                                                                         *)
(* A buffer is the sequence of bytes it holds: the shared buffer of a copy *)
(* without records is outbuf.  db is the array out.db with the bytes that  *)
(* are no longer counted: at the end some of them are written.             *)
(*                                                                         *)
(* Left out: tapes, tables for other character sets, statistics other than *)
(* the count of blocks read.                                               *)
(***************************************************************************)
EXTENDS Integers, Sequences, SequencesExt, FiniteSetsExt

CONSTANTS
    Operands,   \* commands, before jcl() has looked at them
    Inputs,     \* what there is to read
    Old,        \* what the output file held
    Upper,      \* toupper(), a function on bytes
    Nul, Blank, NewLine,
    Errors      \* how many reads may fail

VARIABLES
    opt, pc,
    rest,       \* input that is still to be read
    inbuf, outbuf,
    intrunc,    \* the rest of a record that was too long is being dropped
    cnt,        \* of the block being written, or of the record being converted
    force,      \* dd_out()'s parameter
    pending,    \* zeros that were not written
    file, pos,  \* the output and the place in it
    blocks,     \* st.in_full + st.in_part
    db,         \* out.db[0] and so on, as far as something was put there
    chunks      \* what the reads returned: no variable of the program
vars == <<opt, pc, rest, inbuf, outbuf, intrunc, cnt, force, pending, file, pos, blocks, db, chunks>>

Zeros(n) == [i \in 1..n |-> Nul]
Fill(o, n) == [i \in 1..n |-> IF o.records = "none" THEN Nul ELSE Blank]
Upto(s, n) == SubSeq(s, 1, Min({n, Len(s)}))
From(s, n) == SubSeq(s, n + 1, Len(s))
\* What a file holds after bytes were written at a place, be it behind its end.
Put(f, at, bytes) ==
    Upto(f, at) \o Zeros(at - Len(f)) \o bytes \o From(f, Min({at + Len(bytes), Len(f)}))

\* jcl(): bs only means what it says if nothing is converted.
Jcl(o) == [o EXCEPT !.bs = @ /\ o.records = "none" /\ ~o.swab /\ ~o.ucase]

-----------------------------------------------------------------------------
(* setup(): open(), pos_in(), pos_out(), ftruncate() *)

Opened(o) == CASE o.seek = 0 /\ ~o.notrunc -> <<>>
               [] o.seek > 0 /\ ~o.notrunc -> Upto(Old, o.seek * o.obs) \o Zeros(o.seek * o.obs - Len(Old))
               [] OTHER -> Old
Skip == opt.skip * opt.ibs

Setup ==
    /\ pc = "setup"
    /\ file' = Opened(opt) /\ pos' = opt.seek * opt.obs
    /\ rest' = From(rest, Min({Skip, Len(rest)}))
    /\ pc' = IF opt.pipe /\ Len(rest) < Skip THEN "failed" ELSE "in"
    /\ UNCHANGED <<opt, inbuf, outbuf, intrunc, cnt, force, pending, blocks, db, chunks>>

-----------------------------------------------------------------------------
(* dd_in() *)

CountReached == opt.count # -1 /\ blocks >= opt.count

Synced(c) == IF opt.sync THEN c \o Fill(opt, opt.ibs - Len(c)) ELSE c
Swab(c) == [i \in DOMAIN c |-> CASE i % 2 = 0 -> c[i - 1]
                                 [] i % 2 = 1 /\ i < Len(c) -> c[i + 1]
                                 [] OTHER -> c[i]]
Swabbed(c) == IF opt.swab THEN Swab(c) ELSE c
Translated(c) == IF opt.ucase THEN [i \in DOMAIN c |-> Upper[c[i]]] ELSE c

\* The array with these bytes at its beginning.
Over(bytes) == bytes \o From(db, Min({Len(bytes), Len(db)}))

\* def(): there is one buffer for both, which is written once it holds a block.
Copied(c) ==
    /\ outbuf' = outbuf \o Translated(c) /\ db' = Over(outbuf')
    /\ IF Len(outbuf) + Len(c) >= opt.obs
       THEN pc' = "out" /\ cnt' = opt.obs ELSE pc' = "in" /\ UNCHANGED cnt
    /\ force' = FALSE /\ UNCHANGED <<inbuf, intrunc>>

\* With bs, a block is written as it was read.
AsRead(c) ==
    /\ outbuf' = c /\ db' = Over(c) /\ pc' = "out" /\ cnt' = Len(c) /\ force' = TRUE
    /\ UNCHANGED <<inbuf, intrunc>>

\* block() first goes on dropping what was too long, up to the end of the line.
AfterLine(c) == From(c, Min({Len(c)} \cup {i \in DOMAIN c : c[i] = NewLine}))
Dropping(c) == intrunc /\ \A i \in DOMAIN c : c[i] # NewLine
ToRecords(c) ==
    /\ inbuf' = inbuf \o (IF intrunc THEN AfterLine(c) ELSE c)
    /\ intrunc' = Dropping(c)
    /\ pc' = opt.records /\ UNCHANGED <<outbuf, cnt, force, db>>

Convert(c) ==
    CASE opt.bs -> AsRead(c)
      [] ~opt.bs /\ opt.records = "none" -> Copied(Swabbed(c))
      [] OTHER -> ToRecords(Swabbed(c))

Read ==
    /\ pc = "in" /\ ~CountReached /\ rest # <<>>
    /\ \E n \in 1..Min({opt.ibs, Len(rest)}) :
          /\ opt.pipe \/ n = Min({opt.ibs, Len(rest)})
          /\ rest' = From(rest, n)
          /\ chunks' = Append(chunks, Upto(rest, n))
          /\ Convert(Synced(Upto(rest, n)))
    /\ blocks' = blocks + 1
    /\ UNCHANGED <<opt, pending, file, pos>>

\* After a read error, dd looks behind it; with sync, the block is empty.  Only a block
\* that is not omitted counts.
Failures == Len(SelectSeq(chunks, LAMBDA c : c = <<>>))
ReadError ==
    /\ pc = "in" /\ ~CountReached /\ ~opt.pipe /\ rest # <<>> /\ Failures < Errors
    /\ chunks' = Append(chunks, <<>>)
    /\ IF ~opt.noerror
       THEN pc' = "failed" /\ UNCHANGED <<rest, inbuf, outbuf, intrunc, cnt, force, blocks, db>>
       ELSE /\ rest' = From(rest, Min({opt.ibs, Len(rest)}))
            /\ IF opt.sync THEN Convert(Fill(opt, opt.ibs)) /\ blocks' = blocks + 1
               ELSE UNCHANGED <<pc, inbuf, outbuf, intrunc, cnt, force, blocks, db>>
    /\ UNCHANGED <<opt, pending, file, pos>>

\* With sync, the buffer has been cleared for the read that finds the end.
EndOfInput ==
    /\ pc = "in" /\ (CountReached \/ rest = <<>>) /\ pc' = "close"
    /\ db' = IF opt.sync /\ opt.records = "none" /\ ~CountReached THEN Over(outbuf \o Zeros(opt.ibs)) ELSE db
    /\ UNCHANGED <<opt, rest, inbuf, outbuf, intrunc, cnt, force, pending, file, pos, blocks, chunks>>

-----------------------------------------------------------------------------
(* block() and unblock(): a record at a time *)

Added(bytes, there) ==
    /\ outbuf' = outbuf \o bytes /\ db' = Over(outbuf')
    /\ IF Len(outbuf) + Len(bytes) >= opt.obs
       THEN pc' = "out" /\ cnt' = opt.obs ELSE pc' = there /\ UNCHANGED cnt
    /\ force' = FALSE

Fits(n) == Upto(inbuf, n) \o [i \in 1..(opt.cbs - n) |-> Blank]
\* The line ends within a record's length, or it is cut to it.
Block ==
    /\ pc = "block"
    /\ LET line == {i \in 1..Min({opt.cbs, Len(inbuf)}) : inbuf[i] = NewLine}
       IN  CASE line # {} ->
                    /\ Added(Translated(Fits(Min(line) - 1)), "block")
                    /\ inbuf' = From(inbuf, Min(line)) /\ UNCHANGED intrunc
             [] line = {} /\ Len(inbuf) >= opt.cbs ->
                    /\ Added(Translated(Fits(opt.cbs)), "block")
                    /\ inbuf' = AfterLine(From(inbuf, opt.cbs))
                    /\ intrunc' = (\A i \in (opt.cbs + 1)..Len(inbuf) : inbuf[i] # NewLine)
             [] OTHER -> pc' = "in" /\ UNCHANGED <<inbuf, outbuf, intrunc, cnt, force, db>>
    /\ UNCHANGED <<opt, rest, pending, file, pos, blocks, chunks>>

Trimmed(c) == Upto(c, Max({0} \cup {i \in DOMAIN c : c[i] # Blank}))
Unblock ==
    /\ pc = "unblock"
    /\ IF Len(inbuf) >= opt.cbs
       THEN /\ Added(Append(Trimmed(Upto(inbuf, opt.cbs)), NewLine), "unblock")
            /\ inbuf' = From(inbuf, opt.cbs)
       ELSE pc' = "in" /\ UNCHANGED <<inbuf, outbuf, cnt, force, db>>
    /\ UNCHANGED <<opt, rest, intrunc, pending, file, pos, blocks, chunks>>

-----------------------------------------------------------------------------
(* dd_out() and dd_close() *)

Sparse == opt.sparse /\ ~force /\ \A i \in 1..cnt : outbuf[i] = Nul
Back == CASE force /\ ~opt.bs -> "done" [] opt.records = "none" -> "in" [] OTHER -> opt.records

\* Mutant: what is left of a block after a short write is taken for a block.
MutAfter(n) ==
    IF Len(outbuf) - n >= opt.obs THEN cnt' = opt.obs /\ UNCHANGED pc ELSE cnt' = 0 /\ pc' = Back

\* n bytes are out, and perhaps there is another block.
After(n) ==
    CASE n < cnt -> cnt' = cnt - n /\ UNCHANGED pc
      [] n = cnt /\ Len(outbuf) - n >= opt.obs -> cnt' = opt.obs /\ UNCHANGED pc
      [] OTHER -> cnt' = 0 /\ pc' = Back

\* Before a block that is written, the file is extended over the zeros that were not; at
\* the end the first byte of the array is written for the last of them, counted or not.
Hole(f) == IF pending > 0 /\ force THEN Put(f, pos + pending - 1, <<db[1]>>) ELSE f

\* At the end of dd_out(), what is left is moved to the beginning.
Write ==
    /\ pc = "out"
    /\ IF Sparse
       THEN pending' = pending + cnt /\ outbuf' = From(outbuf, cnt) /\ After(cnt) /\ UNCHANGED <<file, pos>>
       ELSE \E n \in IF cnt = 0 THEN {0} ELSE 1..cnt :
               /\ n \in {0, 1, cnt}
               /\ file' = Put(Hole(file), pos + pending, Upto(outbuf, n))
               /\ pos' = pos + pending + n
               /\ pending' = 0 /\ outbuf' = From(outbuf, n) /\ After(n)
    /\ db' = IF pc' = "out" THEN db ELSE Over(outbuf')
    /\ UNCHANGED <<opt, rest, inbuf, intrunc, force, blocks, chunks>>

\* What is in the buffers at the end
Left == CASE opt.records = "block" /\ inbuf # <<>> -> Fits(Len(inbuf))
          [] opt.records = "unblock" /\ inbuf # <<>> -> Append(Trimmed(inbuf), NewLine)
          [] OTHER -> <<>>

\* osync fills the block from out.dbp on, which block_close() leaves in front of the record
\* it has added: the filling goes over the record, and the end of the block is what the
\* array held there, or any byte if nothing was put there yet.
Osynced(fresh) ==
    LET end == outbuf \o Left
        dbp == IF opt.records = "block" THEN Len(outbuf) ELSE Len(end)
        array == Over(end) \o [i \in 1..opt.obs |-> fresh]
    IN  IF opt.osync /\ Len(end) \in 1..(opt.obs - 1)
        THEN Upto(Put(array, dbp, Fill(opt, opt.obs - Len(end))), opt.obs)
        ELSE end
Close ==
    /\ pc = "close"
    /\ \E fresh \in {Nul, NewLine} : outbuf' = Osynced(fresh)
    /\ db' = Over(outbuf')
    /\ cnt' = Len(outbuf') /\ force' = TRUE /\ inbuf' = <<>>
    /\ pc' = IF outbuf' # <<>> \/ pending > 0 THEN "out" ELSE "done"
    /\ UNCHANGED <<opt, rest, intrunc, pending, file, pos, blocks, chunks>>

DdInit ==
    /\ \E o \in Operands : opt = Jcl(o)
    /\ pc = "setup" /\ rest \in Inputs
    /\ inbuf = <<>> /\ outbuf = <<>> /\ intrunc = FALSE /\ cnt = 0 /\ force = FALSE
    /\ pending = 0 /\ file = Old /\ pos = 0 /\ blocks = 0 /\ db = <<>> /\ chunks = <<>>
DdNext == Setup \/ Read \/ ReadError \/ EndOfInput \/ Block \/ Unblock \/ Write \/ Close

-----------------------------------------------------------------------------
(* What dd is to write *)

RECURSIVE Lines(_)
Lines(s) ==
    IF s = <<>> THEN <<>>
    ELSE LET n == Min({Len(s)} \cup {i \in DOMAIN s : s[i] = NewLine})
         IN  <<SelectSeq(Upto(s, n), LAMBDA b : b # NewLine)>> \o Lines(From(s, n))
RECURSIVE Pieces(_)
Pieces(s) == IF s = <<>> THEN <<>> ELSE <<Upto(s, opt.cbs)>> \o Pieces(From(s, Min({opt.cbs, Len(s)})))

Record(line) == [i \in 1..opt.cbs |-> IF i \in DOMAIN line THEN line[i] ELSE Blank]
Recorded(stream) ==
    CASE opt.records = "none" -> stream
      [] opt.records = "block" -> FlattenSeq([i \in DOMAIN Lines(stream) |-> Record(Lines(stream)[i])])
      [] opt.records = "unblock" ->
            FlattenSeq([i \in DOMAIN Pieces(stream) |-> Append(Trimmed(Pieces(stream)[i]), NewLine)])

Block1(c) == IF c = <<>> /\ ~opt.sync THEN <<>> ELSE Swabbed(Synced(c))
Stream == FlattenSeq([i \in DOMAIN chunks |-> Block1(chunks[i])])
Rounded(out) ==
    IF opt.osync /\ Len(out) % opt.obs # 0 THEN out \o Fill(opt, opt.obs - (Len(out) % opt.obs)) ELSE out
Wanted(out) == Put(Opened(opt), opt.seek * opt.obs, out)

\* conv=sparse writes some byte for the last one of a hole that ends the whole blocks (README).
Spoiled(out, whole) ==
    LET n == opt.seek * opt.obs + Len(out) - (Len(out) % opt.obs)
    IN  /\ opt.sparse /\ Len(out) >= opt.obs /\ whole[n] = Nul
        /\ file = [whole EXCEPT ![n] = db[1]]

LineEnds(stream) == stream = <<>> \/ stream[Len(stream)] = NewLine

\* The last record is not translated if its line does not end (README).
Unfinished(stream) == opt.records = "block" /\ opt.ucase /\ ~LineEnds(stream)

\* With the last record there may be more than a block, and then it is not filled (README).
NotFilled(out) == opt.osync /\ opt.records # "none" /\ file = Wanted(out)

\* If its line does not end, the last record is written over where the block is filled (README):
\* what is in front of it is right, and so is the length.
Overwritten(stream, out, whole) ==
    LET n == Len(out) - opt.cbs
    IN  /\ opt.osync /\ opt.records = "block" /\ ~LineEnds(stream)
        /\ (n % opt.obs) + opt.cbs < opt.obs
        /\ Len(file) = Len(whole)
        /\ Upto(file, opt.seek * opt.obs + n) = Upto(whole, opt.seek * opt.obs + n)

\* What is written does not depend on how the input came, on the sizes of the blocks, or
\* on how much a write took.
Writes ==
    pc = "done" =>
        LET out == Translated(Recorded(Stream))
            whole == Wanted(Rounded(out))
        IN  \/ file = whole
            \/ Spoiled(out, whole)
            \/ Unfinished(Stream)
            \/ NotFilled(out)
            \/ Overwritten(Stream, out, whole)

=============================================================================
