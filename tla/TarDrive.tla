------------------------------ MODULE TarDrive ------------------------------
(***************************************************************************)
(* The archive of tar as its other parts see it (usr.bin/tar/buffer.c): a  *)
(* block of records, read from or written to volumes.  A drive is a record *)
(* and every operator gives the drive after the call.  Sizes are in units, *)
(* RECORDSIZE of them to a record.                                         *)
(*                                                                         *)
(*   vols, vol, pos      the volumes, the one in the drive and the record  *)
(*                       its descriptor stands before                      *)
(*   block, rec, last    ar_block, ar_record and ar_last, from 1           *)
(*   order, capacity     the volumes that will be put in when one ends, and *)
(*                       the records each of them holds                    *)
(*   save, real          save_name/_totsize/_sizeleft and real_s_...       *)
(*   at, area, saving    head, in the block or saved, and save_rec         *)
(*   start               output_start                                      *)
(*   long, name, link    next_long_name and _link, current_file_name and   *)
(*                       current_link_name                                 *)
(*   new, nblocks        new_block and number_of_blocks_read of update.c   *)
(***************************************************************************)
EXTENDS Integers, Sequences, SequencesExt, FiniteSetsExt

CONSTANTS
    RECORDSIZE, Blocking,
    ReadErrorMax

NoFile == [name |-> <<>>, tot |-> 0, left |-> 0]
Zeros == [kind |-> "data", data |-> [i \in 1..RECORDSIZE |-> ""]]
Label(n) == [kind |-> "header", name |-> <<"Volume">>, flag |-> "V", size |-> 0, offset |-> n,
             link |-> <<>>, sp |-> <<>>, ext |-> FALSE, mtime |-> 0, mode |-> "", dev |-> 0]
Continued(name, left, offset) ==
    [Label(offset) EXCEPT !.name = name, !.flag = "M", !.size = left]

\* The sizes that reads of a pipe return, one after the other; 0 is an error.
Arrival(d) == d.arrivals[1 + (d.nreads % Len(d.arrivals))]

Exit(d, status) == [d EXCEPT !.exit = status]
Running(d) == d.exit = ""

RECURSIVE Relative(_)
Relative(name) == IF name # <<>> /\ name[1] = "/" THEN Relative(Tail(name)) ELSE name

-----------------------------------------------------------------------------
(* Writing *)

Write(d, records) ==
    [d EXCEPT !.vols[d.vol] = SubSeq(@, 1, d.pos) \o records \o SubSeq(@, d.pos + Len(records) + 1, Len(@)),
              !.pos = @ + Len(records)]

\* new_volume() takes the next volume of the order, closing this one; the answer "q" when
\* there is none.  A volume that is written starts empty.
NewVolume(d, writing) ==
    IF d.order = <<>> THEN Exit(d, "no volume")
    ELSE [d EXCEPT !.vol = d.order[1], !.order = Tail(@), !.pos = 0,
                   !.vols = IF writing THEN [@ EXCEPT ![d.order[1]] = <<>>] ELSE @]

FileInDrive(d) == IF d.save.name = <<>> THEN NoFile ELSE [d.save EXCEPT !.name = Relative(@)]

\* The block goes on with the next volume, behind the headers that say what it continues;
\* the records that they push out of it are copied to the front of the empty block.
Behind(headers, d, back) ==
    [Write(d, SubSeq(headers \o d.block, 1, Blocking)) EXCEPT
        !.block = SubSeq(@, Blocking - back + 1, Blocking) \o SubSeq(@, back + 1, Blocking),
        !.rec = back + 1,
        !.real = IF @.left >= back * RECORDSIZE THEN [@ EXCEPT !.left = @ - back * RECORDSIZE] ELSE NoFile]
Headed(headers, d) == Behind(headers, d, Len(headers))
WriteOnNext(d) ==
    IF ~Running(d) THEN d
    ELSE Headed((IF d.label THEN <<Label(d.vol)>> ELSE <<>>) \o
                (IF d.real.name # <<>> THEN <<Continued(d.real.name, d.real.left, d.real.tot - d.real.left)>> ELSE <<>>),
                d)

FlWrite(d) ==
    IF d.pos + Blocking <= d.capacity
    THEN [Write(d, d.block) EXCEPT !.real = IF d.multivol THEN FileInDrive(d) ELSE @]
    ELSE IF ~d.multivol THEN Exit(d, "write error")
    ELSE WriteOnNext(NewVolume(Write(d, SubSeq(d.block, 1, d.capacity - d.pos)), TRUE))

-----------------------------------------------------------------------------
(* Reading *)

\* One read of at most "want" units; d.got is what it returns, -1 for an error.
Took(d, got) ==
    [d EXCEPT !.nreads = @ + 1, !.got = got, !.pos = @ + (d.part + Max({got, 0})) \div RECORDSIZE,
              !.part = (@ + Max({got, 0})) % RECORDSIZE]
ReadSome(d, want) ==
    Took(d, IF d.arrivals # <<>> /\ Arrival(d) = 0 THEN -1
            ELSE Min({want, (Len(d.vols[d.vol]) - d.pos) * RECORDSIZE - d.part}
                     \cup (IF d.arrivals = <<>> THEN {} ELSE {Arrival(d)})))

ReadError(d) ==
    IF d.baserec = 0 \/ d.errors > ReadErrorMax THEN Exit(d, "read error")
    ELSE [d EXCEPT !.errors = @ + 1]

\* n records from a place of the volume are the block.
Fill(d, from, n) ==
    [d EXCEPT !.last = n + 1, !.block = SubSeq(d.vols[d.vol], from + 1, from + n) \o SubSeq(@, n + 1, Blocking)]

\* The rest of a short block: whole records are a block, and a reader that reblocks goes on.
RECURSIVE ShortRead(_, _, _)
ShortRead(d, from, left) ==
    IF ~Running(d) THEN d
    ELSE IF d.got < 0 THEN ShortRead(ReadSome(ReadError(d), left), from, left)
    ELSE IF (left - d.got) % RECORDSIZE = 0 THEN Fill(d, from, Blocking - (left - d.got) \div RECORDSIZE)
    ELSE IF ~d.reblock THEN Exit(d, "short read")
    ELSE IF d.got = 0 THEN Exit(d, "not on block boundary")
    ELSE ShortRead(ReadSome(d, left - d.got), from, left - d.got)

\* What the first records of a volume say: the number of them, or -1 for a volume that is
\* not the one that goes on with the file.
\* Mutant: any volume that goes on with the file will do.
MutContinues(d, h) == h.kind = "header" /\ h.flag = "M" /\ h.name = d.real.name /\ d.real.tot = h.size + h.offset
Continues(d, h) ==
    /\ h.kind = "header" /\ h.flag = "M" /\ h.name = d.real.name
    /\ d.real.tot = h.size + h.offset /\ d.real.tot - d.real.left = h.offset
Headers(d, label) ==
    IF d.real.name = <<>> THEN label ELSE IF Continues(d, d.block[label + 1]) THEN label + 1 ELSE -1
VolumeHeaders(d) == Headers(d, IF d.block[1].kind = "header" /\ d.block[1].flag = "V" THEN 1 ELSE 0)

\* fl_read() of the next volume: another one until it fits, and whatever a short block holds.
RECURSIVE ReadNextVolume(_)
Checked(d) ==
    IF ~Running(d) \/ d.got < Blocking * RECORDSIZE THEN d
    ELSE IF VolumeHeaders(d) < 0 THEN ReadNextVolume(NewVolume(d, FALSE))
    ELSE [d EXCEPT !.rec = VolumeHeaders(d) + 1]
ReadNextVolume(d) ==
    IF ~Running(d) THEN d
    ELSE Checked(ShortRead(ReadSome(d, Blocking * RECORDSIZE), 0, Blocking * RECORDSIZE))

ReadBlock(d, r) ==
    IF d.multivol /\ (r.got = 0 \/ (r.got \in 1..(Blocking * RECORDSIZE - 1) /\ ~d.reblock))
    THEN ReadNextVolume(NewVolume(r, FALSE))
    ELSE ShortRead(r, d.pos, Blocking * RECORDSIZE)

\* fl_read(): the header that is still wanted is saved before its block is overwritten.
KeepHead(d) == IF d.saving /\ d.at > 0 THEN [d EXCEPT !.area = d.block[d.at], !.at = 0] ELSE d
StartRead(d) == ReadBlock(d, ReadSome(d, Blocking * RECORDSIZE))
FlRead(d) == StartRead([KeepHead(d) EXCEPT !.errors = 0, !.real = IF d.multivol THEN FileInDrive(d) ELSE @])

-----------------------------------------------------------------------------
(* Records *)

\* backspace_output(): back to the block that was read last, to write it again.
BackspaceOutput(d) ==
    IF d.pos >= Blocking THEN [d EXCEPT !.pos = @ - Blocking]
    ELSE [d EXCEPT !.block = [i \in 1..Blocking |-> IF i < d.start THEN Zeros ELSE @[i]]]

Flushed(d) == IF d.reading THEN FlRead(d) ELSE FlWrite(d)
Turned(d) == IF d.reading /\ d.starting
             THEN BackspaceOutput([d EXCEPT !.starting = FALSE, !.reading = FALSE]) ELSE d
FlushArchive(d) == Flushed(Turned([d EXCEPT !.baserec = @ + d.last - 1, !.rec = 1, !.last = Blocking + 1]))

\* findrec() gives NULL when rec = last afterwards.
AtRecord(d) == IF d.rec = d.last THEN [d EXCEPT !.eof = TRUE] ELSE d
FindRec(d) == IF d.rec # d.last \/ d.eof \/ ~Running(d) THEN d ELSE AtRecord(FlushArchive(d))
NoRecord(d) == d.rec = d.last

\* userec() of a record n; the record after the last one is an error of the program.
UseRec(d, n) == IF n >= d.last THEN Exit(d, "abort") ELSE [d EXCEPT !.rec = Max({@, n + 1})]
UseNext(d) == UseRec(d, d.rec)

\* endofrecs() less ar_record
Room(d) == d.last - d.rec

ResetEof(d) ==
    IF d.eof THEN [d EXCEPT !.eof = FALSE, !.rec = 1, !.last = Blocking + 1, !.reading = FALSE] ELSE d

SaveRec(d, on) == [d EXCEPT !.saving = on]
SetHead(d) == [d EXCEPT !.at = d.rec]
HeadOf(d) == IF d.at > 0 THEN d.block[d.at] ELSE d.area

\* open_archive(): "write", "read" or "update" the volumes.
OpenArchive(how, vols, order, opt) ==
    LET d == [vols |-> IF how = "write" THEN [vols EXCEPT ![1] = <<>>] ELSE vols, vol |-> 1, pos |-> 0,
              part |-> 0, order |-> order, block |-> [i \in 1..Blocking |-> Zeros], rec |-> 1,
              last |-> Blocking + 1, reading |-> how # "write", starting |-> FALSE, eof |-> FALSE,
              start |-> 1, long |-> [name |-> <<>>, link |-> <<>>], name |-> <<>>, link |-> <<>>,
              baserec |-> 0, new |-> <<>>, nblocks |-> 0, errors |-> 0, nreads |-> 0, got |-> 0, save |-> NoFile, real |-> NoFile, at |-> 0,
              area |-> Zeros, saving |-> FALSE, exit |-> "", multivol |-> opt.multivol,
              label |-> opt.label, capacity |-> opt.capacity, reblock |-> opt.arrivals # <<>>, arrivals |-> opt.arrivals]
    IN  IF how # "write" THEN FindRec([d EXCEPT !.last = 1])
        ELSE IF opt.label THEN UseNext([d EXCEPT !.block[1] = Label(1)])
        ELSE d

Closed(d, truncate) == IF truncate /\ Running(d) THEN [d EXCEPT !.vols[d.vol] = SubSeq(@, 1, d.pos)] ELSE d
CloseArchive(d, truncate) ==
    Closed(IF Running(d) /\ (d.starting \/ ~d.reading) THEN FlushArchive(d) ELSE d, truncate)

\* write_eot(): the rest of the block is zeroed, and one record of it used.
WriteEot(d) ==
    IF ~Running(d) \/ NoRecord(d) THEN d
    ELSE UseNext([d EXCEPT !.block = [i \in 1..Blocking |-> IF i \in d.rec..(d.last - 1) THEN Zeros ELSE @[i]]])
=============================================================================
