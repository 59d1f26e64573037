--------------------------------- MODULE Tar ---------------------------------
(***************************************************************************)
(* tar: a session of commands on one archive, each a run of the program    *)
(* (usr.bin/tar/create.c, list.c, extract.c, update.c, tar.c).  What a run *)
(* has still to do is a stack of tasks, and a step takes the first of them *)
(* as far as the records that findrec() gives at once.                     *)
(*                                                                         *)
(* A tree of files is a sequence of entries, one for each name, in the     *)
(* order readdir() gives them; "files" are those that extraction makes.    *)
(***************************************************************************)
EXTENDS TarDrive, Functions

CONSTANTS
    Sessions,           \* [opt, plan, old]: the options, the commands, the files before extraction
    NAMSIZ, SPARSE_IN_HDR, SPARSE_EXT_HDR,
    MaxMajor, MaxMinor, \* the numbers whose octal digits fit the header
    Now

VARIABLES opt, plan, step, drive, todo, links, names, files, dirs, pc

Command == plan[step]
Task == todo[1]

EndsInSlash(name) == name # <<>> /\ Last(name) = "/"
RECURSIVE NoSlash(_)
NoSlash(name) == IF Len(name) > 1 /\ EndsInSlash(name) THEN NoSlash(Front(name)) ELSE name

\* A name of the list stands for the member and for what is below it.
Below(name, dir) ==
    /\ Len(name) >= Len(dir) /\ SubSeq(name, 1, Len(dir)) = dir
    /\ Len(name) = Len(dir) \/ name[Len(dir) + 1] = "/"
Parent(name) ==
    LET slashes == {i \in 1..Len(name) : name[i] = "/"}
    IN  IF slashes = {} THEN <<>> ELSE SubSeq(name, 1, Max(slashes) - 1)
Shown(name) == IF opt.absolute THEN name ELSE Relative(name)

\* check_exclude() of plain names: the last components of the name.
Excluded(name) ==
    \E x \in opt.exclude :
        \E i \in 1..Len(name) : SubSeq(name, i, Len(name)) = x /\ (i = 1 \/ name[i - 1] = "/")

-----------------------------------------------------------------------------
(* Tasks: records and names are the empty ones unless the task has them *)

Do(what, name) == [what |-> what, name |-> name, record |-> Zeros, units |-> <<>>, left |-> 0, tot |-> 0, array |-> <<>>]
DoPut(record) == <<[Do("put", <<>>) EXCEPT !.record = record]>>
DoData(name, units, size) ==
    <<[Do("write", name) EXCEPT !.units = units, !.left = size, !.tot = size], Do("end", <<>>)>>
DoSkip(size) == <<[Do("skip", <<>>) EXCEPT !.left = size]>>

CeilRecords(n) == (n + RECORDSIZE - 1) \div RECORDSIZE
Records(units) ==
    [i \in 1..CeilRecords(Len(units)) |->
        [kind |-> "data",
         data |-> [j \in 1..RECORDSIZE |-> IF (i - 1) * RECORDSIZE + j <= Len(units)
                                           THEN units[(i - 1) * RECORDSIZE + j] ELSE ""]]]
DoPutAll(records) == FlattenSeq([i \in DOMAIN records |-> DoPut(records[i])])

Cut(name) == SubSeq(name, 1, Min({Len(name), NAMSIZ - 1}))
HeaderOf(name, e, size, flag) ==
    [Label(0) EXCEPT !.name = Cut(Shown(name)), !.flag = flag, !.size = size, !.mtime = e.mtime, !.mode = e.mode]

\* write_long(): a header for a name that is too long, and the name with its end.
DoLong(name, flag) ==
    IF Len(name) < NAMSIZ THEN <<>>
    ELSE DoPut([Label(0) EXCEPT !.name = <<"@LongLink">>, !.flag = flag, !.size = Len(name) + 1])
         \o DoData(<<>>, Append(name, ""), Len(name) + 1)

\* start_header() to finish_header()
DoHeader(name, h) == DoLong(name, "L") \o DoPut(h)

-----------------------------------------------------------------------------
(* dump_file() *)

ZeroRecord(units) == \A i \in 1..Len(units) : units[i] = ""

\* deal_with_sparse(): where the records with data lie; a hole at the end is one unit.
Note(a, read) ==
    [offset |-> a.offset + Len(read),
     amidst |-> IF ZeroRecord(read) THEN a.amidst /\ Len(read) < RECORDSIZE ELSE TRUE,
     list |-> IF ZeroRecord(read) THEN a.list
              ELSE IF a.amidst THEN [a.list EXCEPT ![Len(a.list)].numbytes = @ + Len(read)]
              ELSE Append(a.list, [offset |-> a.offset, numbytes |-> Len(read)])]
Ended(a) == IF a.amidst THEN a.list ELSE Append(a.list, [offset |-> a.offset - 1, numbytes |-> 1])
SparseArray(units) ==
    Ended(FoldLeft(Note, [offset |-> 0, amidst |-> FALSE, list |-> <<>>],
                   [i \in 1..CeilRecords(Len(units)) |->
                       SubSeq(units, (i - 1) * RECORDSIZE + 1, Min({i * RECORDSIZE, Len(units)}))]))

FindNewFileSize(array) == FoldLeft(LAMBDA n, c : n + c.numbytes, 0, array)

\* The extended headers for the chunks that the header has no room for.
RECURSIVE ExtendedHeaders(_)
ExtendedHeaders(array) ==
    IF array = <<>> THEN <<>>
    ELSE <<[kind |-> "extended", sp |-> SubSeq(array, 1, Min({SPARSE_EXT_HDR, Len(array)})),
            ext |-> Len(array) > SPARSE_EXT_HDR]>>
         \o ExtendedHeaders(SubSeq(array, SPARSE_EXT_HDR + 1, Len(array)))

Chunks(e, array) ==
    FlattenSeq([i \in DOMAIN array |->
        Records(SubSeq(e.data, array[i].offset + 1, array[i].offset + array[i].numbytes))])
DumpSparse(name, e, array) ==
    DoHeader(name, [HeaderOf(name, e, FindNewFileSize(array), "S") EXCEPT
                       !.sp = SubSeq(array, 1, Min({SPARSE_IN_HDR, Len(array)})), !.ext = Len(array) > SPARSE_IN_HDR])
    \o DoPutAll(ExtendedHeaders(SubSeq(array, SPARSE_IN_HDR + 1, Len(array)))) \o DoPutAll(Chunks(e, array))

DumpRegular(name, e) ==
    IF opt.sparse /\ e.size - e.blocks * RECORDSIZE > RECORDSIZE THEN DumpSparse(name, e, SparseArray(e.data))
    ELSE DoHeader(name, HeaderOf(name, e, e.size, "0")) \o DoData(name, e.data, e.size)

\* The first name that was dumped of a file with several, and a symbolic link's.
LinkOf(e) == SelectSeq(links, LAMBDA l : l.ino = e.ino)
DumpLink(name, e, to, flag) ==
    DoLong(to, "K") \o DoHeader(name, [HeaderOf(name, e, 0, flag) EXCEPT !.link = Cut(to)])

DumpDirectory(name, e) ==
    IF opt.oldarch THEN <<>> ELSE DoHeader(Append(NoSlash(name), "/"), HeaderOf(Append(NoSlash(name), "/"), e, 0, "5"))

\* A device whose numbers do not fit is left out, but not the long name it had.
DumpSpecial(name, e) ==
    IF opt.oldarch THEN <<>>
    ELSE IF e.type = "dev" /\ (e.dev.major > MaxMajor \/ e.dev.minor > MaxMinor) THEN DoLong(name, "L")
    ELSE DoHeader(name, [HeaderOf(name, e, 0, IF e.type = "fifo" THEN "6" ELSE "3") EXCEPT !.dev = e.dev.major * 10 + e.dev.minor])

Children(dir) ==
    LET below == SelectSeq(Command.tree, LAMBDA e : Parent(e.name) = dir /\ ~Excluded(e.name))
    IN  [i \in DOMAIN below |-> Do("dump", below[i].name)]
Several(e) == /\ e.type \notin {"dir", "symlink"}
              /\ \E i, j \in DOMAIN Command.tree : i # j /\ Command.tree[i].ino = e.ino /\ Command.tree[j].ino = e.ino

Dump(name, e) ==
    IF Several(e) /\ LinkOf(e) # <<>> THEN DumpLink(name, e, Shown(LinkOf(e)[1].name), "1")
    ELSE CASE e.type = "reg" -> DumpRegular(name, e)
           [] e.type = "symlink" -> DumpLink(name, e, e.target, "2")
           [] e.type = "dir" -> DumpDirectory(name, e) \o Children(NoSlash(name))
           [] OTHER -> DumpSpecial(name, e)

Ready == pc = "run" /\ todo # <<>> /\ Running(drive)
Doing(what) == Ready /\ Task.what = what
Entries(name) == {i \in DOMAIN Command.tree : Command.tree[i].name = NoSlash(name)}

DumpFile ==
    /\ Doing("dump")
    /\ IF Entries(Task.name) = {} THEN todo' = Tail(todo) /\ UNCHANGED links
       ELSE \E e \in {Command.tree[i] : i \in Entries(Task.name)} :
              /\ todo' = Dump(Task.name, e) \o Tail(todo)
              /\ links' = IF Several(e) /\ LinkOf(e) = <<>> THEN <<[ino |-> e.ino, name |-> Task.name]>> \o links ELSE links
    /\ UNCHANGED <<opt, plan, step, drive, names, files, dirs, pc>>

-----------------------------------------------------------------------------
(* Putting records into the archive *)

PutRecords(d, records) ==
    IF ~Running(d) THEN d
    ELSE UseRec([d EXCEPT !.block = SubSeq(@, 1, d.rec - 1) \o records \o SubSeq(@, d.rec + Len(records), Blocking)],
                d.rec + Len(records) - 1)
Saving(d, name, tot, left) ==
    IF d.multivol /\ name # <<>> THEN [d EXCEPT !.save = [name |-> name, tot |-> tot, left |-> left]] ELSE d

\* A header, an extended header, a record of a sparse file.
Put ==
    /\ Doing("put")
    /\ drive' = PutRecords(FindRec(drive), <<Task.record>>)
    /\ todo' = Tail(todo)
    /\ UNCHANGED <<opt, plan, step, links, names, files, dirs, pc>>

\* As much of a file as the block has room for.  A read that gives less than it was asked
\* for leaves what the block held, and the rest of the size is padded.
WriteData ==
    /\ Doing("write")
    /\ \E f \in {FindRec(Saving(drive, Task.name, Task.tot, Task.left))} :
       \E want \in {Min({Task.left, Room(f) * RECORDSIZE})} :
       \E got \in {Min({want, Len(Task.units)})} :
          IF Task.left <= 0 THEN drive' = drive /\ todo' = Tail(todo)
          ELSE /\ drive' = IF got = 0 THEN UseNext(f)
                           ELSE PutRecords(f, Records([i \in 1..Min({want, CeilRecords(got) * RECORDSIZE}) |->
                                                          IF i <= got THEN Task.units[i] ELSE "stale"]))
               /\ todo' = <<[Task EXCEPT !.what = IF got = want THEN "write" ELSE "pad", !.left = @ - got,
                                         !.units = SubSeq(@, got + 1, Len(@))]>> \o Tail(todo)
    /\ UNCHANGED <<opt, plan, step, links, names, files, dirs, pc>>

Pad ==
    /\ Doing("pad")
    /\ IF Task.left <= 0 THEN drive' = drive /\ todo' = Tail(todo)
       ELSE /\ drive' = PutRecords(FindRec([drive EXCEPT !.save.left = Task.left]), <<Zeros>>)
            /\ todo' = [todo EXCEPT ![1].left = @ - RECORDSIZE]
    /\ UNCHANGED <<opt, plan, step, links, names, files, dirs, pc>>

\* The end of a command, with the archive closed or left as it is.
Finish(d) ==
    /\ drive' = d
    /\ step' = step + 1
    /\ pc' = "start"
    /\ todo' = <<>> /\ links' = <<>> /\ names' = <<>> /\ dirs' = <<>>
    /\ UNCHANGED <<opt, plan>>

EndDump ==
    /\ Doing("eot")
    /\ Finish(CloseArchive(WriteEot(FindRec(drive)), FALSE))
    /\ UNCHANGED files

-----------------------------------------------------------------------------
(* Reading what headers announce *)

Units(record) == IF record.kind = "data" THEN record.data ELSE [i \in 1..RECORDSIZE |-> "header"]
UnitsAt(d, n) == SubSeq(FlattenSeq([i \in 1..CeilRecords(n) |-> Units(d.block[d.rec + i - 1])]), 1, n)
SizeOf(h) == IF h.flag = "1" THEN 0 ELSE h.size

\* skip_file(), one record; save_name stays what it was.
Skip ==
    /\ Doing("skip")
    /\ \E f \in {FindRec([drive EXCEPT !.save.left = Task.left])} :
          IF Task.left <= 0 THEN drive' = drive /\ todo' = Tail(todo)
          ELSE /\ drive' = IF Running(f) /\ NoRecord(f) THEN Exit(f, "unexpected EOF") ELSE UseNext(f)
               /\ todo' = [todo EXCEPT ![1].left = @ - RECORDSIZE]
    /\ UNCHANGED <<opt, plan, step, links, names, files, dirs, pc>>

\* One extended header; the next task has the chunks when there is no other one.
Extended ==
    /\ Doing("extended")
    /\ \E f \in {FindRec(drive)} :
          /\ drive' = UseNext(f)
          /\ todo' = IF f.block[f.rec].kind # "extended" THEN Tail(todo)
                     ELSE IF f.block[f.rec].ext THEN [todo EXCEPT ![2].array = @ \o f.block[f.rec].sp]
                     ELSE [Tail(todo) EXCEPT ![1].array = @ \o f.block[f.rec].sp]
    /\ UNCHANGED <<opt, plan, step, links, names, files, dirs, pc>>

\* A long name is kept for the next header, whichever that is.
LongName ==
    /\ Doing("long")
    /\ \E f \in {FindRec(drive)} : \E n \in {Min({Task.left, Room(f) * RECORDSIZE})} :
          IF Task.left <= 0
          THEN /\ drive' = IF Task.record.flag = "L" THEN [drive EXCEPT !.long.name = Front(Task.units)]
                           ELSE [drive EXCEPT !.long.link = Front(Task.units)]
               /\ todo' = Tail(todo)
          ELSE /\ drive' = IF Running(f) /\ NoRecord(f) THEN Exit(f, "unexpected EOF")
                           ELSE UseRec(f, f.rec + CeilRecords(n) - 1)
               /\ todo' = [todo EXCEPT ![1].left = @ - n, ![1].units = @ \o UnitsAt(f, n)]
    /\ UNCHANGED <<opt, plan, step, links, names, files, dirs, pc>>

-----------------------------------------------------------------------------
(* extract_archive(): the files are [ino: names to files, node: the files] *)

Has(f, name) == name \in DOMAIN f.ino
Node(f, name) == f.node[f.ino[name]]
Change(f, name, node) == [f EXCEPT !.node[f.ino[name]] = node]
Touch(f, dir) == IF dir = <<>> THEN f ELSE [f EXCEPT !.node[f.ino[dir]].mtime = Now]
AddName(f, name, ino) == Touch([f EXCEPT !.ino = (name :> ino) @@ @], Parent(name))
Make(f, name, node) == AddName([f EXCEPT !.node = Append(@, node)], name, Len(f.node) + 1)
Unlink(f, name) == IF ~Has(f, name) THEN f
                   ELSE Touch([f EXCEPT !.ino = Restrict(@, DOMAIN @ \ {name})], Parent(name))
NewNode(type) == [type |-> type, data |-> <<>>, target |-> <<>>, dev |-> 0, mtime |-> Now, mode |-> ""]

\* make_dirs(): the directories that a name needs.
RECURSIVE MakeDirs(_, _)
MakeDirs(f, name) ==
    IF Parent(name) = <<>> \/ Has(f, Parent(name)) THEN f
    ELSE Make(MakeDirs(f, Parent(name)), Parent(name), NewNode("dir"))

\* What open(), link(), symlink() and mknod() find in the end: an old file is unlinked
\* first when that is asked for, and directories that are missing are made.
Place(f, name) == MakeDirs(IF opt.unlink /\ ~opt.keep THEN Unlink(f, name) ELSE f, name)
MakeAt(f, name, node) == IF Has(f, name) THEN f ELSE Make(f, name, node)
LinkAt(f, name, to) == IF Has(f, name) \/ ~Has(f, to) THEN f ELSE AddName(f, name, f.ino[to])
DirAt(f, name) == IF Has(f, name) THEN f ELSE Make(MakeDirs(f, name), name, NewNode("dir"))

Stat(h, node) == [node EXCEPT !.mtime = h.mtime, !.mode = h.mode]
Flag(record) == IF record.kind = "header" THEN record.flag ELSE "other"

\* The files after a member that has no data, and the tasks that one with data takes.
Extracted(f, name, link, h) ==
    CASE h.flag = "1" -> LinkAt(Place(f, name), name, link)
      [] h.flag = "2" -> MakeAt(Place(f, name), name, [NewNode("symlink") EXCEPT !.target = link])
      [] h.flag = "6" -> MakeAt(Place(f, name), name, Stat(h, NewNode("fifo")))
      [] h.flag = "3" -> MakeAt(Place(f, name), name, Stat(h, [NewNode("dev") EXCEPT !.dev = h.dev]))
      [] h.flag \in {"5", "0", "S"} /\ EndsInSlash(name) -> DirAt(f, NoSlash(name))
      [] OTHER -> f
Extraction(name, h) ==
    IF h.flag \in {"0", "S"} /\ ~EndsInSlash(name)
    THEN (IF h.ext THEN <<Do("extended", <<>>)>> ELSE <<>>) \o
         <<[Do("open", name) EXCEPT !.record = h, !.array = h.sp], Do("unsave", <<>>)>>
    ELSE (IF h.flag = "M" THEN DoSkip(h.size) ELSE <<>>) \o <<Do("unsave", <<>>)>>

\* The header says again what the file is, behind its extended headers; it is not
\* extracted where it may not be, and what follows is skipped.
Open ==
    /\ Doing("open")
    /\ LET h == Task.record
           f == Place(files, Task.name)
           stat == [Task EXCEPT !.what = "stat"]
       IN  IF Has(f, Task.name) /\ (opt.keep \/ Node(f, Task.name).type # "reg")
           THEN /\ todo' = (IF HeadOf(drive).ext THEN <<Do("extended", <<>>)>> ELSE <<>>) \o DoSkip(h.size) \o Tail(todo)
                /\ UNCHANGED files
           ELSE /\ todo' = <<[Task EXCEPT !.what = IF Flag(HeadOf(drive)) = "S" THEN "chunk" ELSE "read",
                                          !.left = h.size, !.tot = h.size], stat, Do("end", <<>>)>> \o Tail(todo)
                /\ files' = IF Has(f, Task.name) THEN Change(f, Task.name, [Node(f, Task.name) EXCEPT !.data = <<>>])
                            ELSE Make(f, Task.name, NewNode("reg"))
    /\ UNCHANGED <<opt, plan, step, drive, links, names, dirs, pc>>

\* lseek() and write()
WriteUnits(node, offset, units) ==
    [node EXCEPT !.data = [i \in 1..Max({Len(@), offset + Len(units)}) |->
        IF i \in (offset + 1)..(offset + Len(units)) THEN units[i - offset]
        ELSE IF i <= Len(@) THEN @[i] ELSE ""]]

ReadData ==
    /\ Doing("read")
    /\ \E f \in {FindRec(Saving(drive, Task.name, Task.tot, Task.left))} :
       \E n \in {Min({Task.left, Room(f) * RECORDSIZE})} :
          IF Task.left <= 0 \/ NoRecord(f)
          THEN /\ drive' = IF Task.left <= 0 THEN drive ELSE f
               /\ todo' = Tail(todo) /\ UNCHANGED files
          ELSE /\ drive' = UseRec(f, f.rec + CeilRecords(n) - 1)
               /\ todo' = [todo EXCEPT ![1].left = @ - n]
               /\ files' = Change(files, Task.name, [Node(files, Task.name) EXCEPT !.data = @ \o UnitsAt(f, n)])
    /\ UNCHANGED <<opt, plan, step, links, names, dirs, pc>>

\* extract_sparse_file(), one record of a chunk.
ReadChunk ==
    /\ Doing("chunk")
    /\ \E f \in {FindRec(drive)} :
       \E c \in {IF Task.array = <<>> THEN [offset |-> 0, numbytes |-> 0] ELSE Task.array[1]} :
       \E n \in {Min({c.numbytes, RECORDSIZE})} :
          IF Task.left <= 0 \/ NoRecord(f)
          THEN /\ drive' = IF Task.left <= 0 THEN drive ELSE f
               /\ todo' = Tail(todo) /\ UNCHANGED files
          ELSE /\ drive' = UseNext(f)
               /\ todo' = [todo EXCEPT ![1].left = @ - n,
                                       ![1].array = (IF c.numbytes > n
                                                     THEN <<[offset |-> c.offset + n, numbytes |-> c.numbytes - n]>>
                                                     ELSE <<>>) \o Tail(@)]
               /\ files' = Change(files, Task.name, WriteUnits(Node(files, Task.name), c.offset, UnitsAt(f, n)))
    /\ UNCHANGED <<opt, plan, step, links, names, dirs, pc>>

EndTask ==
    /\ Ready /\ Task.what \in {"end", "stat", "unsave"}
    /\ drive' = CASE Task.what = "end" -> [drive EXCEPT !.save.name = <<>>]
                  [] Task.what = "unsave" -> SaveRec(drive, FALSE)
                  [] OTHER -> drive
    /\ files' = IF Task.what = "stat" THEN Change(files, Task.name, Stat(Task.record, Node(files, Task.name))) ELSE files
    /\ todo' = Tail(todo)
    /\ UNCHANGED <<opt, plan, step, links, names, dirs, pc>>

-----------------------------------------------------------------------------
(* read_header(), and what each command does with what it gives *)

Status(f) ==
    IF ~Running(f) \/ NoRecord(f) THEN "EOF"
    ELSE IF f.block[f.rec] = Zeros THEN "zeros"
    ELSE IF f.block[f.rec].kind # "header" THEN "bad"
    ELSE IF f.block[f.rec].flag \in {"L", "K"} THEN "long"
    ELSE "header"
Named(f, h) ==
    [SetHead(f) EXCEPT !.name = IF f.long.name # <<>> THEN f.long.name ELSE h.name,
                       !.link = IF f.long.link # <<>> THEN f.long.link ELSE h.link,
                       !.long = [name |-> <<>>, link |-> <<>>]]

Matching(name) == {i \in DOMAIN names : Below(name, names[i].name)}

\* The list after name_match(): the name is found, and with --fast-read gone.
Matched(name, i) ==
    IF opt.fast_read /\ name = names[i].name THEN RemoveAt(names, i) ELSE [names EXCEPT ![i].found = TRUE]
Wanted(name) == (names = <<>> \/ Matching(name) # {}) /\ ~Excluded(name)
SkipMember(h) ==
    (IF h.ext THEN <<Do("extended", <<>>)>> ELSE <<>>) \o DoSkip(SizeOf(h)) \o todo

\* restore_saved_dir_info(): the directory that was made last comes first.
RestoreDirs(f) ==
    FoldLeft(LAMBDA g, s : Change(g, s.name, Stat(s, Node(g, s.name))), f, dirs)

\* read_and() and extract_archive() of the header
Extract(d, h, name) ==
    /\ names' = IF Matching(d.name) # {} THEN Matched(d.name, Min(Matching(d.name))) ELSE names
    /\ IF h.flag \in {"V", "M"} \/ Wanted(d.name)
       THEN /\ drive' = UseNext(SaveRec(d, TRUE))
            /\ todo' = Extraction(name, h) \o todo
            /\ files' = Extracted(files, name, d.link, h)
            /\ dirs' = IF EndsInSlash(name) /\ ~Has(files, NoSlash(name))
                       THEN <<[name |-> NoSlash(name), mtime |-> h.mtime, mode |-> h.mode]>> \o dirs ELSE dirs
       ELSE /\ drive' = UseNext(d)
            /\ todo' = IF h.flag = "5" THEN todo ELSE SkipMember(h)
            /\ UNCHANGED <<files, dirs>>

\* update_archive(): a member that is not older than its file finds the name.
Scan(d, h) ==
    /\ names' = IF /\ Command.cmd = "update" /\ Matching(d.name) # {}
                   /\ \E i \in Entries(d.name) : h.mtime >= Command.tree[i].mtime
                THEN [names EXCEPT ![Min(Matching(d.name))].found = TRUE] ELSE names
    /\ drive' = UseNext(d)
    /\ todo' = SkipMember(h)
    /\ UNCHANGED <<files, dirs>>
StartWriting(f) ==
    /\ drive' = [ResetEof(f) EXCEPT !.starting = TRUE, !.start = f.rec]
    /\ todo' = LET left == SelectSeq(names, LAMBDA n : ~n.found)
               IN  [i \in 1..Len(left) |-> Do("dump", left[i].name)] \o <<Do("eot", <<>>)>>
    /\ UNCHANGED <<opt, plan, step, links, names, files, dirs, pc>>

\* junk_archive(): before the first member that goes nothing is written.
FindJunk(d, h) ==
    /\ drive' = UseNext(IF Matching(d.name) = {} THEN d ELSE [d EXCEPT !.new = SubSeq(d.block, 1, d.rec - 1)])
    /\ todo' = IF Matching(d.name) = {} THEN SkipMember(h)
               ELSE Front(SkipMember(h)) \o <<Do("junk", <<>>)>>
    /\ UNCHANGED <<names, files, dirs>>

\* Then blocks are filled with what is kept and written over the ones that were read.
MoveArch(d, blocks) ==
    IF d.pos + blocks * Blocking < 0 THEN Exit(d, "reposition") ELSE [d EXCEPT !.pos = @ + blocks * Blocking]
Written(d, before, more) ==
    IF more THEN [MoveArch(d, before.nblocks) EXCEPT !.block = before.block, !.new = <<>>, !.nblocks = @ - 1]
    ELSE [d EXCEPT !.block = before.block, !.new = <<>>]
WriteBlock(d, more) ==
    IF ~Running(MoveArch(d, -(d.nblocks + 1))) THEN MoveArch(d, -(d.nblocks + 1))
    ELSE Written(FlWrite([MoveArch(d, -(d.nblocks + 1)) EXCEPT !.block = d.new]), d, more)
WriteFull(d) == IF Len(d.new) = Blocking THEN WriteBlock(d, TRUE) ELSE d

Junk(d, h) ==
    /\ IF Matching(d.name) # {} THEN drive' = UseNext(d) ELSE drive' = WriteFull(UseNext([d EXCEPT !.new = Append(@, h)]))
    /\ todo' = <<[Do(IF Matching(d.name) # {} THEN "discard" ELSE "keep", <<>>) EXCEPT !.left = CeilRecords(SizeOf(h))]>> \o todo
    /\ UNCHANGED <<names, files, dirs>>
NextBlock(d) == [FlushArchive(d) EXCEPT !.nblocks = @ + 1]

Discard ==
    /\ Doing("discard")
    /\ IF Room(drive) <= Task.left
       THEN drive' = NextBlock(drive) /\ todo' = [todo EXCEPT ![1].left = @ - Room(drive)]
       ELSE drive' = [drive EXCEPT !.rec = @ + Task.left] /\ todo' = Tail(todo)
    /\ UNCHANGED <<opt, plan, step, links, names, files, dirs, pc>>

Keep ==
    /\ Doing("keep")
    /\ \E b \in {IF Task.left > 0 /\ drive.rec = drive.last
                 THEN [FlRead(drive) EXCEPT !.nblocks = @ + 1, !.rec = 1] ELSE drive} :
       \E n \in {Min({Task.left, Room(b), Blocking - Len(b.new)})} :
          /\ drive' = IF n <= 0 THEN b
                      ELSE WriteFull([b EXCEPT !.new = @ \o SubSeq(b.block, b.rec, b.rec + n - 1), !.rec = @ + n])
          /\ todo' = IF n <= 0 THEN Tail(todo) ELSE [todo EXCEPT ![1].left = @ - n]
    /\ UNCHANGED <<opt, plan, step, links, names, files, dirs, pc>>

\* The end of the archive, for each command.
AtEnd(f) ==
    CASE Task.what = "read_header" -> Finish(CloseArchive(f, FALSE)) /\ files' = RestoreDirs(files)
      [] Task.what = "scan" -> StartWriting(f)
      [] Task.what = "find" -> Finish(CloseArchive(WriteEot(f), TRUE)) /\ UNCHANGED files
      [] OTHER -> /\ Finish(CloseArchive(WriteEot(FindRec(WriteBlock(
                         [f EXCEPT !.new = @ \o [i \in 1..(Blocking - Len(@)) |-> Zeros]], FALSE))), TRUE))
                  /\ UNCHANGED files

OnHeader(d, h) ==
    /\ CASE Task.what = "read_header" -> Extract(d, h, Shown(d.name))
         [] Task.what = "scan" -> Scan(d, h)
         [] Task.what = "find" -> FindJunk(d, h)
         [] OTHER -> Junk(d, h)
    /\ UNCHANGED <<opt, plan, step, links, pc>>

\* A record of zeros ends the archive, for those who look for its end or for a first member
\* to delete whatever the options say.
Emptied == names = <<>> /\ Command.names # <<>>
Zeroed(d) == Status(d) = "zeros" /\ ~(opt.ignorez /\ Task.what \in {"read_header", "junk"})
Header ==
    /\ Ready /\ Task.what \in {"read_header", "scan", "find", "junk"}
    /\ \E f \in {FindRec(IF Task.what = "junk" /\ drive.rec = drive.last THEN NextBlock(drive) ELSE drive)} :
       \E h \in {f.block[Min({f.rec, Blocking})]} :
          IF Status(f) = "long"
          THEN /\ todo' = <<[Do("long", <<>>) EXCEPT !.record = h, !.left = h.size]>> \o todo
               /\ drive' = UseNext(f)
               /\ UNCHANGED <<opt, plan, step, links, names, files, dirs, pc>>
          ELSE IF Status(f) = "EOF" \/ Zeroed(f) \/ Emptied THEN AtEnd(SetHead(f))
          ELSE IF Status(f) = "header" THEN OnHeader(Named(f, h), h)
          ELSE /\ drive' = UseNext(SetHead(f))
               /\ UNCHANGED <<opt, plan, step, todo, links, names, files, dirs, pc>>

-----------------------------------------------------------------------------
(* main(): the commands of a session, each by itself *)

First(c) == CASE c = "extract" -> "read_header" [] c = "delete" -> "find" [] OTHER -> "scan"
How(c) == CASE c = "create" -> "write" [] c = "extract" -> "read" [] OTHER -> "update"
Start ==
    /\ pc = "start" /\ step <= Len(plan) /\ Running(drive)
    /\ drive' = OpenArchive(How(Command.cmd), drive.vols, IF Command.cmd = "extract" THEN opt.order ELSE opt.blank, opt)
    /\ todo' = IF Command.cmd = "create"
               THEN [i \in DOMAIN Command.names |-> Do("dump", Command.names[i])] \o <<Do("eot", <<>>)>>
               ELSE <<Do(First(Command.cmd), <<>>)>>
    /\ names' = IF Command.cmd = "create" THEN <<>>
                ELSE [i \in DOMAIN Command.names |-> [name |-> Command.names[i], found |-> FALSE]]
    /\ pc' = "run"
    /\ UNCHANGED <<opt, plan, step, links, files, dirs>>

Init ==
    /\ \E s \in Sessions : opt = s.opt /\ plan = s.plan /\ files = s.old
    /\ drive = [vols |-> [v \in 1..opt.volumes |-> <<>>], exit |-> ""]
    /\ todo = <<>> /\ links = <<>> /\ names = <<>> /\ dirs = <<>>
    /\ step = 1 /\ pc = "start"
Next ==
    \/ Start \/ DumpFile \/ Put \/ WriteData \/ Pad \/ EndDump
    \/ Skip \/ Extended \/ LongName \/ Open \/ ReadData \/ ReadChunk \/ EndTask
    \/ Discard \/ Keep \/ Header

-----------------------------------------------------------------------------
(* What a session promises: the names in the archive, each with the file it stands for *)

RECURSIVE Walk(_, _)
Walk(tree, name) ==
    LET e == SelectSeq(tree, LAMBDA x : x.name = NoSlash(name))
        below == SelectSeq(tree, LAMBDA x : Parent(x.name) = NoSlash(name) /\ ~Excluded(x.name))
    IN  IF e = <<>> THEN <<>>
        ELSE e \o (IF e[1].type = "dir" THEN FlattenSeq([i \in DOMAIN below |-> Walk(tree, below[i].name)]) ELSE <<>>)

Storable(e) ==
    /\ e.type = "dev" => e.dev.major <= MaxMajor /\ e.dev.minor <= MaxMinor
    /\ opt.oldarch => e.type \in {"reg", "symlink"}

\* Of the names of one file, the first that is dumped has the file; at gives the name an
\* entry is extracted under.
Added(c) ==
    LET list == SelectSeq(FlattenSeq([i \in DOMAIN c.names |-> Walk(c.tree, c.names[i])]), Storable)
        first(i) == CHOOSE j \in 1..i : list[j].ino = list[i].ino /\ \A k \in 1..(j - 1) : list[k].ino # list[i].ino
    IN  [i \in DOMAIN list |-> [at |-> Shown(list[i].name), file |-> list[i], of |-> Shown(list[first(i)].name)]]

UpToDate(kept, c, name) == \E i \in DOMAIN kept : \E j \in DOMAIN c.tree :
    kept[i].at = name /\ c.tree[j].name = name /\ kept[i].file.mtime >= c.tree[j].mtime

RECURSIVE Archived(_)
Archived(k) ==
    LET c == plan[k]
        before == Archived(k - 1)
    IN  IF k = 0 THEN <<>>
        ELSE CASE c.cmd = "create" -> Added(c)
               [] c.cmd = "append" -> before \o Added(c)
               [] c.cmd = "update" ->
                    before \o Added([c EXCEPT !.names = SelectSeq(@, LAMBDA n : ~UpToDate(before, c, n))])
               [] c.cmd = "delete" -> SelectSeq(before, LAMBDA m : \A i \in DOMAIN c.names : ~Below(m.at, c.names[i]))
               [] OTHER -> before

Old == (CHOOSE s \in Sessions : s.opt = opt /\ s.plan = plan).old
Padded(e) == e.data \o [i \in 1..(e.size - Len(e.data)) |-> ""]

SameFile(node, e) ==
    /\ node.type = e.type
    /\ e.type = "reg" => node.data = Padded(e)
    /\ e.type = "symlink" => node.target = e.target
    /\ e.type = "dev" => node.dev = e.dev.major * 10 + e.dev.minor
    /\ e.type # "symlink" => node.mtime = e.mtime /\ node.mode = e.mode

\* Those that are left of the chosen members: the last one of each name, unless it is a
\* link to a name that is not there.
Left(members, there) ==
    {members[i] : i \in {j \in DOMAIN members :
        members[j].of \in there /\ \A k \in (j + 1)..Len(members) : members[k].at # members[j].at}}
Chosen(c, old) ==
    SelectSeq(Archived(Len(plan)), LAMBDA m :
        /\ c.names = <<>> \/ \E i \in DOMAIN c.names : Below(m.at, c.names[i])
        /\ ~Excluded(m.at)
        /\ ~(opt.keep /\ m.at \in old))
Restored(left, old) ==
    /\ \A n \in DOMAIN files.ino : n \in old \/ \E m \in left : Below(m.at, n)
    /\ \A m \in left : Has(files, m.at) /\ SameFile(Node(files, m.at), m.file)
    /\ \A m, n \in left : (files.ino[m.at] = files.ino[n.at]) = (m.file.ino = n.file.ino)

\* What the last command extracts is what its names and options choose of the archive, each
\* file with the contents, the links and the times it was archived with, and nothing else.
Restores ==
    /\ Running(drive)
    /\ step > Len(plan) =>
           \E old \in {DOMAIN Old.ino} : \E members \in {Chosen(plan[Len(plan)], old)} :
               Restored(Left(members, {members[i].at : i \in DOMAIN members} \cup old), old)
=============================================================================
