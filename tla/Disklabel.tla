------------------------------ MODULE Disklabel -----------------------------
(***************************************************************************)
(* disklabel (sbin/disklabel/disklabel.c): commands one after the other on *)
(* a disk: the label is shown, edited as text until it has no errors,      *)
(* restored from a text, made from a known type or with the boot programs. *)
(*                                                                         *)
(* A word is its number, if it begins with one, and the rest.  A line is a *)
(* tuple of a key and what follows it.  A label is a record; its           *)
(* partitions are numbered from 0.                                         *)
(*                                                                         *)
(*   dev       the disk: the label at each place of the boot area, the     *)
(*             programs there, the table of slices; the label the kernel   *)
(*             works with, and whether the boot area may be written        *)
(*   opt       the command that runs                                       *)
(*   ran       those to come, how often this one edited, and the disk      *)
(*             before it                                                   *)
(*   said      the statics part_set, part_size_type and part_offset_type   *)
(*   lab, buf  the label in hand; bootarea, and where the label is in it   *)
(*   text, pc  what was typed; what is next, or how the command ended      *)
(***************************************************************************)
EXTENDS Integers, Sequences, SequencesExt, FiniteSetsExt, TLC

CONSTANTS
    DEV_BSIZE, BBSIZE, LABELSECTOR, Kilo, Width, MAXPARTITIONS, NDDATA,
    Texts,      \* what an editor leaves
    Types,      \* labels of disktab and the driver, by name
    Sessions,   \* a disk, and commands [op, r, n, B, type, label, text] for it
    BootSize,   \* of the second boot program
    MaxEdits    \* bound

VARIABLES dev, opt, ran, said, lab, buf, text, pc

FULL_DISK_PART == 2
Flags == {"removeable", "ecc", "badsect"}
Unused == <<<<>>, "unused">>
FFS == <<<<4>>, ".2BSD">>
LFS == <<<<4>>, ".4LFS">>
Swap == <<<<>>, "swap">>
FsTypes == (0 :> Unused) @@ (1 :> Swap) @@ (7 :> FFS) @@ (9 :> LFS)
Positive == {"nsectors", "ntracks", "secpercyl", "ncylinders", "secperunit", "rpm", "interleave"}
Skews == {"trackskew", "cylskew", "headswitch", "trkseek"}

Wrap(n) == n % 2 ^ Width
Signed(n) == IF n >= 2 ^ (Width - 1) THEN n - 2 ^ Width ELSE n
NoPart == [size |-> 0, offset |-> 0, fstype |-> Unused, fsize |-> 0, frag |-> 0, cpg |-> 0]
PartNumbers == 0..(MAXPARTITIONS - 1)
Zeroed == [f \in Positive \cup Skews \cup {"secsize", "npartitions"} |-> 0]
          @@ [disk |-> "", label |-> "", flags |-> {}, drivedata |-> [i \in 1..NDDATA |-> 0],
              part |-> [i \in PartNumbers |-> NoPart]]
Silent == [set |-> {}, size |-> [i \in PartNumbers |-> ""], offset |-> [i \in PartNumbers |-> ""]]

-----------------------------------------------------------------------------
(* getasciilabel(): the lines, with the statics as they were left *)

Value(w) == IF w[1] = <<>> THEN 0 ELSE w[1][1]
Accepted(f, v) ==
    CASE f = "secsize" -> v > 0 /\ v % DEV_BSIZE = 0
      [] f \in Positive -> v > 0
      [] OTHER -> v >= 0
Wrong(s) == [s EXCEPT !.errors = TRUE]
Ended(s, how) == [s EXCEPT !.errors = TRUE, !.end = how]

\* word() gives the last word again when there is no other.
Word(words, k) == words[Min({k, Len(words)})]
FsTypeOf(w) ==
    IF w \in {FsTypes[n] : n \in DOMAIN FsTypes} THEN w
    ELSE IF Value(w) \in DOMAIN FsTypes /\ w[1] # <<>> THEN FsTypes[Value(w)] ELSE Unused

\* What a 4.2BSD partition is taken to be without more words.
Default(p, secsize) ==
    IF p.size < (Kilo * Kilo * Kilo) \div secsize
    THEN [p EXCEPT !.fsize = 8192, !.frag = 1024 % 256, !.cpg = 16]
    ELSE [p EXCEPT !.fsize = 16384, !.frag = 4096 % 256, !.cpg = 64]
Sizes(p, fsize, bsize, cpg) ==
    IF fsize = 0 THEN [p EXCEPT !.fsize = 0]
    ELSE [p EXCEPT !.fsize = fsize, !.frag = (bsize \div fsize) % 256,
                   !.cpg = IF p.fstype = Unused THEN @ ELSE cpg]
WithType(s, i, p, words) ==
    IF p.fstype \notin {Unused, FFS, LFS} \/ (p.fstype = Unused /\ Len(words) <= 3) THEN [s EXCEPT !.lab.part[i] = p]
    ELSE IF Len(words) > 3
    THEN [s EXCEPT !.lab.part[i] = Sizes(p, Value(Word(words, 4)), Value(Word(words, 5)), Value(Word(words, 6)))]
    ELSE IF s.lab.secsize = 0 THEN Ended(s, "crash")
    ELSE [s EXCEPT !.lab.part[i] = Default(p, s.lab.secsize)]

Bad(w, more) == Value(w) < 0 \/ (Value(w) = 0 /\ w[2] \notin {"*"} \cup more)
ReadSize(s, i, w) == [s EXCEPT !.said.set = @ \cup {i}, !.said.size[i] = w[2]]
ReadOffset(s, i, size, w) == [s EXCEPT !.lab.part[i].size = size, !.said.offset[i] = w[2]]
ReadPartition(s, i, words) ==
    IF i >= s.lab.npartitions THEN Wrong(s)
    ELSE IF words = <<>> THEN Ended([s EXCEPT !.said.set = @ \cup {i}], "stop")
    ELSE IF Bad(Word(words, 1), {}) THEN Ended(ReadSize(s, i, Word(words, 1)), "stop")
    ELSE \* the number and the unit of the size, then of the offset
         LET t == ReadOffset(ReadSize(s, i, Word(words, 1)), i, Value(Word(words, 1)), Word(words, 2))
         IN  IF Bad(Word(words, 2), {""}) THEN Ended(t, "stop")
             ELSE WithType(t, i, [t.lab.part[i] EXCEPT !.offset = Value(Word(words, 2)),
                                                       !.fstype = FsTypeOf(Word(words, 3))], words)

ReadLine(s, line) ==
    CASE s.end # "" -> s
      [] line[1] \in {"disk", "label"} -> [s EXCEPT !.lab[line[1]] = line[2]]
      [] line[1] = "flags" -> [s EXCEPT !.lab.flags = line[2] \cap Flags, !.errors = @ \/ ~(line[2] \subseteq Flags)]
      [] line[1] = "drivedata" ->
            [s EXCEPT !.lab.drivedata = [i \in 1..NDDATA |-> IF i <= Len(line[2]) THEN line[2][i] ELSE @[i]]]
      [] line[1] = "partitions" ->
            IF line[2] \in 1..MAXPARTITIONS THEN [s EXCEPT !.lab.npartitions = line[2]]
            ELSE [s EXCEPT !.lab.npartitions = MAXPARTITIONS, !.errors = TRUE]
      [] line[1] \in Positive \cup Skews \cup {"secsize"} ->
            IF Accepted(line[1], line[2]) THEN [s EXCEPT !.lab[line[1]] = line[2]] ELSE Wrong(s)
      [] line[1] = "part" -> ReadPartition(s, line[2], line[3])
      [] OTHER -> Wrong(s)

-----------------------------------------------------------------------------
(* checklabel(): sizes, then offsets, then what is wrong with them *)

Partitions(l) == 0..(l.npartitions - 1)
Unit(c) == CASE c \in {"k", "K"} -> Kilo
             [] c \in {"m", "M"} -> Kilo * Kilo
             [] c \in {"g", "G"} -> Kilo * Kilo * Kilo
             [] OTHER -> 1
Said(l, s, types) == {i \in Partitions(l) \cap s.set : s.size[i] \in types}
Sectors(l, s, i) ==
    IF s.size[i] = "" THEN l.part[i].size ELSE (l.part[i].size * Unit(s.size[i])) \div l.secsize
SizesOf(l, parts) == FoldSet(LAMBDA i, n : n + l.part[i].size, 0, parts)

\* Sizes with a unit or none; c may be the whole disk, and takes no space.
Fixed(l, s) == (Partitions(l) \cap s.set) \ Said(l, s, {"*", "%"})
WithFixed(l, s) ==
    [l EXCEPT !.part = [i \in DOMAIN @ |->
        IF i \in Fixed(l, s) THEN [@[i] EXCEPT !.size = Wrap(Sectors(l, s, i))]
        ELSE IF i = FULL_DISK_PART /\ i \in Said(l, s, {"*"}) THEN [@[i] EXCEPT !.size = l.secperunit]
        ELSE @[i]]]
FixedTotal(l, s) == Wrap(FoldSet(LAMBDA i, n : n + Sectors(l, s, i), 0, Fixed(l, s) \ {FULL_DISK_PART}))

\* Shares of what these leave.  The product is one of floating point numbers: where it
\* should be whole it may come out below.
Percent(l, s) == SizesOf(l, Said(l, s, {"%"}))
Shared(l, s, free, low) ==
    IF free <= 0 THEN l
    ELSE [l EXCEPT !.part = [i \in DOMAIN @ |->
            IF i \notin Said(l, s, {"%"}) THEN @[i]
            ELSE [@[i] EXCEPT !.size = Wrap((l.part[i].size * free) \div 100
                                            - (IF i \in low /\ (l.part[i].size * free) % 100 = 0 THEN 1 ELSE 0))]]]
Hogs(l, s) == Said(l, s, {"*"}) \ {FULL_DISK_PART}
WithHog(l, s, total) ==
    IF Hogs(l, s) = {} THEN l ELSE [l EXCEPT !.part[Min(Hogs(l, s))].size = Wrap(l.secperunit - total)]

\* Mutant: a partition with an offset of its own does not move the place of the next.
MutPlaced(t, i) ==
    IF t.said.offset[i] = "*"
    THEN IF i = FULL_DISK_PART THEN [t EXCEPT !.lab.part[i].offset = 0]
         ELSE [t EXCEPT !.lab.part[i].offset = t.at, !.default = TRUE, !.at = Wrap(t.at + t.lab.part[i].size)]
    ELSE IF i = FULL_DISK_PART THEN t
    ELSE [t EXCEPT !.errors = @ \/ (t.default /\ t.lab.part[i].offset < t.at)]

\* An offset of its own, or behind the partition before.
Placed(t, i) ==
    IF t.said.offset[i] = "*"
    THEN IF i = FULL_DISK_PART THEN [t EXCEPT !.lab.part[i].offset = 0]
         ELSE [t EXCEPT !.lab.part[i].offset = t.at, !.default = TRUE, !.at = Wrap(t.at + t.lab.part[i].size)]
    ELSE IF i = FULL_DISK_PART THEN t
    ELSE [t EXCEPT !.at = Wrap(t.lab.part[i].offset + t.lab.part[i].size),
                   !.errors = @ \/ (t.default /\ t.lab.part[i].offset < t.at)]
Offsets(l, s) ==
    FoldLeft(Placed, [lab |-> l, said |-> s, at |-> 0, default |-> FALSE, errors |-> FALSE],
             SetToSortSeq(Partitions(l) \cap s.set, <))

End(p) == Wrap(p.offset + p.size)
Clash(p, q) == q.offset < End(p) /\ (End(q) > p.offset \/ q.offset >= p.offset)
Misfits(l, s) ==
    \/ \E i \in Partitions(l) : l.part[i].offset > l.secperunit \/ End(l.part[i]) > l.secperunit
    \/ \E i, j \in (Partitions(l) \cap s.set) \ {FULL_DISK_PART} : j < i /\ Clash(l.part[i], l.part[j])

Derived(l) ==
    LET cyl == IF l.secpercyl = 0 THEN Wrap(l.nsectors * l.ntracks) ELSE l.secpercyl
    IN  [l EXCEPT !.secpercyl = cyl, !.secperunit = IF @ = 0 THEN Wrap(cyl * l.ncylinders) ELSE @]
Arranged(l, s, low) ==
    LET total == FixedTotal(l, s)
        free == Signed(Wrap(l.secperunit - total))
        shared == Shared(WithFixed(l, s), s, free, low)
        all == IF free > 0 THEN Wrap(total + SizesOf(shared, Said(l, s, {"%"}))) ELSE total
        t == Offsets(WithHog(shared, s, all), s)
    IN  [lab |-> t.lab,
         errors |-> t.errors \/ Percent(l, s) > 100 \/ (Percent(l, s) # 0 /\ free <= 0)
                    \/ l.ncylinders = 0 \/ Misfits(t.lab, s)]
Checklabel(l, s, low) ==
    IF l.secsize = 0 \/ l.nsectors = 0 \/ l.ntracks = 0 THEN [lab |-> l, errors |-> TRUE]
    ELSE Arranged(Derived(l), s, low)

\* The label of a text: a run that does not crash goes on with the check.
ReadText(lines, s) == FoldLeft(ReadLine, [lab |-> Zeroed, said |-> s, errors |-> FALSE, end |-> ""], lines)
Getasciilabel(r, low) ==
    LET c == Checklabel(r.lab, r.said, low)
    IN  [lab |-> c.lab, said |-> r.said, errors |-> r.errors \/ c.errors, crash |-> r.end = "crash"]

-----------------------------------------------------------------------------
(* display(): the text of a label *)

Number(n) == <<<<n>>, "">>
PartitionLine(l, i) ==
    LET p == l.part[i]
    IN  <<"part", i, <<Number(p.size), Number(p.offset), p.fstype>>
                     \o (IF p.fstype \in {Unused, FFS, LFS} THEN <<Number(p.fsize), Number(p.fsize * p.frag)>> ELSE <<>>)
                     \o (IF p.fstype \in {FFS, LFS} THEN <<Number(p.cpg)>> ELSE <<>>)>>
DataShown(d) == SubSeq(d, 1, Max({1} \cup {i \in DOMAIN d : d[i] # 0}))
FieldOrder == <<"secsize", "nsectors", "ntracks", "secpercyl", "ncylinders", "secperunit", "rpm", "interleave",
                "trackskew", "cylskew", "headswitch", "trkseek">>
Display(l) ==
    <<<<"disk", l.disk>>, <<"label", l.label>>, <<"flags", l.flags>>>>
    \o [i \in DOMAIN FieldOrder |-> <<FieldOrder[i], l[FieldOrder[i]]>>]
    \o <<<<"drivedata", DataShown(l.drivedata)>>, <<"partitions", l.npartitions>>>>
    \o [k \in 1..Cardinality({i \in Partitions(l) : l.part[i].size # 0}) |->
           PartitionLine(l, SetToSortSeq({i \in Partitions(l) : l.part[i].size # 0}, <)[k])]
\* The cylinders of a partition are shown too.
DisplayCrashes(l) == l.secpercyl = 0 /\ \E i \in Partitions(l) : l.part[i].size # 0

-----------------------------------------------------------------------------
(* The disk *)

NoLabel == <<>>
Place(secsize) == LABELSECTOR * secsize
LabelIn(area) == Min({a \in DOMAIN area : area[a] # NoLabel})
HasLabel(area) == \E a \in DOMAIN area : area[a] # NoLabel
AsRead == [area |-> dev.area, boot |-> dev.boot, slices |-> dev.slices, place |-> 0]
Zeros == [area |-> [a \in DOMAIN dev.area |-> NoLabel], boot |-> "none", slices |-> "none", place |-> 0]

\* main(): a new process
Over == pc \in {"idle", "written", "shown", "failed", "crash"}
Start(c) ==
    /\ Over /\ ran.left # <<>> /\ c = ran.left[1]
    /\ opt' = c /\ ran' = [left |-> Tail(ran.left), edits |-> 0, before |-> dev]
    /\ said' = Silent /\ lab' = Zeroed /\ text' = c.text /\ buf' = Zeros
    /\ dev' = IF c.op \in {"NOWRITE", "WRITEABLE"} THEN [dev EXCEPT !.writable = c.op = "WRITEABLE"] ELSE dev
    /\ pc' = CASE c.op \in {"NOWRITE", "WRITEABLE"} -> "idle"
               [] c.op \in {"READ", "EDIT", "WRITEBOOT"} -> "read"
               [] c.op = "RESTORE" -> "parse"
               [] c.op = "WRITE" -> IF c.type \in DOMAIN Types THEN "boot" ELSE "failed"

Found == IF opt.r THEN HasLabel(dev.area) ELSE dev.incore # NoLabel
Readlabel ==
    /\ pc = "read" /\ Found
    /\ lab' = IF opt.r THEN dev.area[LabelIn(dev.area)] ELSE dev.incore
    /\ buf' = IF opt.r THEN [AsRead EXCEPT !.place = LabelIn(dev.area)] ELSE buf
    /\ text' = IF opt.op = "EDIT" THEN Display(lab') ELSE text
    /\ pc' = CASE opt.op = "WRITEBOOT" -> "boot"
               [] opt.op # "WRITEBOOT" /\ DisplayCrashes(lab') -> "crash"
               [] opt.op = "READ" -> "shown"
               [] OTHER -> "editor"
    /\ UNCHANGED <<dev, opt, ran, said>>
NotFound ==
    /\ pc = "read" /\ ~Found
    /\ pc' = "failed" /\ UNCHANGED <<dev, opt, ran, said, lab, buf, text>>

\* edit(): the editor, and the question whether to edit again
Edit(t) ==
    /\ pc = "editor" \/ (pc = "again" /\ ran.edits < MaxEdits)
    /\ text' = t /\ ran' = [ran EXCEPT !.edits = @ + 1] /\ pc' = "parse"
    /\ UNCHANGED <<dev, opt, said, lab, buf>>
GiveUp ==
    /\ pc \in {"editor", "again"}
    /\ pc' = "failed" /\ UNCHANGED <<dev, opt, ran, said, lab, buf, text>>
Refused == IF opt.op = "EDIT" THEN "again" ELSE "failed"

\* Which of the shares come out below
Low == SUBSET {i \in PartNumbers : \E k \in DOMAIN text : text[k][1] = "part" /\ text[k][2] = i
                           /\ text[k][3] # <<>> /\ text[k][3][1][2] = "%"}
Parse ==
    /\ pc = "parse"
    /\ \E low \in Low : \E g \in {Getasciilabel(ReadText(text, said), low)} :
          /\ said' = g.said
          /\ lab' = IF g.errors THEN lab ELSE g.lab
          /\ pc' = IF g.crash THEN "crash" ELSE IF g.errors THEN Refused
                   ELSE IF opt.op = "EDIT" THEN "write" ELSE "boot"
    /\ UNCHANGED <<dev, opt, ran, buf, text>>

\* makelabel() and makebootarea(): with the boot programs, the table of slices stays only
\* if the boot area was read before.
Known(l) == IF l.secsize = 0 THEN [l EXCEPT !.secsize = DEV_BSIZE] ELSE l
Named == IF opt.label = "" THEN Types[opt.type] ELSE [Types[opt.type] EXCEPT !.label = opt.label]
Proto == Known(CASE opt.op = "RESTORE" -> lab [] opt.type \in DOMAIN Types -> Named [] OTHER -> Zeroed)
Cleared(area, secsize) == [a \in DOMAIN area |-> IF a < secsize + BootSize \/ a = Place(secsize) THEN NoLabel ELSE area[a]]
BootArea(secsize) ==
    IF opt.B
    THEN [area |-> Cleared(buf.area, secsize), boot |-> "new", place |-> Place(secsize),
          slices |-> IF buf.slices = "none" THEN "template" ELSE buf.slices]
    ELSE [(IF opt.r THEN AsRead ELSE buf) EXCEPT !.area[Place(secsize)] = NoLabel, !.place = Place(secsize)]
Makebootarea ==
    /\ pc = "boot"
    /\ \E p \in {Proto} :
          /\ buf' = BootArea(p.secsize)
          /\ \E c \in {IF opt.op = "RESTORE" THEN [lab |-> lab, errors |-> FALSE]
                       ELSE Checklabel(IF opt.op = "WRITE" THEN p ELSE lab, said, {})} :
                /\ lab' = c.lab
                /\ pc' = IF c.errors \/ (opt.B /\ p.secsize + BootSize > BBSIZE) THEN "failed" ELSE "write"
    /\ UNCHANGED <<dev, opt, ran, said, text>>

\* writelabel(): the kernel may refuse, or know nothing of labels, and the write may fail
WriteRaw(answer, ok) ==
    /\ pc = "write" /\ ~opt.n /\ opt.r
    /\ pc' = IF answer = "refuses" \/ ~ok THEN Refused ELSE "written"
    /\ dev' = IF answer = "refuses" THEN dev
              ELSE [dev EXCEPT !.incore = IF answer = "takes" THEN lab ELSE @,
                               !.writable = ~ok,
                               !.area = IF ok THEN [buf.area EXCEPT ![buf.place] = lab] ELSE @,
                               !.boot = IF ok THEN buf.boot ELSE @,
                               !.slices = IF ok THEN buf.slices ELSE @]
    /\ UNCHANGED <<opt, ran, said, lab, buf, text>>
WriteKernel(answer) ==
    /\ pc = "write" /\ ~opt.n /\ ~opt.r
    /\ pc' = IF answer = "takes" THEN "written" ELSE Refused
    /\ dev' = IF answer = "takes" THEN [dev EXCEPT !.incore = lab, !.area[Place(dev.sector)] = lab] ELSE dev
    /\ UNCHANGED <<opt, ran, said, lab, buf, text>>
ShowOnly ==
    /\ pc = "write" /\ opt.n
    /\ pc' = "shown" /\ UNCHANGED <<dev, opt, ran, said, lab, buf, text>>

\* The kernel reads its label from the disk.
Reboot ==
    /\ Over /\ dev.incore # dev.area[Place(dev.sector)]
    /\ dev' = [dev EXCEPT !.incore = dev.area[Place(dev.sector)], !.writable = FALSE]
    /\ pc' = "idle" /\ UNCHANGED <<opt, ran, said, lab, buf, text>>

Init ==
    /\ \E s \in Sessions : dev = s.dev /\ ran = [left |-> s.commands, edits |-> 0, before |-> s.dev]
    /\ opt = <<>> /\ said = Silent /\ lab = Zeroed
    /\ buf = Zeros /\ text = <<>> /\ pc = "idle"
Next ==
    \/ \E c \in ToSet(ran.left) : Start(c)
    \/ Readlabel \/ NotFound \/ GiveUp \/ Parse \/ Makebootarea \/ ShowOnly \/ Reboot
    \/ \E t \in Texts : Edit(t)
    \/ \E a \in {"takes", "refuses", "lacks"}, ok \in BOOLEAN : WriteRaw(a, ok)
    \/ \E a \in {"takes", "refuses"} : WriteKernel(a)

-----------------------------------------------------------------------------
(* What the label should be *)

\* The lines of the partitions by number
Typed == {text[k][2] : k \in {j \in DOMAIN text : text[j][1] = "part"}}
LineOf(i) == text[Max({k \in DOMAIN text : text[k][1] = "part" /\ text[k][2] = i})][3]
Others == Typed \ {FULL_DISK_PART}
Asked(i) == (Value(LineOf(i)[1]) * Unit(LineOf(i)[1][2])) \div (IF LineOf(i)[1][2] = "" THEN 1 ELSE lab.secsize)
WithUnit(i) == LineOf(i)[1][2] \notin {"*", "%"}
Taken == FoldSet(LAMBDA i, n : n + Asked(i), 0, {i \in Others : WithUnit(i)})
Behind(i) ==
    LET before == {j \in Others : j < i}
    IN  IF before = {} THEN 0 ELSE lab.part[Max(before)].offset + lab.part[Max(before)].size
HogsTyped == {i \in Others : LineOf(i)[1][2] = "*"}

\* More sectors than a number holds; a partition whose end is more: checklabel's sum of
\* offset and size begins again at 0, and the disk's end and the partitions behind it are
\* not seen; statics left by the text before (part_set).
Wide == \E i \in Typed : WithUnit(i) /\ Asked(i) >= 2 ^ Width
Wraps == \E i \in Typed : lab.part[i].offset + lab.part[i].size >= 2 ^ Width
Stale == said.set # Typed

AsTyped ==
    \A i \in Typed : \E p \in {lab.part[i]}, w \in {LineOf(i)} :
        /\ CASE WithUnit(i) -> p.size = Asked(i)
             [] w[1][2] = "%" -> /\ 100 * p.size <= Value(w[1]) * (lab.secperunit - Taken)
                                 /\ Value(w[1]) * (lab.secperunit - Taken) < 100 * (p.size + 2)
             [] OTHER -> i = FULL_DISK_PART => p.size = lab.secperunit
        /\ p.offset = CASE Word(w, 2)[2] # "*" -> Value(Word(w, 2)) [] i = FULL_DISK_PART -> 0 [] OTHER -> Behind(i)
HogFills ==
    Cardinality(HogsTyped) = 1 => SizesOf(lab, Others) + SizesOf(lab, {i \in {FULL_DISK_PART} \cap Typed : LineOf(i)[1][2] = "%"})
                                  = lab.secperunit
Apart ==
    /\ \A i \in Typed : lab.part[i].offset + lab.part[i].size <= lab.secperunit
    /\ \A i, j \in Others : i # j =>
          {lab.part[i].offset, lab.part[j].offset} \cap
          {o \in 0..lab.secperunit : \A k \in {i, j} : lab.part[k].offset <= o /\ o < lab.part[k].offset + lab.part[k].size} = {}

\* What is shown of the label is a text for it, except for speeds that are not known.
Shown(l) == [l EXCEPT !.part = [i \in PartNumbers |-> IF l.part[i].size = 0 THEN NoPart ELSE l.part[i]]]
ReadsBack ==
    lab.rpm = 0 \/ lab.interleave = 0 \/
    \E g \in {Getasciilabel(ReadText(Display(lab), Silent), {})} : ~g.errors /\ Shown(g.lab) = Shown(lab)

\* The disk holds it where the next reading finds it, and keeps the boot programs and the
\* table of slices; an older label may be nearer to the beginning, of another sector size.
OnDisk ==
    IF ~opt.r THEN dev.incore = lab /\ dev.area[Place(dev.sector)] = lab
    ELSE /\ dev.area[buf.place] = lab
         /\ LabelIn(dev.area) < buf.place \/ dev.area[LabelIn(dev.area)] = lab
         /\ dev.boot = IF opt.B THEN "new" ELSE ran.before.boot
         /\ opt.op = "WRITEBOOT" \/ ~opt.B => dev.slices = ran.before.slices

\* A label that was written from a text has the partitions that were typed, each where it
\* was put and as large as it was asked for, none over another or beyond the disk (unless
\* the end of one wraps); shown, it can be read again; and the disk has it.
Labels ==
    pc = "written" =>
        /\ opt.op \in {"EDIT", "RESTORE"} /\ ~Wide /\ ~Stale => ReadsBack /\ (Wraps \/ (AsTyped /\ HogFills /\ Apart))
        /\ OnDisk
=============================================================================
