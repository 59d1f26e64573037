--------------------------- MODULE UserlandCases ---------------------------
(***************************************************************************)
(* What the programs of MCUserland are run with.                           *)
(***************************************************************************)
EXTENDS Integers, Sequences, SequencesExt, TLC

(* dd: blocks of 2 to 4 bytes, records of 3 *)

Dd(ibs, obs, flags, skip, seek, count) ==
    [ibs |-> ibs, obs |-> obs, cbs |-> 3, bs |-> "bs" \in flags,
     records |-> IF "block" \in flags THEN "block" ELSE IF "unblock" \in flags THEN "unblock" ELSE "none",
     sync |-> "sync" \in flags, osync |-> "osync" \in flags, swab |-> "swab" \in flags,
     ucase |-> "ucase" \in flags, noerror |-> "noerror" \in flags, notrunc |-> "notrunc" \in flags,
     sparse |-> "sparse" \in flags, pipe |-> "pipe" \in flags, skip |-> skip, seek |-> seek, count |-> count]

DdCommands ==
    {Dd(2, 3, f, 0, 0, -1) : f \in {{"pipe"}, {"pipe", "swab"}, {"noerror", "sync"}, {"noerror"}, {},
                                    {"ucase", "pipe"}, {"sparse"}, {"sparse", "osync"}, {"bs", "ucase"}}}
    \cup {Dd(2, 2, f, 1, 1, 3) : f \in {{"bs", "pipe", "sync"}, {"bs", "notrunc"}, {"notrunc"}, {"sparse"}}}
    \cup {Dd(4, 3, f \cup g, 0, 0, -1) : f \in {{"block"}, {"unblock"}}, g \in {{"pipe"}, {"noerror", "sync"}, {"osync"}}}
    \cup {Dd(2, 4, {"block", "ucase", "pipe"}, 0, 0, -1), Dd(3, 2, {"sparse", "pipe"}, 0, 2, -1),
          Dd(4, 7, {"block", "osync"}, 0, 0, -1), Dd(4, 2, {"sparse"}, 0, 0, -1),
          Dd(4, 2, {"sparse", "sync"}, 0, 0, -1)}

DdFiles ==
    {<<>>, <<"a">>, <<"a", "b", "nul", "nul">>, <<"a", "b", "nl", "a", "b", "nl", "nl", "b">>,
     <<"a", "b", "a", "nl", "b", "a", "b", "b", "nl", "a">>,
     <<"nul", "nul", "nul", "nul", "nul", "nul", "a", "b", "nul">>,
     <<"a", " ", " ", " ", " ", " ", "b", "a", " ", "b">>}
DdBefore == <<"b", "b", "b", "b", "b", "b", "b">>
UpperCase == [c \in {"a", "b", "A", "B", "nul", "nl", " "} |-> CASE c = "a" -> "A" [] c = "b" -> "B" [] OTHER -> c]

-----------------------------------------------------------------------------
(* natd: redirections and options, for 16 ports *)

OnePort == {<<"service", 5>>, <<"port", 0>>, <<"port", 15>>, <<"port", 17>>, <<"bad">>}
PortRanges == {<<"range", lo, hi>> : lo \in {0, 1, 13}, hi \in {0, 2, 14, 15, 16}}
Hosts == {<<"addr", "h1">>}
With(ports) == {<<"at", "h1", p>> : p \in ports}
Pools == {<<"pool", << <<"at", "h1", p>>, <<"at", "h2", <<"port", 7>> >> >> >> : p \in OnePort \cup {<<"range", 1, 2>>}}

Redirections ==
    {<<proto, local, public>> : proto \in {"tcp", "icmp"}, local \in With(OnePort \cup PortRanges) \cup Pools,
                                public \in OnePort \cup PortRanges \cup With({<<"range", 3, 5>>, <<"port", 6>>})}
    \cup {<<"udp", local, public, remote>> :
            local \in With(PortRanges), public \in PortRanges, remote \in Hosts \cup With({<<"port", 0>>, <<"port", 3>>} \cup PortRanges)}

Config == [a |-> << <<"port", << <<"port", 9>> >> >>, <<"interface", <<"e0">> >> >>,
           b |-> << <<"same_ports", <<"no">> >>, <<"redirect_proto", <<"esp", <<"addr", "h1">> >> >> >>]
NatdWords ==
    {<<"same_ports", <<>> >>, <<"log_denied", <<"no">> >>, <<"dynamic", <<"maybe">> >>, <<"nonsense", <<>> >>,
     <<"in_port", << <<"port", 3>> >> >>, <<"out_port", << <<"port", 4>> >> >>,
     <<"alias_address", << <<"addr", "h1">> >> >>, <<"config", <<"a">> >>, <<"config", <<"b">> >>, <<"config", <<"c">> >>,
     <<"redirect_address", << <<"addr", "h1">>, <<"addr", "h2">> >> >>,
     <<"redirect_address", << <<"pool", << <<"addr", "h1">> >> >>, <<"addr", "h2">> >> >>,
     <<"redirect_proto", <<"esp">> >>}

-----------------------------------------------------------------------------
(* pwd_mkdb: the password files *)

Line(name, passwd, uid) == <<name, passwd, uid, 0, "", 0, 0, "", "/", "sh">>
Was == <<Line("root", "x", 0), <<"#">>, Line("toor", "y", 0), Line("ann", "z", 5)>>

Case(new, users) == [old |-> Was, new |-> new, users |-> {""} \cup users]
PwdFiles ==
    {Case([Was EXCEPT ![1] = Line("root", "new", 0)], {"root"}),
     Case([Was EXCEPT ![3] = Line("toor", "new", 0)], {"toor"}),
     Case(<<Line("ann", "z", 5), Line("root", "new", 0), Line("root", "x", 0), Line("+", "", -1)>>, {}),
     Case(Append(Was, Line("bob", "z", -1)), {}),
     Case(Append(Was, <<"bob", "z", 6, 6>>), {}),
     Case(<<Line("root", "x", 1)>>, {})}

PwdOptions == [user : {"", "root", "toor"}, makeold : BOOLEAN, nblock : BOOLEAN]

-----------------------------------------------------------------------------
(* tar: trees, options and commands *)

Entry(name, ino, type) ==
    [name |-> name, ino |-> ino, type |-> type, data |-> <<>>, size |-> 0, blocks |-> 0, target |-> <<>>,
     dev |-> [major |-> 0, minor |-> 0], mtime |-> ino, mode |-> "rw"]
Reg(name, ino, data) == [Entry(name, ino, "reg") EXCEPT !.data = data, !.size = Len(data), !.blocks = Len(data)]
Sparse(name, ino, data) == [Reg(name, ino, data) EXCEPT !.blocks = 0]
Shrunk(name, ino, data, size) == [Reg(name, ino, data) EXCEPT !.size = size, !.blocks = size]
Device(name, ino, major, minor) == [Entry(name, ino, "dev") EXCEPT !.dev = [major |-> major, minor |-> minor]]
Symlink(name, ino, target) == [Entry(name, ino, "symlink") EXCEPT !.target = target]

A == <<"a">>  B == <<"b">>  D == <<"d">>
DA == <<"d", "/", "a">>
DB == <<"d", "/", "b">>
DL == <<"d", "/", "l">>
Long == <<"l", "o", "n", "g">>
DLong == <<"d", "/", "o", "n", "g">>
Root == <<"/", "r">>
Text(n) == [i \in 1..n |-> <<"x", "y", "z">>[1 + (i % 3)]]
Holes(n, at) == [i \in 1..n |-> IF i \in at THEN "x" ELSE ""]

Mixed == <<Entry(D, 1, "dir"), Reg(DA, 2, Text(5)), Reg(DB, 2, Text(5)), Symlink(DL, 3, Long),
           Reg(Long, 2, Text(5)), Entry(B, 5, "fifo"), Reg(A, 6, <<>>), Reg(DLong, 7, Text(8))>>
Devices == <<Device(A, 1, 7, 7), Device(B, 2, 8, 1), Device(D, 3, 1, 8), Reg(Root, 4, Text(3)), Reg(<<"q">>, 4, Text(3))>>
Big(n, m) == <<Reg(A, 1, Text(n)), Reg(Long, 2, Text(m)), Reg(B, 3, Text(2))>>
Hollow(n, at) == <<Sparse(A, 1, Holes(n, at)), Reg(B, 2, Text(3))>>
Newer == <<Reg(A, 6, Text(3)), [Reg(B, 9, Text(1)) EXCEPT !.mtime = 9]>>

Plain == [multivol |-> FALSE, volumes |-> 1, capacity |-> 60, label |-> FALSE, arrivals |-> <<>>, order |-> <<>>, blank |-> <<>>,
          oldarch |-> FALSE, sparse |-> TRUE, absolute |-> FALSE, ignorez |-> FALSE, keep |-> FALSE,
          unlink |-> FALSE, fast_read |-> FALSE, exclude |-> {}]
Many(order) == [Plain EXCEPT !.multivol = TRUE, !.volumes = 6, !.capacity = 7, !.order = order, !.blank = <<2, 3, 4, 5, 6>>]

InOrder == <<2, 3, 4, 5, 6>>
OutOfOrder == <<3, 2, 4, 3, 4, 5, 6>>

Nothing == [ino |-> <<>>, node |-> <<>>]
OldNode == [type |-> "reg", data |-> <<"o", "l", "d">>, target |-> <<>>, dev |-> 0, mtime |-> 0, mode |-> ""]
There == [ino |-> (A :> 1) @@ (B :> 1), node |-> <<OldNode>>]

Cmd(c, names, tree) == [cmd |-> c, names |-> names, tree |-> tree]
Create(tree, names) == Cmd("create", names, tree)
Extract(names) == Cmd("extract", names, <<>>)
Session(opt, plan, old) == [opt |-> opt, plan |-> plan, old |-> old]

TarSessions ==
    {Session([Plain EXCEPT !.arrivals = a], <<Create(Mixed, <<D, Long, A, B>>), Extract(n)>>, Nothing) :
        a \in {<<>>, <<1>>, <<4, 0, 3>>, <<6, 1, 5>>}, n \in {<<>>, <<D>>, <<Long>>, <<DB, DLong>>, <<A, DA>>}}
    \cup {Session([Plain EXCEPT !.fast_read = TRUE, !.exclude = {B, Long}], <<Create(Mixed, <<D, A>>), Extract(n)>>, Nothing) :
        n \in {<<DA>>, <<A, DA>>, <<D>>}}
    \cup {Session([Plain EXCEPT !.absolute = b, !.oldarch = o, !.ignorez = o], <<Create(Devices, <<Long, Root, <<"q">>, A, B, D>>), Extract(<<>>)>>, Nothing) :
        b \in BOOLEAN, o \in BOOLEAN}
    \cup {Session([Many(o) EXCEPT !.label = b], <<Create(Big(n, m), <<A, Long, B>>), Extract(<<>>)>>, Nothing) :
        o \in {InOrder, OutOfOrder}, b \in BOOLEAN, n \in {23, 24}, m \in {0, 3, 10}}
    \cup {Session([Many(InOrder) EXCEPT !.label = b], <<Create(Big(n, 10), <<A, Long, B>>), Extract(<<>>)>>, Nothing) :
        b \in BOOLEAN, n \in 0..18}
    \cup {Session(Plain, <<Create(Hollow(n, at), <<A, B>>), Extract(l)>>, Nothing) :
        n \in 17..18, at \in SUBSET {1, 5, 9, 14}, l \in {<<>>, <<B>>}}
    \cup {Session(Plain, <<Create(<<Shrunk(A, 1, Text(n), 10), Reg(B, 2, Text(3))>>, <<A, B>>), Extract(<<>>)>>, Nothing) :
        n \in {2, 6}}
    \cup {Session(Plain, <<Create(Hollow(n, at), <<A, B>>), Extract(<<>>)>>, Nothing) :
        n \in 7..9, at \in SUBSET {1, 3, 4}}
    \cup {Session([Plain EXCEPT !.keep = k, !.unlink = ~k], <<Create(Big(n, 1), <<A, Long, B>>), Extract(<<>>)>>, There) :
        k \in BOOLEAN, n \in {0, 9}}
    \cup {Session(Plain, <<Create(Big(n, 2), <<A>>), Cmd(c, l, Newer), Extract(<<>>)>>, Nothing) :
        n \in 0..9, c \in {"append", "update"}, l \in {<<B>>, <<A, B>>}}
    \cup {Session(Plain, <<Create(<<Reg(A, 1, Text(n)), Reg(B, 2, Text(m)), Reg(D, 3, Text(k))>>, <<A, B, D>>),
                            Cmd("delete", x, <<>>), Extract(<<>>)>>, Nothing) :
        n \in 0..4, m \in {0, 1, 4, 9}, k \in {0, 3, 8}, x \in {<<A>>, <<A, D>>}}
    \cup {Session(Plain, <<Create(<<Reg(A, 1, Text(5)), Reg(B, 2, Text(m)), Reg(D, 3, Text(k))>>, <<A, B, D>>),
                            Cmd("delete", x, <<>>), Extract(<<>>)>>, Nothing) :
        m \in 0..2, k \in {0, 3, 8}, x \in {<<B>>, <<B, D>>, <<Long>>}}
    \cup {Session([Plain EXCEPT !.ignorez = TRUE], <<Create(Big(n, 2), <<A, Long>>), c, Extract(<<>>)>>, Nothing) :
        n \in {0, 3, 9}, c \in {Cmd("append", <<B>>, Newer), Cmd("update", <<A, B>>, Newer), Cmd("delete", <<Long>>, <<>>),
                                Cmd("delete", <<B>>, <<>>)}}

-----------------------------------------------------------------------------
(* newfs: the floppies of disktab, as menu.c formats them and otherwise, and small disks *)

Floppy(n) == [read |-> "disktab", psize |-> n, fsize |-> 512, frag |-> 8, nsectors |-> 18, ntracks |-> 2,
              secsize |-> 512, mounted |-> FALSE, boot |-> FALSE]
NewfsOptions ==
    {<<>>, [N |-> 1], [t |-> 2, u |-> 18], [t |-> 2, u |-> 18, c |-> 24, f |-> 1024, b |-> 8192, a |-> 3],
     [u |-> 256, c |-> 2], [u |-> 128, c |-> 4, i |-> 8192], [t |-> 4, u |-> 128, n |-> 8],
     [t |-> 2, u |-> 128, c |-> 2, i |-> 512], [t |-> 4, u |-> 64, c |-> 2, i |-> 700], [b |-> 16384, f |-> 2048],
     [b |-> 4096, f |-> 4096, a |-> 1], [t |-> 3, u |-> 20, n |-> 2, c |-> 32, i |-> 2048], [c |-> 40],
     [i |-> 900000], [t |-> 2, u |-> 60000], [u |-> 256, c |-> 1], [b |-> 8192, f |-> 8192, S |-> 1024, t |-> 0, u |-> 0]}
NewfsBad ==
    {[b |-> 1024], [s |-> 9000], [f |-> 256], [b |-> 6000], [f |-> 1536], [b |-> 4096, f |-> 8192],
     [b |-> 16384, f |-> 1024], [S |-> 256], [t |-> -1], [f |-> 1024, s |-> 1], [t |-> 4, u |-> 5, c |-> 1]}
NewfsDisks ==
    {[opt |-> o, label |-> Floppy(n)] : o \in NewfsOptions, n \in {140, 720, 1440, 1540, 1800, 2880}}
    \cup {[opt |-> o, label |-> Floppy(720)] : o \in NewfsBad}
    \cup {[opt |-> <<>>, label |-> l] :
             l \in {[Floppy(720) EXCEPT !.read = "label"], [Floppy(720) EXCEPT !.read = "none"],
                    [Floppy(720) EXCEPT !.mounted = TRUE], [Floppy(720) EXCEPT !.boot = TRUE],
                    [Floppy(720) EXCEPT !.psize = 0], [Floppy(2000) EXCEPT !.read = "label", !.fsize = 0, !.frag = 0]}}

-----------------------------------------------------------------------------
(* disklabel: disks of 100 sectors, four partitions *)

W(n) == <<<<n>>, "">>
U(n, unit) == <<<<n>>, unit>>
Star == <<<<>>, "*">>
Ufs == <<<<4>>, ".2BSD">>
NoFs == <<<<>>, "unused">>
SwapFs == <<<<>>, "swap">>
DiskLines(secsize) ==
    <<<<"disk", "fd">>, <<"flags", {"ecc"}>>, <<"secsize", secsize>>, <<"nsectors", 10>>, <<"ntracks", 2>>,
      <<"ncylinders", 5>>, <<"rpm", 300>>, <<"interleave", 1>>, <<"partitions", 4>>>>
FirstParts == {<<>>, <<<<"part", 0, <<W(40), W(0), Ufs, W(4), W(16), W(3)>>>>>>, <<<<"part", 0, <<U(50, "%"), Star, Ufs>>>>>>,
               <<<<"part", 0, <<Star, Star, SwapFs>>>>>>, <<<<"part", 0, <<U(9, "g"), W(0), Ufs, W(2)>>>>>>,
               <<<<"part", 0, <<U(25, "m"), W(60), Ufs>>>>>>}  \* its end wraps to 4
SecondParts == {<<>>, <<<<"part", 1, <<U(1, "g"), Star, SwapFs>>>>>>, <<<<"part", 1, <<W(30), W(30), NoFs, W(1), W(2)>>>>>>,
                <<<<"part", 1, <<Star, Star, NoFs>>>>>>, <<<<"part", 1, <<W(60), W(40), Ufs>>>>>>}
WholePart == <<<<"part", 2, <<Star, Star, NoFs>>>>>>
LastParts == {<<>>, <<<<"part", 3, <<U(10, "%"), Star, Ufs, W(2)>>>>>>, <<<<"part", 3, <<W(20), Star, W(1)>>>>>>,
              <<<<"part", 3, <<W(20), W(80), W(99)>>>>>>}
Arrangements == {DiskLines(2) \o a \o b \o WholePart \o d : a \in FirstParts, b \in SecondParts, d \in LastParts}
OddTexts ==
    {DiskLines(2) \o x : x \in
        {<<<<"part", 0, <<>>>>>>, <<<<"part", 0, <<W(0), W(0), NoFs>>>>, <<"rpm", 0>>>>, <<<<"part", 0, <<W(5)>>>>>>,
         <<<<"part", 0, <<W(5), U(-1, ""), Ufs>>>>>>, <<<<"partitions", 9>>>>, <<<<"part", 5, <<W(5), W(0), Ufs>>>>>>,
         <<<<"cylskew", -1>>>>, <<<<"trkseek", 3>>, <<"secsize", 3>>>>, <<<<"syntax", 0>>>>, <<<<"flags", {"slow"}>>>>,
         <<<<"drivedata", <<0, 7, 9>>>>, <<"label", "l">>>>, <<<<"part", 0, <<U(120, "%"), Star, NoFs, W(0), W(1)>>>>>>,
         <<<<"part", 0, <<U(2, "m"), W(0), Ufs>>>>, <<"secperunit", 8>>>>, <<<<"part", 2, <<U(20, "%"), W(0), NoFs>>>>,
            <<"part", 0, <<Star, W(0), Ufs>>>>>>}}
    \cup {<<<<"partitions", 1>>, <<"part", 0, <<W(5), W(0), Ufs>>>>>>, <<<<"secsize", 2>>>>, DiskLines(4)}
Known == [size |-> 100, offset |-> 0, fstype |-> NoFs, fsize |-> 0, frag |-> 0, cpg |-> 0]
Typical(secsize) ==
    [secsize |-> secsize, nsectors |-> 10, ntracks |-> 2, ncylinders |-> 5, secpercyl |-> 20, secperunit |-> 100, rpm |-> 0,
     interleave |-> 1, trackskew |-> 0, cylskew |-> 0, headswitch |-> 0, trkseek |-> 0, npartitions |-> 4, disk |-> "fd",
     label |-> "", flags |-> {}, drivedata |-> <<0, 0>>, part |-> [i \in 0..3 |-> IF i = 2 THEN Known ELSE [Known EXCEPT !.size = 0]]]
DiskTypes == [fd |-> Typical(2), big |-> Typical(4), auto |-> [Typical(0) EXCEPT !.nsectors = 0],
              virgin |-> [Typical(2) EXCEPT !.secpercyl = 0, !.secperunit = 0, !.rpm = 300]]
RebootTexts == {DiskLines(2) \o a \o <<<<"part", 1, <<U(1, "g"), Star, SwapFs>>>>>> \o WholePart : a \in FirstParts}
LabelDisks ==
    {[area |-> [a \in {2, 4} |-> l[a \div 2]], boot |-> "old", slices |-> "table", writable |-> FALSE, sector |-> s, incore |-> l[s \div 2]] :
        l \in {<<<<>>, <<>>>>, <<Typical(2), <<>>>>, <<<<>>, Typical(4)>>, <<[Typical(2) EXCEPT !.secpercyl = 0], <<>>>>}, s \in {2, 4}}
FewDisks == {d \in LabelDisks : d.sector = 2 /\ d.incore # <<>> /\ d.incore.secpercyl # 0}
Given == [op |-> "READ", r |-> FALSE, n |-> FALSE, B |-> FALSE, type |-> "", label |-> "", text |-> <<>>]
Restore(t, b) == [Given EXCEPT !.op = "RESTORE", !.r = TRUE, !.B = b, !.text = t]
Label(r, b, type) == [Given EXCEPT !.op = "WRITE", !.r = r, !.B = b, !.type = type, !.label = "l"]
Just(op) == [Given EXCEPT !.op = op]
NextCommands ==
    {[Given EXCEPT !.r = r] : r \in BOOLEAN}
    \cup {[Given EXCEPT !.op = "WRITEBOOT", !.r = TRUE, !.B = TRUE, !.type = y] : y \in {"", "fd", "big"}}
    \cup {[Given EXCEPT !.op = "WRITE", !.n = TRUE, !.type = "fd"]}
LabelSessions ==
    {[dev |-> d, commands |-> <<Restore(t, FALSE)>>] : d \in FewDisks, t \in Arrangements \cup OddTexts}
    \cup {[dev |-> d, commands |-> <<Label(r, FALSE, y), c>>] : d \in LabelDisks, r \in {TRUE}, y \in {"fd", "big"}, c \in NextCommands}
    \cup {[dev |-> d, commands |-> <<Label(TRUE, TRUE, y), Just(o)>>] : d \in FewDisks, y \in {"fd", "auto", "virgin", "zip"},
             o \in {"NOWRITE", "WRITEABLE", "READ"}}
    \cup {[dev |-> d, commands |-> <<Restore(t, TRUE), [Given EXCEPT !.op = "WRITEBOOT", !.r = TRUE, !.B = TRUE]>>] : d \in FewDisks, t \in RebootTexts}
    \cup {[dev |-> d, commands |-> <<[Just("EDIT") EXCEPT !.r = r], Just("READ")>>] : d \in LabelDisks, r \in BOOLEAN}
LabelTexts ==
    {t \in {DiskLines(2) \o WholePart \o d : d \in LastParts} \cup RebootTexts : Len(t) # 11}

-----------------------------------------------------------------------------
\* grep: characters of words and others, two of them upper and lower case of one letter
NL == "newline"
TextChars == {"a", "b", "A", "-", "_", NL}
WordChars == {"a", "b", "A", "_"}
Letters == {"a", "b", "A"}
Cases == [c \in {"a", "A"} |-> {"a", "A"}]
Meta == {"[", "]", "^", "$", "\\", "(", ")", "|", "*", "+", "?", "{", "}", ",", ".", "1", "2",
         "<", ">", "B", "[:alnum:]", "[:alpha:]"}
ToLower == [c \in TextChars \cup Meta |-> CASE c = "A" -> "a" [] c = "B" -> "b" [] OTHER -> c]
Collating == <<"-", "A", "_", "a", "b">>
Named == [k \in {"[:alnum:]", "[:alpha:]"} |-> Letters]
Digits == [c \in {"1", "2"} |-> IF c = "1" THEN 1 ELSE 2]

Re == INSTANCE Regexp WITH Chars <- TextChars, Eol <- NL, Word <- WordChars, Cased <- Cases

OneA == Re!Chr("a")
OneB == Re!Chr("b")
Dash == Re!Chr("-")
Dot == Re!Set({NL}, TRUE, <<".">>)
NotB == Re!Set({"b"}, TRUE, <<"[", "^", "b", "]">>)
UpToB == Re!Set({"a", "b"}, FALSE, <<"[", "a", "-", "b", "]">>)
Lts == Re!Set({"a", "b", "A"}, FALSE, <<"[", "[:alpha:]", "]">>)
Stars(e) == Re!Rep(e, <<"*">>, 0, -1)
Two(e, f) == Re!Then(e, f)
Plus(e) == Re!Rep(e, <<"+">>, 1, -1)
Option(e) == Re!Rep(e, <<"?">>, 0, 1)

Literals ==
    {OneA, Two(OneA, OneB), Two(Two(OneA, OneA), OneB), Two(Dot, Two(Dot, OneA)), Two(NotB, OneA), Two(UpToB, Dash), Two(Lts, OneB)}
Repeated ==
    {Two(OneA, Two(Stars(OneB), OneA)), Two(Stars(OneA), OneB), Two(OneA, Two(Option(Re!Group(Two(OneA, OneB))), OneB)), Two(Plus(OneA), Dash),
     Two(Re!Rep(OneA, <<"2">>, 2, 2), OneB), Two(OneB, Re!Rep(OneA, <<"1", ",", "2">>, 1, 2)),
     Two(OneB, Re!Rep(OneA, <<"2", ",">>, 2, -1)), Re!Rep(Re!Group(Two(OneA, Dot)), <<"2">>, 2, 2)}
Several ==
    {Re!Or(Two(OneA, OneA), Two(OneB, OneA)), Re!OrLine(Two(OneB, OneB), OneA),
     Two(Re!Group(Re!Or(OneA, OneB)), Re!Back), Two(Re!Group(Stars(OneA)), Two(OneB, Re!Back))}
AtWords == {Two(Re!At("<"), OneA), Two(OneA, Re!At(">")), Two(Re!At("b"), Two(OneB, OneA)), Two(OneA, Re!At("B"))}
Patterns == Literals \cup Repeated \cup Several \cup AtWords

\* Patterns of whole lines, and one of empty strings: not with -w or -x
Anchored == {Two(Re!At("^"), OneB), Two(OneA, Re!At("$")), Two(Re!At("^"), Re!At("$")), Stars(OneA)}

Style(only, invert, before, after, mode) ==
    [only |-> only, invert |-> invert, before |-> before, after |-> after, mode |-> mode]
Styles == {Style("", FALSE, 0, 0, "show"), Style("", FALSE, 1, 1, "show"), Style("", TRUE, 0, 1, "show"),
           Style("", TRUE, 0, 0, "count")}
OnlyStyles == {Style("w", FALSE, 0, 0, "show"), Style("x", FALSE, 1, 0, "show"), Style("w", FALSE, 0, 0, "first")}

Command(m, e, keys, fold, s) ==
    [matcher |-> m, e |-> e, keys |-> keys, fold |-> fold, words |-> s.only = "w", lines |-> s.only = "x",
     invert |-> s.invert, before |-> s.before, after |-> s.after, mode |-> s.mode]

KeyLists ==
    {<< <<"a">> >>, << <<"a", "b">> >>, << <<"a", "b", "a">> >>, << <<"a", "b">>, <<"b", "b", "a">> >>,
     << <<"a">>, <<"a", "b">>, <<"b", "a", "b">> >>,
     << <<"a", "a", "b">>, <<"-", "a">>, <<"a", "b", "a", "b">> >>}
Literal(word) == FoldLeft(LAMBDA e, c : Two(e, Re!Chr(c)), Re!Chr(word[1]), Tail(word))
AnyOf(keys) == FoldLeft(LAMBDA e, w : Re!Or(e, Literal(w)), Literal(keys[1]), Tail(keys))

GrepCommands ==
    {Command(m, e, <<>>, FALSE, s) : m \in {"G", "E"}, e \in Patterns, s \in Styles \cup OnlyStyles}
    \cup {Command(m, e, <<>>, FALSE, s) : m \in {"G", "E"}, e \in Anchored, s \in Styles}
    \cup {Command(m, e, <<>>, TRUE, Style("", FALSE, 1, 0, "show")) : m \in {"G", "E"}, e \in Patterns}
    \cup {Command("F", AnyOf(k), k, f, s) : k \in KeyLists, f \in BOOLEAN, s \in Styles \cup OnlyStyles}

Files ==
    {<<>>, <<NL>>, <<"a">>, <<"b", "a", NL, "-", "a", NL, "a", "b", "a", "a">>,
     <<"a", "a", "b", "a", NL, "a", "b", "b", NL, NL, "b", "b", "a", "a", "-", NL>>,
     <<"A", "b", "-", "a", NL, "b", NL, "a", "a", "-", "b", "a", NL, "b", "_", "a", NL, "b", "a", "b", "b">>,
     <<"b", "-", "a", "-", NL, "b", NL, "b", NL, "b", NL, "a", "b", "a", "b", NL>>}


-----------------------------------------------------------------------------
(* route: two connected networks, and a gateway with two addresses of which only the second is near *)

Gateway == <<10, 0, 0, 1>>
Resolved == [gw |-> << <<172, 16, 0, 9>>, Gateway>>, srv |-> << <<10, 0, 7, 7>> >>,
               away |-> << <<172, 16, 0, 9>>, <<172, 16, 0, 8>> >>]
Tunnel == <<"name", "ppp0">>
Reached == {Gateway, <<10, 0, 0, 2>>, <<127, 0, 0, 1>>, Tunnel}

RouteTo(family, key, gate, flags) ==
    [family |-> family, key |-> key, gate |-> gate, flags |-> flags \cup {"up"}, inits |-> {}, locks |-> {}]
Net(bytes) == [i \in 1..4 |-> IF i <= bytes THEN 255 ELSE 0]
Connected == RouteTo("inet", << <<10, 0, 0, 0>>, Net(1)>>, <<"name", "e0">>, {})
DefaultRoute == RouteTo("inet", <<Net(0), Net(0)>>, Gateway, {"gateway", "-static"})
HostRoute == RouteTo("inet", << <<128, 0, 0, 32>>, <<>> >>, Gateway, {"gateway", "-static", "host"})
ClassB == RouteTo("inet", << <<128, 32, 0, 0>>, Net(2)>>, <<10, 0, 0, 2>>, {"gateway"})
Six == RouteTo("inet6", << <<6>>, <<>> >>, Gateway, {"gateway"})
Leased == {DefaultRoute, RouteTo("inet", ClassB.key, Tunnel, {})}
RouteTables == {{}, {Connected, DefaultRoute, HostRoute, Six}, {Connected, ClassB, Six}}

Dotted == {<<0>>, <<10>>, <<130>>, <<128, 32>>, <<128, 32, 130>>, <<128, 32, 0, 0>>, <<10, 1, 2, 3>>, <<255, 255, 255, 255>>}
Destinations ==
    {<<"default">>, <<"slash", <<128, 32, 130, 1>>, 20>>, <<"slash", <<10>>, 8>>, <<"slash", <<172, 16, 0, 0>>, 0>>}
    \cup {<<"dotted", p>> : p \in Dotted} \cup {<<"name", n>> : n \in {"gw", "srv", "nobody"}}
Arg(w) == <<"arg", w>>
Gateways ==
    {<<>>, <<Arg(<<"dotted", Gateway>>)>>, <<Arg(<<"dotted", <<127, 1>> >>)>>, <<Arg(<<"name", "gw">>)>>,
     <<Arg(<<"name", "away">>)>>, << <<"-iface">>, Arg(Tunnel)>>}
Masked ==
    {<< <<"-netmask", <<"dotted", Net(2)>> >> >>, << <<"-netmask", <<"dotted", Net(4)>> >> >>,
     <<Arg(<<"dotted", Net(3)>>)>>, << <<"-prefixlen", 32>> >>, << <<"-prefixlen", 12>> >>,
     << <<"-nostatic">>, <<"-reject">>, <<"-lock">>, <<"-mtu", 9>>, <<"-rtt", 5>> >>,
     << <<"-static">>, <<"-lockrest">>, <<"-mtu", 9>>, <<"-hopcount", 3>>, <<"-nostatic">> >>,
     << <<"-nostatic">>, <<"-lock">>, <<"-mtu", 9>>, <<"-static">>, <<"-mtu", 5>> >>}

RouteCommand(cmd, items) == [cmd |-> cmd, items |-> items, family |-> "any"]
Flush(family) == [cmd |-> "flush", items |-> <<>>, family |-> family]
Forced == {<<>>, << <<"-net">> >>, << <<"-host">> >>}

RoutingSessions ==
    {[table |-> t, commands |-> <<RouteCommand(c, o \o <<Arg(d)>> \o g)>>] :
        t \in RouteTables, c \in {"add", "change", "delete"}, o \in Forced, d \in Destinations, g \in Gateways}
    \cup
    {[table |-> {Connected, ClassB}, commands |-> <<RouteCommand("add", o \o <<Arg(d), Arg(<<"name", "gw">>)>> \o m),
                                                    RouteCommand("delete", o \o <<Arg(d)>> \o m)>>] :
        o \in Forced, d \in Destinations, m \in Masked}
    \cup
    {[table |-> {Connected, ClassB}, commands |-> <<RouteCommand("add", << <<"-lock">>, <<"-mtu", 7>>, Arg(<<"name", "srv">>)>> \o g),
                                                    RouteCommand("change", <<Arg(<<"dotted", <<10, 0, 7, 7>> >>)>> \o h \o m)>>] :
        g \in Gateways, h \in {<<>>, <<Arg(<<"dotted", <<10, 0, 0, 2>> >>)>>}, m \in Masked}
    \cup
    {[table |-> {}, commands |-> <<RouteCommand("add", i)>>] :
        i \in {<<>>, << <<"-dst", <<"name", "srv">> >>, <<"-gateway", <<"dotted", Gateway>> >> >>, << <<"-mtu">> >>,
               << <<"-prefixlen", 8>>, Arg(<<"default">>)>>, << <<"-inet">>, <<"-prefixlen", 40>> >>}}
    \cup
    {[table |-> t, commands |-> <<Flush(f)>>] : t \in RouteTables \cup {{Connected, DefaultRoute, HostRoute, ClassB, Six}}, f \in {"any", "inet"}}

=============================================================================
