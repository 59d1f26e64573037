----------------------------- MODULE MCUserland -----------------------------
(***************************************************************************)
(* The programs of the CD that keep nothing between two runs, those of     *)
(* Userland and the others, which have the registers for their variables.  *)
(***************************************************************************)
EXTENDS Userland, SequencesExt, FiniteSets

\* Registers from the ninth or the eleventh on that a program does not use
Unused11 == r11 = 0 /\ r12 = 0 /\ r13 = 0 /\ Unused14
Unused9 == r9 = 0 /\ Unused10

Run == INSTANCE UserlandCases

-----------------------------------------------------------------------------
(* gzip: bytes of two bits, lengths of 3 to 5, distances up to 8 *)

StaticLengths == [n \in 0..8 |-> CASE n < 4 -> 4 [] n = 4 -> 2 [] OTHER -> 3]
LengthBits == <<0, 1, 0>>
DistBits == <<0, 0, 1, 2>>
LengthOrder == <<5, 6, 7, 0, 3, 2, 4, 1>>
Counts == <<2, 2, 3>>
Words == {<<0, 1, 2, 3, 0, 1, 1, 2>>, <<0, 0, 0, 0, 0, 1, 0, 0>>, <<0, 1, 2, 0, 1, 2, 3, 3>>}

Zipper == INSTANCE Deflate WITH
    input <- r1, nread <- r2, level <- r3, window <- r4, strstart <- r5, block_start <- r6,
    lookahead <- r7, eofile <- r8, dict <- r9, match <- r10, available <- r11, tokens <- r12,
    bits <- r13, at <- r14,
    Inputs <- {<<>>, <<0>>, <<1, 2>>, <<3, 3, 3, 3>>} \cup {FlattenSeq(s) : s \in [1..4 -> Words]}
              \cup {FlattenSeq(s) \o s[1] : s \in [1..4 -> Words]},
    Levels <- {[n |-> 1, good |-> 4, lazy |-> 4, nice |-> 4, chain |-> 4],
               [n |-> 3, good |-> 3, lazy |-> 3, nice |-> 5, chain |-> 2],
               [n |-> 4, good |-> 3, lazy |-> 4, nice |-> 5, chain |-> 4]},
    WSIZE <- 16, MAX_MATCH <- 5, HASH_BITS <- 4, H_SHIFT <- 2, TOO_FAR <- 5, Literals <- 4,
    ExtraLbits <- LengthBits, ExtraDbits <- DistBits, StaticLens <- StaticLengths,
    StaticDist <- 6, MAX_BITS <- 4, MAX_BL_BITS <- 3, BlOrder <- LengthOrder, BlBits <- 2,
    CountBits <- Counts, LIT_BUFSIZE <- 14, TallyCheck <- 8, ByteBits <- 2, ShortBits <- 6,
    Reads <- {2}

Unzipper == INSTANCE Inflate WITH
    SlideSize <- 16, LiteralCodes <- 4, CpLens <- <<3, 4, 5>>, CpLext <- LengthBits,
    CpDist <- <<1, 2, 3, 5>>, CpDext <- DistBits, FixedLens <- StaticLengths, FixedDist <- 6,
    Border <- LengthOrder, BorderBits <- 2, TableBits <- Counts, Repeat <- 5,
    UnitBits <- 2, LengthBits <- 6

\* gunzip gives back what gzip was given, whatever the reads return, the level, and
\* the kinds of blocks and codes that come of it: the two programs build their codes
\* and use their windows with separate code (deflate.c, trees.c; inflate.c).
GzipLossless ==
    program = "deflate" /\ r14 = "done" =>
        Unzipper!InflateAll(r13) = [ok |-> TRUE, out |-> r1]

-----------------------------------------------------------------------------
(* gzip's files: two plain names and the same two compressed *)

Names == {"a", "b"} \X {"", "gz"}
Own(n) == n[1] \o n[2]
Packed(parts, tail) == [kind |-> "packed", parts |-> parts, tail |-> tail]
NoFile == [kind |-> "absent", parts |-> <<>>, tail |-> FALSE]
SomeFile(n) ==
    {NoFile, [kind |-> "plain", parts |-> <<Own(n)>>, tail |-> FALSE]} \cup
    IF n[2] = "" THEN {}
    ELSE {Packed(<<Own(n), Own(n) \o "2">>, FALSE), Packed(<<Own(n)>>, TRUE),
          Packed(<<Own(n), "corrupt">>, FALSE), Packed(<<"foreign">>, FALSE)}

MCParts == {Own(n) : n \in Names} \cup {Own(n) \o "2" : n \in Names} \cup {"corrupt", "foreign"}
MCGzipCommands == {<< <<"a", "">>, <<"b", "">> >>, << <<"b", "gz">>, <<"a", "gz">> >>}
MCGzipDisks == {d \in [Names -> UNION {SomeFile(n) : n \in Names}] : \A n \in Names : d[n] \in SomeFile(n)}

-----------------------------------------------------------------------------
(* ipfw: addresses of two bits *)

Ipfw == INSTANCE RuleText WITH Width <- 2, MaxPorts <- 4, MaxType <- 32, VerboseLimit <- 100

Actions == {<< <<"pass">> >>, << <<"fwd">>, <<"hop", <<0, 1>>, 80>> >>, << <<"reset">> >>,
            << <<"unreach">>, <<"num", 3>> >>, << <<"divert">>, <<"num", 65537>> >>}
Logs == {<<>>, << <<"log">>, <<"logamount">>, <<"num", 7>> >>}
Hosts == {<< <<"any">> >>, << <<"not">>, <<"me">> >>, << <<"not">>, <<"addr", <<0, 1>> >> >>,
          << <<"net", <<1, 1>>, 1>> >>, << <<"masked", <<1, 1>>, <<0, 1>> >> >>}
Ports == {<<>>, << <<"ports", <<80>>, <<>> >> >>, << <<"ports", <<1, 2, 3>>, <<"-", ",">> >> >>,
          << <<"ports", <<1, 70000>>, <<":">> >> >>}
Endings == {<<>>, << <<"in">> >>, << <<"frag">> >>, << <<"keep-state">> >>, << <<"bridged">> >>,
            << <<"limit">>, <<"src-addr">>, <<"dst-port">>, <<"num", 3>> >>,
            << <<"via">>, <<"if", "e0">> >>, << <<"out">>, <<"xmit">>, <<"if", "e1">> >>,
            << <<"out">>, <<"recv">>, <<"if", "e0">>, <<"xmit">>, <<"if", "e1">> >>, << <<"setup">> >>,
            << <<"tcpflags">>, <<"opts", {<<"+", "syn">>, <<"!", "ack">>}>> >>,
            << <<"tcpoptions">>, <<"opts", {<<"+", "mss">>}>> >>,
            << <<"ipoptions">>, <<"opts", {<<"+", "ts">>, <<"!", "rr">>, <<"+", "zz">>}>> >>,
            << <<"icmptypes">>, <<"types", {0, 3}>> >>}
Protocols == {<<"tcp">>, <<"all">>, <<"icmp">>}

IpfwInit ==
    \/ \E a \in Actions, l \in Logs, t \in Protocols, h \in Hosts, e \in Endings :
          r1 = a \o l \o <<t, <<"from">>>> \o h \o <<<<"to">>, <<"any">>>> \o e
    \/ \E t \in Protocols, h, i \in Hosts, s, d \in Ports, e \in Endings :
          r1 = <<<<"pass">>, t, <<"from">>>> \o h \o s \o <<<<"to">>>> \o i \o d \o e

SameRule(o, q) == o.ok /\ Ipfw!Meaning(o.r) = Ipfw!Meaning(q.r)
ShownIsRule(q) == q.ok /\ Ipfw!Listable(q.r) => SameRule(Ipfw!Parse(Ipfw!Show(q.r)), q)

\* What "ipfw list" prints of a rule is a command for the same rule, as long as its
\* words say all of it (Listable): neither program drops or turns a part of it
\* (ipfw.c:184-537, 1631-2104).
ListIsRule == program = "ipfw" => ShownIsRule(Ipfw!Parse(r1))

-----------------------------------------------------------------------------
(* grep *)

Grep == INSTANCE Grep WITH
    opt <- r1, prog <- r2, text <- r3, pc <- r4, bufbeg <- r5, buflim <- r6, save <- r7, residue <- r8,
    printed <- r9,
    Chars <- Run!TextChars, Eol <- Run!NL, Word <- Run!WordChars, Cased <- Run!Cases,
    Lower <- Run!ToLower, Order <- Run!Collating, Classes <- Run!Named, Digit <- Run!Digits,
    Commands <- Run!GrepCommands, Texts <- Run!Files, Reads <- {2, 5}

\* Whatever the reads return, grep prints the lines that match, or those that do not, each
\* once, in order and with its number, and the context that was asked for: neither the
\* words that are looked for first, nor the automaton, nor the buffer loses one
\* (grep.c:672-818, search.c:245-427, kwset.c, dfa.c).
GrepSelects == program = "grep" => Grep!Selects

-----------------------------------------------------------------------------
(* dd: one read may fail *)

Dd == INSTANCE Dd WITH
    opt <- r1, pc <- r2, rest <- r3, inbuf <- r4, outbuf <- r5, intrunc <- r6, cnt <- r7, force <- r8,
    pending <- r9, file <- r10, pos <- r11, blocks <- r12, chunks <- r13, db <- r14,
    Operands <- Run!DdCommands, Inputs <- Run!DdFiles, Old <- Run!DdBefore, Upper <- Run!UpperCase,
    Nul <- "nul", Blank <- " ", NewLine <- "nl", Errors <- 1

\* Whatever the reads return and the writes take, dd writes what it read, converted, at
\* its place: no byte and no record is lost or cut between two blocks, neither in the
\* buffers nor behind a hole (dd.c:235-453, conv.c:58-270).
DdWrites == program = "dd" => Dd!Writes

-----------------------------------------------------------------------------
(* pwd_mkdb: two runs, and ping: a table of two bits for four numbers *)

MCPwdCases == Run!PwdFiles
MCPwdCalls == Run!PwdOptions

MCPingOptions == [npackets : {0, 2}, preload : {0, 2}, flood : BOOLEAN]

-----------------------------------------------------------------------------
(* natd's options: 16 ports *)

MCNatdFiles == Run!Config
Another == <<"udp", <<"at", "h2", <<"range", 2, 3>> >>, <<"range", 5, 6>> >>
MCNatdLines ==
    {<< <<"interface", <<"e0">> >>, <<"redirect_port", w>>, <<"redirect_port", Another>> >> :
        w \in Run!Redirections}
    \cup {<<o1, o2, o3>> : o1, o2, o3 \in Run!NatdWords}

-----------------------------------------------------------------------------
(* ipfwconfig and another session: a command with a q in its address, of two bits, and one *)
(* that ipfw does not know                                                                 *)

MCHostText == {<<>>}
MCRawQuoted == {<< <<"deny">>, <<"all">>, <<"from">>, <<"any">>, <<"to">>, <<"addr", <<0, 1>> >> >>}
MCRaw == MCRawQuoted \cup {<< <<"bad">> >>}

-----------------------------------------------------------------------------
(* tar: records of two units, blocks of three records *)

Tar == INSTANCE Tar WITH
    opt <- r1, plan <- r2, step <- r3, drive <- r4, todo <- r5, links <- r6, names <- r7, files <- r8,
    dirs <- r9, pc <- r10,
    RECORDSIZE <- 2, Blocking <- 3, ReadErrorMax <- 10, NAMSIZ <- 4, SPARSE_IN_HDR <- 1, SPARSE_EXT_HDR <- 2,
    MaxMajor <- 7, MaxMinor <- 7, Now <- 99, Sessions <- Run!TarSessions

\* What tar extracts is what its names and options choose of the files that were archived,
\* appended, brought up to date and not deleted, each with its contents, holes, links, mode
\* and time, whatever volumes are put in and however the reads of a pipe come
\* (create.c:194-1003, buffer.c:533-1301, extract.c:143-946, update.c:97-585).
TarRestores == program = "tar" => Tar!Restores

-----------------------------------------------------------------------------
(* newfs *)

Newfs == INSTANCE Newfs WITH
    opt <- r1, label <- r2, fs <- r3, fscs <- r4, group <- r5, io <- r6, cylno <- r7, pc <- r8,
    DESCPG <- 65536, Disks <- Run!NewfsDisks

\* Whatever options, labels and sizes it is given, newfs refuses them or makes a file system
\* that fits: no place that holds something is in a map of free ones, and the maps, counts,
\* tables and copies agree with it and with one another (mkfs.c:173-925, 1053-1103).
Formats == program = "newfs" => Newfs!Formats

-----------------------------------------------------------------------------
(* disklabel: sectors of 2 bytes, units of 4, 16 and 64, numbers of 8 bits *)

Disklabel == INSTANCE Disklabel WITH
    dev <- r1, opt <- r2, ran <- r3, said <- r4, lab <- r5, buf <- r6, text <- r7, pc <- r8,
    DEV_BSIZE <- 2, BBSIZE <- 16, LABELSECTOR <- 1, Kilo <- 4, Width <- 8, MAXPARTITIONS <- 4, NDDATA <- 2,
    Texts <- Run!LabelTexts, Types <- Run!DiskTypes, Sessions <- Run!LabelSessions, BootSize <- 6, MaxEdits <- 2

\* A label that disklabel wrote from a text has the partitions that were typed, each where it
\* was put and as large as it was asked for, with what is left to the one that takes the rest,
\* none over another or beyond the disk; shown, it can be read again; and the disk holds it
\* with the programs and slices it should have (disklabel.c:359-1584).
LabelsAsTyped == program = "disklabel" => Disklabel!Labels

-----------------------------------------------------------------------------
(* route *)

MCRouteSessions == Run!RoutingSessions
MCRouteHosts == Run!Resolved
MCRouteLinks == {"ppp0"}
MCRouteNear == Run!Reached
MCRouteOthers == Run!Leased

-----------------------------------------------------------------------------
MCInit ==
    \/ UserlandInit
    \/ /\ NoScreen
       /\ \/ program = "disklabel" /\ Disklabel!Init /\ Unused9
          \/ program = "newfs" /\ Newfs!Init /\ Unused9
          \/ program = "tar" /\ Tar!Init /\ Unused11
          \/ program = "dd" /\ Dd!DdInit
          \/ program = "deflate" /\ Zipper!DeflateInit
          \/ program = "grep" /\ Grep!GrepInit /\ Unused10
          \/ program = "ipfw" /\ IpfwInit /\ Unused2

MCNext ==
    \/ UserlandNext
    \/ /\ UNCHANGED <<program, p, rule, boxes, text>>
       /\ \/ program = "disklabel" /\ Disklabel!Next /\ UNCHANGED <<r9, r10, r11, r12, r13, r14>>
          \/ program = "newfs" /\ Newfs!Next /\ UNCHANGED <<r9, r10, r11, r12, r13, r14>>
          \/ program = "tar" /\ Tar!Next /\ UNCHANGED <<r11, r12, r13, r14>>
          \/ program = "dd" /\ Dd!DdNext
          \/ program = "deflate" /\ Zipper!DeflateNext
          \/ program = "grep" /\ Grep!GrepNext /\ UNCHANGED <<r10, r11, r12, r13, r14>>

=============================================================================
