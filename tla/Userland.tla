------------------------------ MODULE Userland ------------------------------
(***************************************************************************)
(* Six programs of the CD, one run of one of them at a time: program says  *)
(* which, and the registers r1 to r14 are its variables.  The screens of   *)
(* ipfwconfig, which are copies of the console's, have those of            *)
(* RuleScreens.                                                            *)
(***************************************************************************)
EXTENDS RuleScreens

CONSTANTS
    Bases, Parts,               \* gzip: names without a suffix, and pieces of text
    GzipCommands, GzipDisks,    \*   the names on its command line, what is on the disk
    PingOptions,                \* ping
    DupCheck, SeqNumbers,       \*   bits in its table, values of icmp_seq
    MaxSent, MaxCopies, MaxNoise,
    PwdRuns, PwdCases, PwdCalls,    \* pwd_mkdb
    Sessions, Editor, Raw, RawQuoted,  \* ipfwconfig and other sessions
    EditorLines, AddressBits, PortSlots, IcmpTypes, LogLimit,
    NatdLines, NatdFiles, NatdPorts, NatdService,   \* natd's options
    RouteSessions, RouteHosts, RouteLinks,  \* route: tables and commands, and what names mean
    RouteNear, RouteOthers      \*   what the kernel reaches, and what other programs do

VARIABLES program, r1, r2, r3, r4, r5, r6, r7, r8, r9, r10, r11, r12, r13, r14
vars == <<program, p, rule, boxes, text, r1, r2, r3, r4, r5, r6, r7, r8, r9, r10, r11, r12, r13, r14>>

NoScreen == p = 0 /\ rule = 0 /\ boxes = 0 /\ text = 0
\* Registers from a certain one on that a program does not use
Unused14 == r14 = 0
Unused10 == r10 = 0 /\ r11 = 0 /\ r12 = 0 /\ r13 = 0 /\ Unused14
Unused7 == r7 = 0 /\ r8 = 0 /\ r9 = 0 /\ Unused10
Unused2 == r2 = 0 /\ r3 = 0 /\ r4 = 0 /\ r5 = 0 /\ r6 = 0 /\ Unused7

-----------------------------------------------------------------------------
(* gzip's files *)

Gzip == INSTANCE GzipFile WITH
    opt <- r1, pc <- r2, args <- r3, disk <- r4, ifname <- r5, ofname <- r6,
    remove_ofname <- r7, part <- r8, out <- r9, held <- r10, agreed <- r11, unread <- r12,
    failed <- r13,
    Options <- [decompress : BOOLEAN, to_stdout : BOOLEAN, force : BOOLEAN],
    Commands <- GzipCommands, Disks <- GzipDisks

\* Names are of a base and a suffix, files of parts.
ASSUME GzipCommandLines == Gzip!CommandLines(Bases, Parts)

\* At every step each text that was on the disk at the start is in a whole file, unless it
\* was overwritten with leave, was behind what gzip took for the end of its input, or an
\* output of this run has failed (gzip.c:704-1005).
TextsKept == program = "gzip" => Gzip!TextsKept

-----------------------------------------------------------------------------
(* pwd_mkdb *)

PwdMkdb == INSTANCE PwdMkdb WITH
    opt <- r1, pc <- r2, case <- r3, clean <- r4, holder <- r5, tmp <- r6, files <- r7, named <- r8,
    halfway <- r9,
    Runs <- PwdRuns, Cases <- PwdCases, Options <- PwdCalls, Hash <- "#", NoUid <- -1

\* What the loop over the lines makes of the cases
ASSUME PwdCasesLoad == PwdMkdb!CasesLoad

\* Whatever several runs do at the same time and wherever one is killed, each database in
\* place is a whole one, the two belong to one another unless they are just being replaced,
\* and master.passwd is never newer than they are (pwd_mkdb.c:175-486).
DatabasesWhole == program = "pwd_mkdb" => PwdMkdb!DatabasesWhole

-----------------------------------------------------------------------------
(* ping *)

Ping == INSTANCE Ping WITH
    opt <- r1, pc <- r2, preload <- r3, ntransmitted <- r4, nreceived <- r5, nrepeats <- r6, tried <- r7,
    rcvd <- r8, net <- r9, almost_done <- r10, finish_up <- r11, noise <- r12, answered <- r13, late <- r14,
    Options <- PingOptions

\* Each number has a bit in the table.
ASSUME PingTableFits == Ping!TableFits

\* However answers are lost, doubled or come in another order, ping counts each echo that
\* was answered once and the rest as repetitions, although the bits of its table are used
\* over and over, as long as no answer is later than the table is long
\* (ping.c:606-753, 815-830).
PingCounts == program = "ping" => Ping!PingCounts

-----------------------------------------------------------------------------
(* ipfwconfig and other sessions *)

RuleEditor == INSTANCE RuleEditor WITH
    screen <- r1, script <- r2, chain <- r3, rlist <- r4, behind <- r5, intended <- r6,
    Quoted <- RawQuoted, MaxLines <- EditorLines,
    Width <- AddressBits, MaxPorts <- PortSlots, MaxType <- IcmpTypes, VerboseLimit <- LogLimit

ASSUME EditorAssumption == Editor \in Sessions

\* Whatever another session does while a screen or the list is shown, the rules in force
\* are those of the script; and these are the rules that were added and not deleted since
\* a list was written that was behind or that cut a line (ipfwconfig/rules.c:313-407).
KeepsRules == program = "ipfwconfig" => RuleEditor!KeepsRules

-----------------------------------------------------------------------------
(* natd's options, which are read once *)

NatdOptions == INSTANCE NatdOptions WITH
    Ports <- NatdPorts, Natd <- NatdService, Files <- NatdFiles, Anyone <- "any", Nobody <- "none", Unset <- "unset"

ASSUME NatdCommandLines ==
    /\ NatdPorts \in Nat /\ NatdPorts > 1
    /\ \A o \in NatdLines : NatdOptions!CommandLine(o)
    /\ \A f \in DOMAIN NatdFiles : NatdOptions!CommandLine(NatdFiles[f])

\* The links natd makes of a redirection that it takes lead from each public port that was
\* typed to its own local port, for the remote ports that were typed, whatever other options
\* come before and after it; a range in which a number wraps is refused
\* (natd.c:1358-1496, 1617-1702).
RedirectsAsTyped == program = "natd" => NatdOptions!Redirects(r1)

-----------------------------------------------------------------------------
(* route, and other programs that change the table during a flush *)

Route == INSTANCE Route WITH
    todo <- r1, pc <- r2, table <- r3, dump <- r4, was <- r5, others <- r6,
    Sessions <- RouteSessions, Hosts <- RouteHosts, Links <- RouteLinks, Near <- RouteNear,
    Others <- RouteOthers

\* No two routes of a family have one key.
ASSUME RouteTables == Route!RoutesAreUnique
ASSUME RouteWords == Route!CommandsTyped

\* Whatever other programs add and delete during a flush: it takes no route without a gateway
\* or of another family, and none with one is left when it ends, unless another program has
\* deleted a route before its turn (route.c:217-311).
FlushTakesGateways == program = "route" => Route!Flushes

\* What an add, a change or a delete leaves of the routing table is what the manual says
\* of its words (route.c:535-1061), and so is what a flush leaves.
RoutesAsTyped == program = "route" => Route!Commanded /\ Route!Flushes

-----------------------------------------------------------------------------
UserlandInit ==
    \/ program = "gzip" /\ Gzip!GzipFileInit /\ Unused14 /\ NoScreen
    \/ program = "pwd_mkdb" /\ PwdMkdb!PwdInit /\ Unused10 /\ NoScreen
    \/ program = "ping" /\ Ping!PingInit /\ NoScreen
    \/ program = "ipfwconfig" /\ RuleEditor!EditorInit /\ Unused7
    \/ program = "natd" /\ r1 \in NatdLines /\ Unused2 /\ NoScreen
    \/ program = "route" /\ Route!Init /\ Unused7 /\ NoScreen

UserlandNext ==
    /\ UNCHANGED program
    /\ \/ program = "gzip" /\ Gzip!GzipFileNext /\ UNCHANGED <<r14, p, rule, boxes, text>>
       \/ program = "pwd_mkdb" /\ PwdMkdb!PwdNext /\ UNCHANGED <<r10, r11, r12, r13, r14, p, rule, boxes, text>>
       \/ program = "ping" /\ Ping!PingNext /\ UNCHANGED <<p, rule, boxes, text>>
       \/ program = "ipfwconfig" /\ RuleEditor!EditorNext /\ UNCHANGED <<r7, r8, r9, r10, r11, r12, r13, r14>>
       \/ program = "route" /\ Route!Next /\ UNCHANGED <<r7, r8, r9, r10, r11, r12, r13, r14, p, rule, boxes, text>>

UserlandSpec == UserlandInit /\ [][UserlandNext]_vars

=============================================================================
