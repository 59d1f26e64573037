------------------------------ MODULE RuleText ------------------------------
(***************************************************************************)
(* The text of rules: what ipfw makes of the words of an "add" command and *)
(* what "ipfw list" prints of a rule (sbin/ipfw/ipfw.c), and the words it  *)
(* gets from a filled-in screen: the fields as the screens copy them into  *)
(* struct ruleset (config/filter.c:533-550, config/forward.c:221-226) and  *)
(* the command that __insert_rule() puts together from them                *)
(* (config/rules.c:11-249), as the shell splits it.                        *)
(*                                                                         *)
(* A word is a tuple that begins with what it is: a keyword <<"from">>, an *)
(* address <<"addr", a>>, <<"net", a, n>> for a/n or <<"masked", a, m>>    *)
(* for a:m, ports <<"ports", numbers, separators>>, <<"num", n>>, options  *)
(* <<"opts", marked names>>, an interface <<"if", i>>; <<"bad">> is a word *)
(* that is none of these.  Addresses have Width bits (32 in the code), the *)
(* most significant one first.                                             *)
(*                                                                         *)
(* Left out: rule numbers, prob, uid and gid, service and host names, and  *)
(* abbreviations other than those that list itself prints.                 *)
(*                                                                         *)
(* A host field of a screen holds a sequence of words, <<>> when it is     *)
(* empty; a port field holds <<>>, <<"any">>, a number <<"port", n>> or    *)
(* <<"bad">>.                                                              *)
(***************************************************************************)
EXTENDS Integers, Sequences, FiniteSets, TLC

CONSTANTS
    Width,          \* bits of an address
    MaxPorts,       \* IP_FW_MAX_PORTS, source and destination ports together
    MaxType,        \* ICMP types are below this
    VerboseLimit    \* sysctl net.inet.ip.fw.verbose_limit

ASSUME SizeAssumption == Width \in Nat \ {0} /\ MaxPorts \in Nat /\ VerboseLimit \in Nat

Bits == [1..Width -> {0, 1}]
Ones == [i \in 1..Width |-> 1]
Zeros == [i \in 1..Width |-> 0]
And(a, m) == [i \in 1..Width |-> a[i] * m[i]]

\* htonl(~0 << (32 - n))
Prefix(n) == [i \in 1..Width |-> IF i <= n THEN 1 ELSE 0]

\* mask_bits(): the length of a prefix mask, -1 for a mask with holes.
MaskBits(m) ==
    IF \E i, j \in 1..Width : i < j /\ m[i] = 0 /\ m[j] = 1
    THEN -1
    ELSE Cardinality({i \in 1..Width : m[i] = 1})

NoIf == "any"
NoPorts == [kind |-> "list", ports |-> <<>>]
AnyHost == [neg |-> FALSE, me |-> FALSE, addr |-> Zeros, mask |-> Zeros]

\* memset(&rule, 0, sizeof rule)
Blank == [cmd |-> "none", arg |-> 0, fwd |-> Zeros, log |-> FALSE, amount |-> 0,
          proto |-> "ip", src |-> AnyHost, sp |-> NoPorts, dst |-> AnyHost,
          dp |-> NoPorts, flags |-> {}, inif |-> NoIf, outif |-> NoIf,
          limit |-> {}, conns |-> 0, set |-> {}, clear |-> {}, types |-> {}]

-----------------------------------------------------------------------------
(* add(): each part takes the words from p.at on *)

Error == [ok |-> FALSE]
Start == [ok |-> TRUE, at |-> 1, r |-> Blank, via |-> FALSE, xmrc |-> FALSE]

\* The keyword that the chain of strncmp() calls takes a word for.
Keyword(w) == CASE w[1] = "frag" -> "fragment"
                [] w[1] = "ipopt" -> "ipoptions"
                [] w[1] = "icmptype" -> "icmptypes"
                [] w[1] \in {"pass", "accept", "permit"} -> "allow"
                [] w[1] = "drop" -> "deny"
                [] w[1] = "forward" -> "fwd"
                [] w[1] = "all" -> "ip"
                [] OTHER -> w[1]

Word(ws, i) == IF i <= Len(ws) THEN ws[i] ELSE <<"end">>
Is(ws, i, k) == Keyword(Word(ws, i)) = k

\* fill_ip(): the address and mask, or an error.
FillIp(w) ==
    CASE w[1] = "any"    -> [ok |-> TRUE, addr |-> Zeros, mask |-> Zeros]
      [] w[1] = "addr"   -> [ok |-> TRUE, addr |-> w[2], mask |-> Ones]
      [] w[1] = "net"    -> IF w[3] > Width THEN Error
                            ELSE [ok |-> TRUE, addr |-> And(w[2], Prefix(w[3])),
                                  mask |-> Prefix(w[3])]
      [] w[1] = "masked" -> [ok |-> TRUE, addr |-> And(w[2], w[3]), mask |-> w[3]]
      [] OTHER           -> Error

\* lookup_port() of a number.
PortOk(n) == n \in Nat /\ n <= 65535

\* fill_port(): the first separator tells a range and a mask from a list, and
\* only commas may follow; at most MaxPorts ports with those there already.
FillPort(w, there) ==
    LET kind == IF w[3] = <<>> THEN "list"
                ELSE CASE w[3][1] = "-" -> "range"
                       [] w[3][1] = ":" -> "mask"
                       [] OTHER -> "list"
    IN  IF /\ \A i \in DOMAIN w[2] : PortOk(w[2][i])
           /\ \A i \in 2..Len(w[3]) : w[3][i] = ","
           /\ Len(w[2]) + there <= MaxPorts
        THEN [ok |-> TRUE, kind |-> kind, ports |-> w[2]]
        ELSE Error

\* The action and its argument.
ActionPart(ws, p) ==
    LET k == Keyword(Word(ws, p.at))
        a == Word(ws, p.at + 1)
    IN  CASE k \in {"allow", "deny", "count", "reset", "check-state"} ->
               [p EXCEPT !.at = @ + 1, !.r.cmd = k]
          [] k = "reject" ->
               [p EXCEPT !.at = @ + 1, !.r.cmd = "unreach", !.r.arg = 1]
          [] k \in {"divert", "tee"} /\ a[1] = "num" ->
               IF a[2] % 65536 = 0 THEN Error
               ELSE [p EXCEPT !.at = @ + 2, !.r.cmd = k, !.r.arg = a[2] % 65536]
          [] k \in {"pipe", "queue", "skipto"} /\ a[1] = "num" ->
               [p EXCEPT !.at = @ + 2, !.r.cmd = k, !.r.arg = a[2] % 65536]
          [] k = "unreach" /\ a[1] = "num" ->
               IF a[2] >= 256 THEN Error
               ELSE [p EXCEPT !.at = @ + 2, !.r.cmd = k, !.r.arg = a[2]]
          [] k = "fwd" /\ a[1] = "hop" ->
               IF PortOk(a[3]) /\ a[2] # Zeros
               THEN [p EXCEPT !.at = @ + 2, !.r.cmd = k, !.r.fwd = a[2], !.r.arg = a[3]]
               ELSE Error
          [] OTHER -> Error

\* [log [logamount n]]; a count of 0 is kept as -1 until the end.
LogPart(ws, p) ==
    IF ~p.ok \/ ~Is(ws, p.at, "log")
    THEN IF p.ok /\ Is(ws, p.at, "logamount") THEN Error ELSE p
    ELSE IF ~Is(ws, p.at + 1, "logamount")
         THEN [p EXCEPT !.at = @ + 1, !.r.log = TRUE]
         ELSE LET n == Word(ws, p.at + 2)
              IN  IF n[1] # "num" \/ n[2] < 0 THEN Error
                  ELSE [p EXCEPT !.at = @ + 3, !.r.log = TRUE,
                                 !.r.amount = IF n[2] = 0 THEN -1 ELSE n[2]]

ProtoPart(ws, p) ==
    LET k == Keyword(Word(ws, p.at))
    IN  IF ~p.ok THEN p
        ELSE IF k \notin {"ip", "tcp", "udp", "icmp"} \/ (p.r.cmd = "reset" /\ k # "tcp")
        THEN Error
        ELSE [p EXCEPT !.at = @ + 1, !.r.proto = k]

\* "from" or "to", [not], me or an address; then ports, if any.
HostPart(ws, p, word, h, ports, there) ==
    LET i == IF p.ok /\ Is(ws, p.at + 1, "not") THEN p.at + 2 ELSE p.at + 1
        me == Is(ws, i, "me")
        ip == FillIp(Word(ws, i))
        w == Word(ws, i + 1)
        pt == FillPort(w, there)
        host == IF me THEN [AnyHost EXCEPT !.neg = (i = p.at + 2), !.me = TRUE]
                ELSE [neg |-> i = p.at + 2, me |-> FALSE, addr |-> ip.addr, mask |-> ip.mask]
    IN  IF ~p.ok THEN p
        ELSE IF ~Is(ws, p.at, word) \/ (~me /\ ~ip.ok) THEN Error
        ELSE IF w[1] # "ports" THEN [p EXCEPT !.at = i + 1, !.r[h] = host]
        ELSE IF ~pt.ok THEN Error
        ELSE [p EXCEPT !.at = i + 2, !.r[h] = host,
                       !.r[ports] = [kind |-> pt.kind, ports |-> pt.ports]]

FromPart(ws, p) == HostPart(ws, p, "from", "src", "sp", 0)
ToPart(ws, p) == HostPart(ws, p, "to", "dst", "dp", IF p.ok THEN Len(p.r.sp.ports) ELSE 0)

\* Only TCP and UDP have ports.
PortsFit(p) == p.ok => p.r.proto \in {"tcp", "udp"} \/ p.r.sp.ports \o p.r.dp.ports = <<>>

\* fill_tcpflag(), fill_tcpopts(), fill_ipopt(): names marked "+" are set, those
\* marked "!" cleared; ipoptions ignores names it does not know.
Names == [tcpflags   |-> {"syn", "fin", "ack", "psh", "rst", "urg"},
          tcpoptions |-> {"mss", "window", "sack", "ts", "cc"},
          ipoptions  |-> {"ssrr", "lsrr", "rr", "ts"}]

FillOpts(p, kind, marked) ==
    LET known == {o \in marked : o[2] \in Names[kind]}
        named(m) == {<<kind, o[2]>> : o \in {q \in known : q[1] = m}}
    IN  IF kind # "ipoptions" /\ known # marked THEN Error
        ELSE [p EXCEPT !.at = @ + 2, !.r.set = @ \cup named("+"),
                       !.r.clear = @ \cup named("!")]

\* limit <masks> <number>
LimitWords(ws, at) ==
    LET masks == {"src-addr", "src-port", "dst-addr", "dst-port"}
        n == CHOOSE n \in 0..(Len(ws) - at) :
                /\ \A j \in 1..n : ws[at + j][1] \in masks
                /\ ~(at + n + 1 < Len(ws) /\ Word(ws, at + n + 1)[1] \in masks)
    IN  [masks |-> {ws[at + j][1] : j \in 1..n}, next |-> at + n + 1]

Limit(ws, p) ==
    LET l == LimitWords(ws, p.at)
        n == Word(ws, l.next)
    IN  IF n[1] # "num" \/ l.masks = {} THEN Error
        ELSE IF n[2] = 0 THEN Error
        ELSE [p EXCEPT !.at = l.next + 1, !.r.flags = @ \cup {"limit"},
                       !.r.limit = l.masks, !.r.conns = n[2]]

\* xmit, recv and via, which may not be mixed.
Interface(ws, p, k) ==
    LET i == Word(ws, p.at + 1)
    IN  IF i[1] # "if" \/ (k = "via" /\ p.xmrc) \/ (k # "via" /\ p.via) THEN Error
        ELSE CASE k = "xmit" -> [p EXCEPT !.at = @ + 2, !.xmrc = TRUE, !.r.outif = i[2],
                                          !.r.flags = @ \cup {"oiface"}]
               [] k = "recv" -> [p EXCEPT !.at = @ + 2, !.xmrc = TRUE, !.r.inif = i[2],
                                          !.r.flags = @ \cup {"iiface"}]
               [] k = "via"  -> [p EXCEPT !.at = @ + 2, !.via = TRUE, !.r.inif = i[2],
                                          !.r.outif = i[2]]

\* One round of the option loop.
Option(ws, p) ==
    LET k == Keyword(Word(ws, p.at))
        a == Word(ws, p.at + 1)
        flag(f) == [p EXCEPT !.at = @ + 1, !.r.flags = @ \cup {f}]
    IN  CASE k \in {"in", "out", "bridged", "keep-state"} -> flag(k)
          [] k = "fragment" -> flag("frag")
          [] k = "limit" -> Limit(ws, p)
          [] k \in {"xmit", "recv", "via"} -> Interface(ws, p, k)
          [] k = "ipoptions" /\ a[1] = "opts" -> FillOpts(p, k, a[2])
          [] p.r.proto = "tcp" /\ k = "established" -> flag("tcpest")
          [] p.r.proto = "tcp" /\ k = "setup" ->
               [p EXCEPT !.at = @ + 1, !.r.set = @ \cup {<<"tcpflags", "syn">>},
                         !.r.clear = @ \cup {<<"tcpflags", "ack">>}]
          [] p.r.proto = "tcp" /\ k \in {"tcpflags", "tcpoptions"} /\ a[1] = "opts" ->
               FillOpts(p, k, a[2])
          [] p.r.proto = "icmp" /\ k = "icmptypes" /\ a[1] = "types" ->
               IF \E t \in a[2] : t >= MaxType THEN Error
               ELSE [p EXCEPT !.at = @ + 2, !.r.types = @ \cup a[2]]
          [] OTHER -> Error

\* while (ac): each round takes at least one word.
Options(ws, p) ==
    LET after[n \in 0..Len(ws)] ==
            IF n = 0 THEN p
            ELSE LET q == after[n - 1]
                 IN  IF q.ok THEN IF q.at > Len(ws) THEN q ELSE Option(ws, q) ELSE q
    IN  IF PortsFit(p) THEN after[Len(ws)] ELSE Error

\* After the words: both directions unless one was given, the interfaces of via,
\* and what does not go together.
Finish(p) ==
    LET dir == IF p.r.flags \cap {"in", "out"} = {} THEN {"in", "out"} ELSE {}
        f == p.r.flags \cup dir
        ifs == IF ~p.via THEN {}
               ELSE (IF "in" \in f THEN {"iiface"} ELSE {}) \cup
                    (IF "out" \in f THEN {"oiface"} ELSE {})
        tcp == {o \in p.r.set \cup p.r.clear : o[1] = "tcpflags"}
    IN  IF \/ ~p.via /\ {"oiface", "in"} \subseteq f
           \/ "frag" \in f /\ (tcp # {} \/ p.r.sp.ports \o p.r.dp.ports # <<>>)
        THEN Error
        ELSE [ok |-> TRUE,
              r |-> [p.r EXCEPT !.flags = f \cup ifs,
                       !.amount = IF ~p.r.log \/ p.r.amount = -1 THEN 0
                                  ELSE IF p.r.amount = 0 THEN VerboseLimit
                                  ELSE p.r.amount]]

\* add(): [ok, r], or Error when ipfw exits and the chain is unchanged.
Parse(ws) ==
    LET act == ActionPart(ws, Start)
        all == Options(ws, ToPart(ws, FromPart(ws, ProtoPart(ws, LogPart(ws, act)))))
    IN  IF act.ok /\ act.r.cmd = "check-state" THEN [ok |-> TRUE, r |-> act.r]
        ELSE IF all.ok THEN Finish(all) ELSE Error

-----------------------------------------------------------------------------
(* show_ipfw() *)

\* print_port(), and the separators between ports.
Ports(r, ports) ==
    LET n == Len(ports.ports)
        first == CASE ports.kind = "range" -> "-"
                   [] ports.kind = "mask"  -> ":"
                   [] OTHER -> ","
    IN  IF n = 0 \/ r.proto \notin {"tcp", "udp"} THEN <<>>
        ELSE << <<"ports", ports.ports,
                  [i \in 1..(n - 1) |-> IF i = 1 THEN first ELSE ","]>> >>

\* The address of a host: "me" hides that it was negated.
Host(h) ==
    LET bits == MaskBits(h.mask)
    IN  IF h.me THEN << <<"me">> >>
        ELSE (IF h.neg THEN << <<"not">> >> ELSE <<>>) \o
             << CASE h.mask = Ones -> <<"addr", h.addr>>
                  [] h.mask # Ones /\ bits = 0 -> <<"any">>
                  [] h.mask # Ones /\ bits > 0 -> <<"net", h.addr, bits>>
                  [] OTHER -> <<"masked", h.addr, h.mask>> >>

If(cond, words) == IF cond THEN words ELSE <<>>

\* The names of one kind that are set or cleared.
Marked(r, kind) == {<<"+", o[2]>> : o \in {q \in r.set : q[1] = kind}} \cup
                   {<<"!", o[2]>> : o \in {q \in r.clear : q[1] = kind}}

Action(r) ==
    CASE r.cmd = "fwd" -> << <<"fwd">>, <<"hop", r.fwd, r.arg>> >>
      [] r.cmd \in {"divert", "tee", "skipto", "pipe", "queue", "unreach"} ->
            << <<r.cmd>>, <<"num", r.arg>> >>
      [] OTHER -> << <<r.cmd>> >>

\* Mutant: via also stands for two interfaces.
MutInterfaces(r) ==
    IF {"iiface", "oiface"} \subseteq r.flags
    THEN << <<"via">>, <<"if", r.inif>> >>
    ELSE If("iiface" \in r.flags, << <<"recv">>, <<"if", r.inif>> >>) \o
         If("oiface" \in r.flags, << <<"xmit">>, <<"if", r.outif>> >>)

\* via stands for recv and xmit of one interface when both are there.
Interfaces(r) ==
    IF {"in", "out", "iiface", "oiface"} \subseteq r.flags
    THEN << <<"via">>, <<"if", r.inif>> >>
    ELSE If("iiface" \in r.flags, << <<"recv">>, <<"if", r.inif>> >>) \o
         If("oiface" \in r.flags, << <<"xmit">>, <<"if", r.outif>> >>)

\* established, setup or tcpflags: the first that fits.
TcpFlags(r) ==
    LET m == Marked(r, "tcpflags")
    IN  CASE "tcpest" \in r.flags -> << <<"established">> >>
          [] "tcpest" \notin r.flags /\ m = {<<"+", "syn">>, <<"!", "ack">>} -> << <<"setup">> >>
          [] OTHER -> If(m # {}, << <<"tcpflags">>, <<"opts", m>> >>)

\* The words of limit's masks, in the order of limit_masks.
LimitMasks(r) ==
    SelectSeq(<< <<"src-addr">>, <<"src-port">>, <<"dst-addr">>, <<"dst-port">> >>,
              LAMBDA w : w[1] \in r.limit)

ShowOptions(r) ==
       If("limit" \in r.flags, << <<"limit">> >> \o LimitMasks(r) \o << <<"num", r.conns>> >>)
    \o If("keep-state" \in r.flags /\ "limit" \notin r.flags, << <<"keep-state">> >>)
    \o If("bridged" \in r.flags, << <<"bridged">> >>)
    \o If("in" \in r.flags /\ "out" \notin r.flags, << <<"in">> >>)
    \o If("out" \in r.flags /\ "in" \notin r.flags, << <<"out">> >>)
    \o Interfaces(r)
    \o If("frag" \in r.flags, << <<"frag">> >>)
    \o If(Marked(r, "ipoptions") # {}, << <<"ipopt">>, <<"opts", Marked(r, "ipoptions")>> >>)
    \o TcpFlags(r)
    \o If(Marked(r, "tcpoptions") # {}, << <<"tcpoptions">>, <<"opts", Marked(r, "tcpoptions")>> >>)
    \o If(r.types # {}, << <<"icmptype">>, <<"types", r.types>> >>)

\* The words that "ipfw list" prints after the number of rule r.
Show(r) ==
    IF r.cmd = "check-state" THEN << <<"check-state">> >>
    ELSE Action(r)
         \o If(r.log, << <<"log">> >>)
         \o If(r.log /\ r.amount # 0, << <<"logamount">>, <<"num", r.amount>> >>)
         \o << <<r.proto>>, <<"from">> >> \o Host(r.src) \o Ports(r, r.sp)
         \o << <<"to">> >> \o Host(r.dst) \o Ports(r, r.dp)
         \o ShowOptions(r)

-----------------------------------------------------------------------------
\* What a rule matches: an interface that no flag refers to does not count.
Meaning(r) == [r EXCEPT !.inif = IF "iiface" \in r.flags THEN @ ELSE NoIf,
                        !.outif = IF "oiface" \in r.flags THEN @ ELSE NoIf]

\* What the listing cannot say: "not me", flags beside established, and a log
\* without limit while the default has one.
Listable(r) ==
    /\ ~(r.src.me /\ r.src.neg) /\ ~(r.dst.me /\ r.dst.neg)
    /\ ~("tcpest" \in r.flags /\ Marked(r, "tcpflags") # {})
    /\ ~(r.log /\ r.amount = 0 /\ VerboseLimit # 0)
    /\ ~({"limit", "keep-state"} \subseteq r.flags)

-----------------------------------------------------------------------------
(* From a filled-in screen to words *)

EmptyText == <<>>

\* struct ruleset has room for four characters of a port (fw.h:57-58), the
\* input field for five.
FourDigits(t) == IF t # EmptyText /\ t[1] = "port" /\ t[2] > 9999
                 THEN <<"port", t[2] \div 10>>
                 ELSE t

\* Mutant: an empty host is left empty.
MutFilterFields(rule, text) ==
    LET port(t) == IF t = <<"any">> THEN EmptyText ELSE FourDigits(t)
    IN  [action |-> rule.action, proto |-> rule.proto, ifs |-> rule.ifs, option |-> rule.option,
         src |-> text.src, sport |-> port(text.src_port),
         dst |-> text.dst, dport |-> port(text.dst_port)]

\* OK in the filter screen: empty hosts become "any", "any" ports are dropped.
FilterFields(rule, text) ==
    LET host(t) == IF t = EmptyText THEN << <<"any">> >> ELSE t
        port(t) == IF t = <<"any">> THEN EmptyText ELSE FourDigits(t)
    IN  [action |-> rule.action, proto |-> rule.proto, ifs |-> rule.ifs, option |-> rule.option,
         src |-> host(text.src), sport |-> port(text.src_port),
         dst |-> host(text.dst), dport |-> port(text.dst_port)]

\* OK in the forwarding screen.  Where to forward to is kept in full.
ForwardFields(rule, text) ==
    rule @@ [src |-> text.src, sport |-> FourDigits(text.src_port),
             dst |-> text.dst, dport |-> FourDigits(text.dst_port),
             to |-> text.forw, toport |-> text.forw_port]

PortWord(t) == CASE t = EmptyText -> <<>>
                 [] t # EmptyText /\ t[1] = "port" -> << <<"ports", <<t[2]>>, <<>> >> >>
                 [] OTHER -> << <<"bad">> >>

Words(k) == << <<k>> >>

Verb(r) == CASE r.action = "ALLOW" -> Words("allow")
             [] r.action = "DENY"  -> Words("deny")
             [] r.action = "RESET" -> Words("reset")

Direction(r) == CASE r.ifs = "INCOMING" -> Words("in")
                  [] r.ifs = "OUTGOING" -> Words("out")
                  [] OTHER -> <<>>

IpOption(r) == CASE r.option = "SSRR" -> << <<"ipoptions">>, <<"opts", {<<"+", "ssrr">>}>> >>
                 [] r.option = "LSRR" -> << <<"ipoptions">>, <<"opts", {<<"+", "lsrr">>}>> >>
                 [] r.option = "TS"   -> << <<"ipoptions">>, <<"opts", {<<"+", "ts">>}>> >>
                 [] OTHER -> <<>>

TcpOption(r) == CASE r.option = "SETUP"       -> Words("setup")
                  [] r.option = "ESTABLISHED" -> Words("established")
                  [] r.option = "FRAG"        -> Words("frag")
                  [] OTHER -> <<>>

IcmpOption(r) == CASE r.option = "ECHO_REQUEST" -> << <<"icmptypes">>, <<"types", {5}>> >>
                   [] r.option = "DEST_UNREACH" -> << <<"icmptypes">>, <<"types", {3}>> >>
                   [] r.option = "ECHO_REPLY"   -> << <<"icmptypes">>, <<"types", {0}>> >>
                   [] OTHER -> <<>>

\* "from SRC to DST", for IP and ICMP.
Hosts(r) == Words("from") \o r.src \o Words("to") \o r.dst

\* "from SRC PORT to DST PORT", for TCP and UDP.
HostsAndPorts(r) == Words("from") \o r.src \o PortWord(r.sport) \o
                    Words("to") \o r.dst \o PortWord(r.dport)

\* rule.other_a is never set for a filter rule: if the byte there is not zero,
\* whatever follows ends up behind an IP rule.
Garbage == { <<>>, << <<"bad">> >> }

FilterCommand(r) ==
    CASE r.proto = "IP" ->
            {Verb(r) \o Words("ip") \o Hosts(r) \o Direction(r) \o IpOption(r) \o g : g \in Garbage}
      [] r.proto = "TCP" ->
            {Verb(r) \o Words("tcp") \o HostsAndPorts(r) \o Direction(r) \o TcpOption(r)}
      [] r.proto = "UDP" ->
            {Verb(r) \o Words("udp") \o HostsAndPorts(r) \o Direction(r)}
      [] r.proto = "ICMP" ->
            {Verb(r) \o Words("icmp") \o Hosts(r) \o Direction(r) \o IcmpOption(r)}

\* "to " follows without a blank: only a port that begins with "any", which is
\* replaced by a blank, leaves the word "to".
Glued(r) ==
    IF r.sport = <<"any">> THEN Words("to") ELSE << <<"bad">> >>

\* The source but for its last word when "to" is glued to that one.
GluedSource(r) ==
    IF r.sport = EmptyText /\ r.src # <<>> THEN SubSeq(r.src, 1, Len(r.src) - 1) ELSE r.src

\* An empty source and an empty port leave "from to".
ForwardCommand(r) ==
    LET ip == IF Len(r.to) = 1 /\ r.to[1][1] # "masked" THEN FillIp(r.to[1]) ELSE Error
        hop == IF ip.ok /\ r.toport # EmptyText /\ r.toport[1] = "port"
               THEN <<"hop", ip.addr, r.toport[2]>>
               ELSE <<"bad">>
        dport == IF r.dport = <<"any">> THEN <<>> ELSE PortWord(r.dport)
        to == IF r.sport = EmptyText /\ r.src = <<>> THEN Words("to") ELSE Glued(r)
    IN  {<< <<"fwd">>, hop >> \o Words(IF r.proto = "TCP" THEN "tcp" ELSE "udp") \o
         Words("from") \o GluedSource(r) \o to \o r.dst \o dport}

=============================================================================
