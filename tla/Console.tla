------------------------------ MODULE Console -------------------------------
(***************************************************************************)
(* The two screens that insert rules, from the keys to the rule in force:  *)
(* FilterForm and ForwardForm fill in a rule, RuleText makes a command of  *)
(* it and says what ipfw makes of that.  Clear is the menu entry that      *)
(* removes all rules.  The module refines Firewall, which knows the        *)
(* commands only as a set for each kind of rule, and the refused ones only *)
(* as a constant.                                                          *)
(***************************************************************************)
EXTENDS RuleText, RuleScreens

CONSTANTS
    MaxLines    \* bound: no screen is opened when the script has that many lines

VARIABLES
    screen,             \* the screen shown
    rules,              \* the script: the words of each line, and whether ipfw takes them
    chain,              \* the rules in force, as ipfw gives them to the kernel
    notice              \* what the operator was told last

consoleVars == <<screen, p, rule, boxes, text, rules, chain, notice>>
form == <<p, rule, boxes, text>>

-----------------------------------------------------------------------------
(* What is typed *)

HostWord(w) ==
    \/ w \in {<<"any">>, <<"me">>, <<"bad">>}
    \/ \E a \in Bits :
          \/ w = <<"addr", a>>
          \/ w[1] = "net" /\ w[3] \in Nat /\ w = <<"net", a, w[3]>>
          \/ \E m \in Bits : w = <<"masked", a, m>>

\* One host, or "not" and one host.
HostLine(t) == \/ t = EmptyText
               \/ t = <<t[1]>> /\ HostWord(t[1])
               \/ t = << <<"not">>, t[2]>> /\ HostWord(t[2])

\* A number has five digits at most (misc.c:317, 341).
PortLine(t) == \/ t \in {EmptyText, <<"any">>, <<"bad">>}
               \/ t = <<"port", t[2]>> /\ t[2] \in Nat /\ t[2] <= 99999

ASSUME TypedAssumption == (\A t \in HostText : HostLine(t)) /\ (\A t \in PortText : PortLine(t))

\* There is room for the ports and the ICMP types that the screens have.
ASSUME RoomAssumption == MaxPorts >= 2 /\ MaxType \in Nat /\ MaxType > 5

-----------------------------------------------------------------------------
ShowFilter ==
    /\ screen = "menu" /\ Len(rules) < MaxLines
    /\ screen' = "filter"
    /\ FilterScreen!Open
    /\ UNCHANGED <<rules, chain, notice>>

ShowForward ==
    /\ screen = "menu" /\ Len(rules) < MaxLines
    /\ screen' = "forward"
    /\ ForwardScreen!ForwardOpen
    /\ UNCHANGED <<rules, chain, notice>>

FilterKey ==
    /\ screen = "filter"
    /\ FilterScreen!Key
    /\ UNCHANGED <<screen, rules, chain, notice>>

ForwardKey ==
    /\ screen = "forward"
    /\ ForwardScreen!ForwardKey
    /\ UNCHANGED <<screen, rules, chain, notice>>

\* The screen is gone, and with it what it held.
Close ==
    /\ screen' = "menu"
    /\ FilterScreen!Open

\* One of the commands goes to ipfw and to the end of the script.
Insert(commands) ==
    \E b \in commands :
        LET made == Parse(b)
        IN  /\ rules' = Append(rules, [words |-> b, taken |-> made.ok])
            /\ chain' = IF made.ok THEN Append(chain, made.r) ELSE chain

\* Enter on OK.  Both say "added", whatever ipfw or __insert_rule() thought.
FilterOK ==
    /\ screen = "filter" /\ p = 12
    /\ IF rule.action = "RESET" /\ rule.proto # "TCP"
       THEN UNCHANGED <<rules, chain>>
       ELSE Insert(FilterCommand(FilterFields(rule, text)))
    /\ notice' = "added"
    /\ Close

ForwardOK ==
    /\ screen = "forward" /\ p = 9
    /\ Insert(ForwardCommand(ForwardFields(rule, text)))
    /\ notice' = "added"
    /\ Close

\* Enter on Cancel.
Cancel ==
    /\ \/ screen = "filter" /\ p = 13
       \/ screen = "forward" /\ p = 10
    /\ Close
    /\ UNCHANGED <<rules, chain, notice>>

\* Mutant: the rules in force are not flushed.
MutClear ==
    /\ screen = "menu"
    /\ rules' = <<>> /\ notice' = "cleared"
    /\ UNCHANGED <<screen, form, chain>>

\* _afm_flush()
Clear ==
    /\ screen = "menu"
    /\ rules' = <<>> /\ chain' = <<>> /\ notice' = "cleared"
    /\ UNCHANGED <<screen, form>>

ConsoleInit ==
    /\ screen = "menu"
    /\ FilterScreen!FormInit
    /\ rules = <<>> /\ chain = <<>> /\ notice = "none"

ConsoleNext ==
    \/ ShowFilter \/ ShowForward
    \/ FilterKey \/ ForwardKey
    \/ FilterOK \/ ForwardOK \/ Cancel
    \/ Clear

ConsoleSpec == ConsoleInit /\ [][ConsoleNext]_consoleVars

-----------------------------------------------------------------------------
(* What a filter screen stands for *)

\* The fields ipfw can make nothing of.  Of an IP or ICMP rule the ports are
\* not used.
Unusable(r, t) ==
    LET bad(h) == \E i \in DOMAIN h : h[i] = <<"bad">> \/ (h[i][1] = "net" /\ h[i][3] > Width)
        ports == IF r.proto \in {"TCP", "UDP"} THEN {t.src_port, t.dst_port} ELSE {}
    IN  \/ bad(t.src) \/ bad(t.dst)
        \/ <<"bad">> \in ports
        \/ r.proto = "TCP" /\ r.option = "FRAG" /\ ports \ {EmptyText, <<"any">>} # {}
        \/ r.action = "RESET" /\ r.proto # "TCP"

HostMeant(t) ==
    LET w == IF t = EmptyText THEN <<"any">> ELSE t[Len(t)]
        neg == Len(t) = 2
    IN  IF w = <<"me">> THEN [AnyHost EXCEPT !.me = TRUE, !.neg = neg]
        ELSE [neg |-> neg, me |-> FALSE, addr |-> FillIp(w).addr, mask |-> FillIp(w).mask]

PortsMeant(r, t) ==
    [kind |-> "list",
     ports |-> IF t[1] = "port" /\ r.proto \in {"TCP", "UDP"} THEN <<t[2]>> ELSE <<>>]

\* The rule that the items marked and the fields mean.  Echo requests are ICMP type 8.
Meant(r, t) ==
    LET port(x) == IF x = EmptyText THEN NoPorts ELSE PortsMeant(r, x)
        ipopts == [SSRR |-> "ssrr", LSRR |-> "lsrr", TS |-> "ts"]
        types == [ECHO_REQUEST |-> 8, DEST_UNREACH |-> 3, ECHO_REPLY |-> 0]
    IN  [Blank EXCEPT
           !.cmd = CASE r.action = "ALLOW" -> "allow"
                     [] r.action = "DENY" -> "deny"
                     [] r.action = "RESET" -> "reset",
           !.proto = [TCP |-> "tcp", UDP |-> "udp", ICMP |-> "icmp", IP |-> "ip"][r.proto],
           !.src = HostMeant(t.src), !.dst = HostMeant(t.dst),
           !.sp = port(t.src_port), !.dp = port(t.dst_port),
           !.flags = (CASE r.ifs = "ANY" -> {"in", "out"}
                        [] r.ifs = "INCOMING" -> {"in"}
                        [] r.ifs = "OUTGOING" -> {"out"})
                     \cup (IF r.proto = "TCP" /\ r.option = "ESTABLISHED" THEN {"tcpest"} ELSE {})
                     \cup (IF r.proto = "TCP" /\ r.option = "FRAG" THEN {"frag"} ELSE {}),
           !.set = CASE r.proto = "TCP" /\ r.option = "SETUP" -> {<<"tcpflags", "syn">>}
                     [] r.proto = "IP" /\ r.option \in DOMAIN ipopts ->
                            {<<"ipoptions", ipopts[r.option]>>}
                     [] OTHER -> {},
           !.clear = IF r.proto = "TCP" /\ r.option = "SETUP" THEN {<<"tcpflags", "ack">>} ELSE {},
           !.types = IF r.proto = "ICMP" /\ r.option \in DOMAIN types
                     THEN {types[r.option]} ELSE {}]

\* What OK makes another rule of: for "ICMP echo requests" (misc.c:94) the command has
\* type 5 (rules.c:227), and a port of five digits loses the last one (fw.h:53).
Altered(r, t) ==
    \/ r.proto = "ICMP" /\ r.option = "ECHO_REQUEST"
    \/ /\ r.proto \in {"TCP", "UDP"}
       /\ \E x \in {t.src_port, t.dst_port} : x # EmptyText /\ x[1] = "port" /\ x[2] > 9999

Last(s) == s[Len(s)]

-----------------------------------------------------------------------------
(* Properties *)

\* Type invariant.
ConsoleTypeOK ==
    /\ screen \in {"menu", "filter", "forward"}
    /\ screen # "forward" => FilterScreen!FormTypeOK
    /\ screen = "forward" => /\ p \in 1..10 /\ rule.proto \in {"TCP", "UDP"}
                             /\ text.src \in HostText /\ text.forw_port \in PortText
    /\ notice \in {"none", "added", "cleared"}

\* The highlight is where the keys act, in both screens.
FocusShown ==
    /\ screen = "filter" => FilterScreen!FocusIsHighlighted
    /\ screen = "forward" => ForwardScreen!ForwardShowsFocus

\* The stars are the rule that OK inserts.
MarksShown == screen = "filter" => FilterScreen!MarksShowRule

\* After OK in the filter screen the last rule in force is the one the screen
\* showed, word order, blanks and ipfw's defaults included, but for the two cases
\* of Altered; it is missing only for the reasons of Unusable, or for an IP rule
\* behind which other_a left something.
AddedIsShown ==
    [][FilterOK =>
        IF Unusable(rule, text) THEN chain' = chain
        ELSE \/ rule.proto = "IP" /\ chain' = chain
             \/ /\ Len(chain') = Len(chain) + 1
                /\ Last(chain') = Meant(rule, text) \/ Altered(rule, text)]_consoleVars

\* The screens and what ipfw does implement Firewall, where a command is one of
\* two bodies: ipfw takes it or not.
ScriptBodies == [i \in DOMAIN rules |-> IF rules[i].taken THEN "pass" ELSE "bad"]

Kinds == [action : {"ALLOW", "DENY", "RESET"}, proto : {"TCP", "IP", "UDP", "ICMP"}] \cup
         [action : {"FWD"}, proto : {"TCP", "UDP"}]

Filters == INSTANCE Firewall WITH
    rules <- ScriptBodies, chain <- [i \in DOMAIN chain |-> "pass"],
    nat <- "none", divert <- "none", natd <- "none", ext <- "none",
    saved <- [rules |-> <<>>, nat |-> "none", ext |-> "none"],
    Device <- {}, NoDev <- "none",
    Body <- {"pass", "bad"}, Refused <- {"bad"}, Flush <- {}, Raw <- {}, Basic <- <<>>,
    Cut <- [b \in {"pass", "bad"} |-> b],
    Form <- Kinds, Command <- [k \in Kinds |-> {"pass", "bad"}]

ImplementsFirewall == Filters!Spec

-----------------------------------------------------------------------------
(* What the screens say, and do not do *)

\* "Select the ICMP header option for ICMP echo requests" (misc.c:94): a rule added
\* with that option is about ICMP type 8.
EchoRequestsMatched ==
    [][FilterOK /\ rule.proto = "ICMP" /\ rule.option = "ECHO_REQUEST" /\ chain' # chain
         => Last(chain').types = {8}]_consoleVars

\* The three hosts are addresses and the three ports numbers.
FilledIn ==
    /\ \A f \in {"src", "dst", "forw"} : Len(text[f]) = 1 /\ text[f][1][1] = "addr"
    /\ \A f \in {"src_port", "dst_port", "forw_port"} :
            text[f] # EmptyText /\ text[f][1] = "port"

\* "Enter the port (the number, or "any")" (misc.c:73): with an address in each
\* field and a number for each port, the rule takes effect.
ForwardTakesEffect == [][ForwardOK /\ FilledIn => chain' # chain]_consoleVars

=============================================================================
