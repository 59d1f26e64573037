---------------------------- MODULE NatdOptions -----------------------------
(***************************************************************************)
(* The options of natd (sbin/natd/natd.c), from the command line or from   *)
(* files, and what they tell libalias: permanent links for redirected      *)
(* ports, protocols and addresses.                                         *)
(*                                                                         *)
(* An argument is a word, <<kind, ...>>: an address, a range of ports as   *)
(* it was typed, an address with a range, or several of these.  A range    *)
(* is kept in one number: the first port, and how many there are.          *)
(***************************************************************************)
EXTENDS Integers, Sequences

CONSTANTS
    Ports,      \* how many ports there are: 65536
    Natd,       \* the port of the service natd
    Files,      \* what configuration files hold, a function from names
    Anyone, Nobody, Unset   \* INADDR_ANY, INADDR_NONE and no name

Refused(s) == [s EXCEPT !.ok = FALSE]
Unlinked == [ok |-> FALSE, lo |-> 0, num |-> 0]

-----------------------------------------------------------------------------
(* Ports and ranges *)

\* The first port is shifted beside the number of ports, which is not masked.
PortRange(lo, num) == [ok |-> (num % Ports) # 0, lo |-> (lo + (num \div Ports)) % Ports, num |-> num % Ports]

StrToPort(w) == w[2] % Ports

\* Mutant: the last port is left out.
MutStrToPortRange(w) ==
    CASE w[1] \in {"service", "port"} -> PortRange(w[2], 1)
      [] w[1] = "range" /\ w[2] % Ports < w[3] % Ports -> PortRange(w[2] % Ports, (w[3] % Ports) - (w[2] % Ports))
      [] OTHER -> Unlinked

\* strtol() for one port, sscanf() into 16 bits for two
StrToPortRange(w) ==
    CASE w[1] \in {"service", "port"} -> PortRange(w[2], 1)
      [] w[1] = "range" /\ w[2] % Ports <= w[3] % Ports -> PortRange(w[2] % Ports, (w[3] % Ports) - (w[2] % Ports) + 1)
      [] OTHER -> Unlinked

\* <<"at", address, range>>
StrToAddrAndPortRange(w) ==
    IF w[1] = "at" THEN [range |-> StrToPortRange(w[3]), addr |-> w[2]] ELSE [range |-> Unlinked, addr |-> Anyone]

-----------------------------------------------------------------------------
(* Redirections *)

Link(proto, local, lport, remote, rport, public, pport) ==
    [proto |-> proto, local |-> local, lport |-> lport, remote |-> remote, rport |-> rport,
     public |-> public, pport |-> pport, servers |-> <<>>]

LocalOf(w) ==
    IF w[1] = "pool" THEN [range |-> [ok |-> TRUE, lo |-> Ports - 1, num |-> 1], addr |-> Nobody]
    ELSE StrToAddrAndPortRange(w)
PublicOf(w) == IF w[1] = "at" THEN StrToAddrAndPortRange(w) ELSE [range |-> StrToPortRange(w), addr |-> Anyone]
RemoteOf(words) ==
    CASE Len(words) < 4 -> [range |-> [ok |-> TRUE, lo |-> 0, num |-> 1], addr |-> Anyone]
      [] Len(words) >= 4 /\ words[4][1] = "at" -> StrToAddrAndPortRange(words[4])
      [] OTHER -> [range |-> [ok |-> TRUE, lo |-> 0, num |-> 1], addr |-> words[4][2]]

\* No remote port stands for all of them.
AllPorts(range) == range.num = 1 /\ range.lo = 0
PairedPorts(local, public, remote) ==
    /\ local.ok /\ public.ok /\ remote.ok
    /\ local.num = public.num
    /\ remote.num = local.num \/ AllPorts(remote)

LinkAt(proto, i, local, public, remote) ==
    Link(proto, local.addr, (local.range.lo + i) % Ports, remote.addr,
         IF AllPorts(remote.range) THEN 0 ELSE (remote.range.lo + i) % Ports,
         public.addr, (public.range.lo + i) % Ports)
LinksFrom(proto, local, public, remote) ==
    [i \in 1..public.range.num |-> LinkAt(proto, i - 1, local, public, remote)]

\* The servers are those of the last link.
ServerAt(w) == StrToAddrAndPortRange(w)
Pooled(links, pool) ==
    [links EXCEPT ![Len(links)].servers = [i \in DOMAIN pool |-> <<ServerAt(pool[i]).addr, ServerAt(pool[i]).range.lo>>]]
PoolFits(pool) == \A i \in DOMAIN pool : ServerAt(pool[i]).range.num = 1

Redirected(s, words, local, public, remote) ==
    LET pool == words[2][1] = "pool"
        added == LinksFrom(words[1], local, public, remote)
    IN  IF ~PairedPorts(local.range, public.range, remote.range) \/ (pool /\ ~PoolFits(words[2][2])) THEN Refused(s)
        ELSE [s EXCEPT !.links = @ \o IF pool THEN Pooled(added, words[2][2]) ELSE added]
SetupPortRedirect(s, words) ==
    IF Len(words) < 3 \/ words[1] \notin {"tcp", "udp"} THEN Refused(s)
    ELSE Redirected(s, words, LocalOf(words[2]), PublicOf(words[3]), RemoteOf(words))

\* protocol, local address, and perhaps a public and a remote one
SetupProtoRedirect(s, words) ==
    IF Len(words) < 2 THEN Refused(s)
    ELSE [s EXCEPT !.links = Append(@, Link(words[1], words[2][2], 0,
                                            IF Len(words) > 3 THEN words[4][2] ELSE Anyone, 0,
                                            IF Len(words) > 2 THEN words[3][2] ELSE Anyone, 0))]

SetupAddressRedirect(s, words) ==
    CASE Len(words) < 2 -> Refused(s)
      [] Len(words) >= 2 /\ words[1][1] = "pool" ->
            [s EXCEPT !.links = Append(@, [Link("ip", Nobody, 0, Anyone, 0, words[2][2], 0) EXCEPT
                                              !.servers = [i \in DOMAIN words[1][2] |-> <<words[1][2][i][2], Ports - 1>>]])]
      [] OTHER -> [s EXCEPT !.links = Append(@, Link("ip", words[1][2], 0, Anyone, 0, words[2][2], 0))]

-----------------------------------------------------------------------------
(* ParseOption() *)

Modes == {"unregistered_only", "log", "proxy_only", "reverse", "deny_incoming", "use_sockets", "same_ports"}
Services == [in_port |-> "inPort", out_port |-> "outPort", port |-> "inOutPort"]
YesNo(words) == words = <<>> \/ words[1] \in {"yes", "no"}
Yes(words) == words = <<>> \/ words[1] = "yes"
SetMode(s, option, yes) == [s EXCEPT !.mode = IF yes THEN @ \cup {option} ELSE @ \ {option}]
SetField(s, field, value) == [s EXCEPT ![field] = value]

Plain(s, option, words) ==
    CASE option \in Modes -> IF YesNo(words) THEN SetMode(s, option, Yes(words)) ELSE Refused(s)
      [] option \in {"verbose", "dynamic"} -> IF YesNo(words) THEN SetField(s, option, Yes(words)) ELSE Refused(s)
      [] option = "log_denied" -> IF YesNo(words) THEN SetField(s, option, TRUE) ELSE Refused(s)
      [] option \in DOMAIN Services /\ words # <<>> -> SetField(s, Services[option], StrToPort(words[1]))
      [] option \in {"alias_address", "target_address"} /\ words # <<>> -> SetField(s, option, words[1][2])
      [] option = "interface" /\ words # <<>> -> SetField(s, option, words[1])
      [] option = "redirect_port" /\ words # <<>> -> SetupPortRedirect(s, words)
      [] option = "redirect_proto" /\ words # <<>> -> SetupProtoRedirect(s, words)
      [] option = "redirect_address" /\ words # <<>> -> SetupAddressRedirect(s, words)
      [] OTHER -> Refused(s)

\* A refused option ends natd, so what follows does not count.  Files do not name files.
AfterLine(s, o) == IF s.ok THEN Plain(s, o[1], o[2]) ELSE s
PlainFrom(s, options) ==
    LET after[n \in 0..Len(options)] == IF n = 0 THEN s ELSE AfterLine(after[n - 1], options[n])
    IN  after[Len(options)]
ReadConfigFile(s, name) == IF name \in DOMAIN Files THEN PlainFrom(s, Files[name]) ELSE Refused(s)
ParseOption(s, option, words) ==
    IF option = "config" /\ words # <<>> THEN ReadConfigFile(s, words[1]) ELSE Plain(s, option, words)

Default == [ok |-> TRUE, mode |-> {}, verbose |-> FALSE, dynamic |-> FALSE, log_denied |-> FALSE,
            inPort |-> 0, outPort |-> 0, inOutPort |-> 0, alias_address |-> Nobody,
            target_address |-> Nobody, interface |-> Unset, links |-> <<>>]
AfterArgument(s, o) == IF s.ok THEN ParseOption(s, o[1], o[2]) ELSE s

\* What there is after each of the options.
ParseArgs(options) ==
    LET after[n \in 0..Len(options)] == IF n = 0 THEN Default ELSE AfterArgument(after[n - 1], options[n])
    IN  after

\* main(): one of an address and an interface, and one port or both of two
OneAddress(s) == s.interface # Unset <=> s.alias_address = Nobody
BothPorts(s) == s.inPort = 0 <=> s.outPort = 0
Checked(s) ==
    CASE ~(s.ok /\ OneAddress(s) /\ BothPorts(s)) -> Refused(s)
      [] s.ok /\ OneAddress(s) /\ s.inPort = 0 /\ s.outPort = 0 /\ s.inOutPort = 0 -> [s EXCEPT !.inOutPort = Natd]
      [] OTHER -> s
Started(options) == Checked(ParseArgs(options)[Len(options)])

-----------------------------------------------------------------------------
(* What redirections are to do *)

\* The ports that were typed
Typed(w) == CASE w[1] \in {"service", "port"} -> <<w[2]>>
              [] w[1] = "range" -> [i \in 1..(w[3] - w[2] + 1) |-> w[2] + i - 1]
TypedAt(w) == IF w[1] = "at" THEN Typed(w[3]) ELSE Typed(w)
InRange(w) == \A i \in 2..Len(w) : w[i] \in 0..(Ports - 1)

\* The i-th public port leads to the i-th local one, for packets from the i-th remote port
\* or from all of them; and no other port leads anywhere.
Leads(links, words) ==
    /\ Len(links) = Len(TypedAt(words[3]))
    /\ \A i \in DOMAIN links :
          /\ links[i].proto = words[1] /\ links[i].pport = TypedAt(words[3])[i]
          /\ words[2][1] = "at" => links[i].local = words[2][2] /\ links[i].lport = TypedAt(words[2])[i]
          /\ words[2][1] = "pool" =>
                links[i].servers = [k \in DOMAIN words[2][2] |-> <<words[2][2][k][2], TypedAt(words[2][2][k])[1]>>]
          /\ links[i].rport = IF Len(words) > 3 /\ words[4][1] = "at" /\ TypedAt(words[4]) # <<0>>
                             THEN TypedAt(words[4])[i] ELSE 0

\* A redirection that natd takes is the one that was asked for, if the ports that were
\* typed are ports.
PortsInRange(w) ==
    /\ w[1] = "at" => InRange(w[3])
    /\ w[1] \in {"service", "port", "range"} => InRange(w)
    /\ w[1] = "pool" => \A k \in DOMAIN w[2] : InRange(w[2][k][3])
AllInRange(words) == \A i \in 2..Len(words) : PortsInRange(words[i])

\* Each redirection adds its links, and no option behind it takes one back.
LeadsAsTyped(options) ==
    LET s == Started(options)
        links(n) == Len(ParseArgs(options)[n].links)
    IN  s.ok => \A n \in DOMAIN options :
                    options[n][1] = "redirect_port" /\ AllInRange(options[n][2]) =>
                        Leads(SubSeq(s.links, links(n - 1) + 1, links(n)), options[n][2])

\* natd has an address or an interface, and both ports of its own or neither.
StartsWhole(options) ==
    LET s == Started(options)
    IN  s.ok => OneAddress(s) /\ BothPorts(s)
Redirects(options) == LeadsAsTyped(options) /\ StartsWhole(options)

\* Words as strtok() and the typing leave them
Tuple(s) == Len(s) \in Nat /\ s = [i \in 1..Len(s) |-> s[i]]
PortsWord(w) == \/ w[1] \in {"service", "port"} /\ w = <<w[1], w[2]>> /\ w[2] \in Nat
                \/ w[1] = "range" /\ w = <<"range", w[2], w[3]>> /\ w[2] \in Nat /\ w[3] \in Nat
                \/ w = <<"bad">>
AtWord(w) == w[1] = "at" /\ w = <<"at", w[2], w[3]>> /\ PortsWord(w[3])
RedirectWord(w) == \/ PortsWord(w) \/ AtWord(w)
                   \/ w[1] = "addr" /\ w = <<"addr", w[2]>>
                   \/ w[1] = "pool" /\ w = <<"pool", w[2]>> /\ Tuple(w[2]) /\ \A k \in DOMAIN w[2] : AtWord(w[2][k])
CommandLine(options) ==
    /\ Tuple(options)
    /\ \A n \in DOMAIN options :
          /\ options[n] = <<options[n][1], options[n][2]>> /\ Tuple(options[n][2])
          /\ options[n][1] = "redirect_port" => \A i \in 2..Len(options[n][2]) : RedirectWord(options[n][2][i])

=============================================================================
