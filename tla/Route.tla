------------------------------- MODULE Route --------------------------------
(***************************************************************************)
(* route (sbin/route/route.c): what an add, change or delete asks of the   *)
(* kernel, and flush, which asks for one deletion after the other while    *)
(* other programs change the table.                                        *)
(*                                                                         *)
(* An address is its four bytes.  A word is <<"default">>, the numbers of  *)
(* <<"dotted", p>>, <<"slash", p, bits>>, or <<"name", n>>; an option is   *)
(* one item with its argument.  The kernel and the C library are modelled  *)
(* as route.c uses them.  Left out: families other than inet but for       *)
(* flush, names of networks, -ifa, -ifp, -genmask, get and monitor, the    *)
(* options -d and -t, under which nothing is sent, and what is printed.    *)
(***************************************************************************)
EXTENDS Integers, Sequences, FiniteSetsExt

CONSTANTS
    Sessions,   \* tables and the commands that follow
    Hosts,      \* Hosts[n]: the addresses of the name n, in the resolver's order
    Links,      \* names of point to point interfaces
    Near,       \* addresses that the kernel can reach without a gateway
    Others      \* routes that other programs add and delete

VARIABLES
    todo, pc,
    table,
    dump,       \* of flush: what sysctl gave and was not looked at
    was,        \* the table before the command
    others      \* what other programs did during the flush: the routes they deleted, in the
                \* dump or at all, and those they added

vars == <<todo, pc, table, dump, was, others>>

-----------------------------------------------------------------------------
(* Addresses *)

Zero == <<0, 0, 0, 0>>
Ones == <<255, 255, 255, 255>>

\* The first n bits, with the others zero.
Prefix(n) == [i \in 1..4 |-> LET k == n - 8 * (i - 1)
                             IN  IF k <= 0 THEN 0 ELSE IF k >= 8 THEN 255 ELSE 256 - 2 ^ (8 - k)]

\* For masks whose bytes are ones and then zeros.
And(a, m) == [i \in 1..4 |-> a[i] - (a[i] % (256 - m[i]))]

\* inet_addr(), inet_network() and inet_lnaof()
InetAddr(p) == [i \in 1..4 |-> IF i < Len(p) THEN p[i] ELSE IF i = 4 THEN p[Len(p)] ELSE 0]
InetNetwork(p) == [i \in 1..4 |-> IF i + Len(p) > 4 THEN p[i + Len(p) - 4] ELSE 0]
ClassBytes(a) == IF a[1] < 128 THEN 1 ELSE IF a[1] < 192 THEN 2 ELSE 3
LocalPart(a) == [i \in 1..4 |-> IF i <= ClassBytes(a) THEN 0 ELSE a[i]]

\* The bytes up to the last that is not zero, and at least one.
Significant(a) == Max({1} \cup {i \in 1..4 : a[i] # 0})

-----------------------------------------------------------------------------
(* Reading the command line *)

Blank ==
    [ok |-> TRUE, addrs |-> {}, dst |-> Zero, gate |-> Zero, mask |-> Zero, inet |-> FALSE,
     iflag |-> FALSE, forcehost |-> FALSE, forcenet |-> FALSE, ishost |-> FALSE, flags |-> {"-static"},
     hp |-> <<>>, typed |-> FALSE, locking |-> FALSE, lockrest |-> FALSE, inits |-> {}, locks |-> {}]

\* Mutant: a net below 2^16 is shifted like one below 2^24.
MutShifted(net) ==
    IF net[1] # 0 THEN net
    ELSE IF net[2] = 0 /\ net[3] = 0 /\ net[4] < 128 THEN <<net[4], 0, 0, 0>>
    ELSE <<net[2], net[3], net[4], 0>>

\* A net below 128, 2^16 or 2^24 is moved up to the first byte.
Shifted(net) ==
    IF net[1] # 0 THEN net
    ELSE IF net[2] # 0 THEN <<net[2], net[3], net[4], 0>>
    ELSE IF net[3] # 0 \/ net[4] >= 128 THEN <<net[3], net[4], 0, 0>>
    ELSE <<net[4], 0, 0, 0>>

ClassMask(net) ==
    IF net[1] # 0 THEN Prefix(8 * Significant(net))
    ELSE IF net[2] # 0 THEN Prefix(24)
    ELSE IF net[3] # 0 \/ net[4] >= 128 THEN Prefix(16)
    ELSE Prefix(8)

MakeNetAndMask(s, net, bits) ==
    [s EXCEPT !.addrs = @ \cup {"netmask"},
              !.dst = IF net = Zero \/ bits # 0 THEN net ELSE Shifted(net),
              !.mask = IF net = Zero THEN Zero ELSE IF bits # 0 THEN Prefix(bits) ELSE ClassMask(net)]

\* The address goes to one of so_dst, so_gate and so_mask.
Put(s, which, a) ==
    IF which = "dst" THEN [s EXCEPT !.dst = a]
    ELSE IF which = "gateway" THEN [s EXCEPT !.gate = a] ELSE [s EXCEPT !.mask = a]

Host(s, which, host) == IF which = "dst" THEN [s EXCEPT !.ishost = host] ELSE s

\* A default leaves in so_dst and so_mask what was there.
Default(s, which) ==
    IF which # "dst" THEN s
    ELSE [s EXCEPT !.forcenet = TRUE, !.addrs = @ \cup {"netmask"}, !.ishost = FALSE]

Named(s, which, addresses, keep) ==
    Host(Put([s EXCEPT !.hp = IF keep THEN addresses ELSE @], which, addresses[1]), which, TRUE)

\* getaddr(); keep says that the caller wants the host's other addresses.
GetAddr(before, which, w, keep) ==
    LET s == [before EXCEPT !.addrs = @ \cup {which}, !.inet = TRUE]
        t == [s EXCEPT !.hp = IF keep THEN <<>> ELSE @]
        a == InetAddr(w[2])
        net == InetNetwork(w[2])
    IN  IF which = "gateway" /\ s.iflag /\ w[1] = "name" /\ w[2] \in Links
        THEN [s EXCEPT !.gate = w]
        ELSE CASE w[1] = "default" -> Default(s, which)
               [] w[1] = "slash" /\ which = "dst" /\ a # Ones ->
                      Host(MakeNetAndMask(t, a, w[3]), which, FALSE)
               [] w[1] = "dotted" /\ a # Ones /\ (which # "dst" \/ ~t.forcenet) ->
                      IF LocalPart(a) # Zero THEN Host(Put(t, which, a), which, TRUE)
                      ELSE IF which = "dst" THEN Host(MakeNetAndMask(t, a, 0), which, FALSE)
                      ELSE Put(t, which, a)
               [] w[1] = "dotted" /\ net # Ones /\ which = "dst" /\ t.forcenet ->
                      Host(MakeNetAndMask(t, net, 0), which, FALSE)
               [] w = <<"dotted", Ones>> -> Named(t, which, <<Ones>>, keep)
               [] w[1] = "name" /\ w[2] \in DOMAIN Hosts -> Named(t, which, Hosts[w[2]], keep)
               [] OTHER -> [t EXCEPT !.ok = FALSE]

\* prefixlen() knows the family only after -inet or an address.
PrefixLen(s, n) ==
    IF ~s.inet \/ n \notin 0..32 THEN [s EXCEPT !.ok = FALSE]
    ELSE [s EXCEPT !.addrs = @ \cup {"netmask"}, !.mask = Prefix(n),
                   !.forcenet = n # 32, !.ishost = n = 32]

SetMetric(s, key, value) ==
    [s EXCEPT !.inits = {m \in @ : m[1] # key} \cup {<<key, value>>},
              !.locks = IF s.lockrest \/ s.locking THEN @ \cup {key} ELSE @,
              !.locking = FALSE]

Metrics == {"-mtu", "-hopcount", "-expire", "-recvpipe", "-sendpipe", "-ssthresh", "-rtt", "-rttvar"}
RouteFlags == {"-static", "-llinfo", "-reject", "-blackhole", "-proto1", "-proto2", "-cloning", "-xresolve"}

\* Words without an option are the destination, the gateway and the mask.
Operand(s, w) ==
    IF "dst" \notin s.addrs THEN GetAddr(s, "dst", w, TRUE)
    ELSE IF "gateway" \notin s.addrs THEN GetAddr([s EXCEPT !.typed = TRUE], "gateway", w, TRUE)
    ELSE GetAddr(s, "netmask", w, FALSE)

\* One round of newroute()'s first loop.
ReadItem(s, item) ==
    LET o == item[1]
    IN  IF ~s.ok THEN s
        ELSE CASE o = "arg" -> Operand(s, item[2])
               [] o = "-inet" -> [s EXCEPT !.inet = TRUE]
               [] o \in {"-iface", "-interface"} -> [s EXCEPT !.iflag = TRUE]
               [] o = "-nostatic" -> [s EXCEPT !.flags = @ \ {"-static"}]
               [] o \in RouteFlags -> [s EXCEPT !.flags = @ \cup {o}]
               [] o = "-lock" -> [s EXCEPT !.locking = TRUE]
               [] o = "-lockrest" -> [s EXCEPT !.lockrest = TRUE]
               [] o = "-host" -> [s EXCEPT !.forcehost = TRUE]
               [] o = "-net" -> [s EXCEPT !.forcenet = TRUE]
               [] o = "-dst" /\ Len(item) = 2 -> GetAddr(s, "dst", item[2], TRUE)
               [] o = "-gateway" /\ Len(item) = 2 -> GetAddr(s, "gateway", item[2], FALSE)
               [] o = "-netmask" /\ Len(item) = 2 ->
                      [GetAddr(s, "netmask", item[2], FALSE) EXCEPT !.forcenet = TRUE]
               [] o = "-prefixlen" /\ Len(item) = 2 -> PrefixLen(s, item[2])
               [] o \in Metrics /\ Len(item) = 2 -> SetMetric(s, o, item[2])
               [] OTHER -> [s EXCEPT !.ok = FALSE]

\* What follows the loop: -net prevails over -host.
Finished(s) ==
    LET host == (s.forcehost \/ s.ishost) /\ ~s.forcenet
    IN  [s EXCEPT !.ishost = host,
                  !.flags = @ \cup {"up"} \cup (IF host THEN {"host"} ELSE {})
                              \cup (IF s.iflag THEN {} ELSE {"gateway"})]

ReadItems(items) ==
    LET g[n \in 0..Len(items)] == IF n = 0 THEN Blank ELSE ReadItem(g[n - 1], items[n])
    IN  g
Read(items) == Finished(ReadItems(items)[Len(items)])

-----------------------------------------------------------------------------
(* The kernel *)

\* A host route, or one without a mask, is to the one address.
Single == <<>>
Key(s) ==
    IF "host" \in s.flags \/ "netmask" \notin s.addrs THEN <<s.dst, Single>>
    ELSE <<And(s.dst, s.mask), s.mask>>

Entry(s, gate) ==
    [family |-> "inet", key |-> Key(s), gate |-> gate, flags |-> s.flags,
     inits |-> s.inits, locks |-> s.locks]

Same(t, key) == {r \in t : r.family = "inet" /\ r.key = key}

\* rtm_type and what comes of it: the errno.
Errno(t, cmd, s, gate) ==
    LET there == Same(t, Key(s)) # {}
    IN  IF "dst" \notin s.addrs \/ (cmd = "add" /\ "gateway" \notin s.addrs) THEN "EINVAL"
        ELSE IF cmd # "add" /\ ~there THEN "ESRCH"
        ELSE IF cmd # "delete" /\ "gateway" \in s.addrs /\ gate \notin Near THEN "ENETUNREACH"
        ELSE IF cmd = "add" /\ there THEN "EEXIST"
        ELSE "done"

\* The metrics that are set are locked or unlocked, the others stay.
Changed(r, gates, inits, locks) ==
    LET set == {m[1] : m \in inits}
    IN  [r EXCEPT !.gate = IF gates = <<>> THEN @ ELSE gates[1],
                  !.inits = {m \in @ : m[1] \notin set} \cup inits,
                  !.locks = (@ \ set) \cup (locks \cap set)]

Requested(t, cmd, s, gate) ==
    LET old == Same(t, Key(s))
    IN  IF Errno(t, cmd, s, gate) # "done" THEN t
        ELSE IF cmd = "add" THEN t \cup {Entry(s, gate)}
        ELSE IF cmd = "delete" THEN t \ old
        ELSE (t \ old) \cup {Changed(r, IF "gateway" \in s.addrs THEN <<gate>> ELSE <<>>,
                                      s.inits, s.locks) : r \in old}

-----------------------------------------------------------------------------
(* Commands *)

Current == todo[1]

\* The gateways that are tried one after the other: the other addresses of
\* the host named last take the place of an address in so_gate, whatever it was.
Tried(s) ==
    <<s.gate>> \o
    (IF s.typed /\ s.hp # <<>>
     THEN [i \in 1..(Len(s.hp) - 1) |-> IF Len(s.gate) = 2 THEN <<"garbled", s.hp[i + 1]>> ELSE s.hp[i + 1]]
     ELSE <<>>)

\* The attempt that is the last one.
Attempt(t, cmd, s) ==
    LET gates == Tried(s)
        stops == {i \in DOMAIN gates : i = Len(gates) \/ Errno(t, cmd, s, gates[i]) \notin {"ENETUNREACH", "ESRCH"}}
    IN  gates[Min(stops)]

\* newroute(), which ends with 0 whatever the kernel said.
NewRoute ==
    /\ pc = "main" /\ todo # <<>> /\ Current.cmd # "flush"
    /\ \E s \in {Read(Current.items)} :
          table' = IF s.ok THEN Requested(table, Current.cmd, s, Attempt(table, Current.cmd, s)) ELSE table
    /\ was' = table
    /\ pc' = "done"
    /\ UNCHANGED <<todo, dump, others>>

Untouched == [ahead |-> {}, deleted |-> {}, added |-> {}]

\* flushroutes(): the table is read once.
FlushRoutes ==
    /\ pc = "main" /\ todo # <<>> /\ Current.cmd = "flush"
    /\ dump' = table /\ was' = table /\ others' = Untouched
    /\ pc' = "flush"
    /\ UNCHANGED <<todo, table>>

\* Mutant: routes to connected networks are deleted as well.
MutFlushed(r) == Current.family \in {"any", r.family}

Flushed(r) == "gateway" \in r.flags /\ Current.family \in {"any", r.family}

\* A round of its loop: the kernel deletes what has the key now, and the first
\* deletion that fails is the last.
FlushOne ==
    /\ pc = "flush"
    /\ \E r \in dump :
          IF ~Flushed(r) THEN dump' = dump \ {r} /\ UNCHANGED table
          ELSE \E there \in {{q \in table : q.family = r.family /\ q.key = r.key}} :
                  /\ table' = table \ there
                  /\ dump' = IF there = {} THEN {} ELSE dump \ {r}
    /\ UNCHANGED <<todo, pc, was, others>>

FlushEnds ==
    /\ pc = "flush" /\ dump = {}
    /\ pc' = "done"
    /\ UNCHANGED <<todo, table, dump, was, others>>

\* The next command is given.
NextCommand ==
    /\ pc = "done"
    /\ todo' = Tail(todo)
    /\ pc' = "main"
    /\ UNCHANGED <<table, dump, was, others>>

\* Another program, dhclient-script for one, while routes are being flushed.
Other ==
    /\ pc = "flush"
    /\ \E r \in Others :
          IF Same(table, r.key) = {}
          THEN table' = table \cup {r} /\ others' = [others EXCEPT !.added = @ \cup {r}]
          ELSE /\ table' = table \ Same(table, r.key)
               /\ others' = [others EXCEPT !.deleted = @ \cup Same(table, r.key),
                                           !.ahead = @ \cup Same(dump, r.key)]
    /\ UNCHANGED <<todo, pc, dump, was>>

Init ==
    /\ \E s \in Sessions : todo = s.commands /\ table = s.table
    /\ pc = "main" /\ dump = {} /\ was = table /\ others = Untouched

Next == NewRoute \/ FlushRoutes \/ FlushOne \/ FlushEnds \/ NextCommand \/ Other

-----------------------------------------------------------------------------
(* What the manual says of a command (route.8) *)

At(items, o) == {i \in DOMAIN items : items[i][1] = o}
Opts(items) == {items[i][1] : i \in DOMAIN items}

\* To a network if it is the default or -net or a mask says so, or else without
\* -host for an address with a length or without a local part.
ToNet(o, w) ==
    \/ {"-net", "-netmask"} \cap o # {} \/ w[1] = "default"
    \/ /\ "-host" \notin o
       /\ w[1] = "slash" \/ (w[1] = "dotted" /\ LocalPart(InetAddr(w[2])) = Zero)

\* With -net the numbers are the first bytes, and otherwise as inet_addr() reads them.
Destination(o, w) ==
    IF w[1] = "default" THEN Zero
    ELSE IF w[1] = "name" THEN Hosts[w[2]][1]
    ELSE IF w[1] = "dotted" /\ "-net" \in o THEN [i \in 1..4 |-> IF i <= Len(w[2]) THEN w[2][i] ELSE 0]
    ELSE InetAddr(w[2])

\* The mask that follows -netmask, which is the item m unless m is 0
MaskMeant(items, o, w, d, m) ==
    IF m # 0 THEN InetAddr(items[m][2][2])
    ELSE IF w[1] = "slash" THEN Prefix(w[3])
    ELSE IF d = Zero THEN Zero
    ELSE IF w[1] = "dotted" /\ Len(w[2]) < 4 /\ "-net" \in o THEN Prefix(8 * Len(w[2]))
    ELSE Prefix(8 * Significant(d))

KeyMeant(o, w, d, mask) == IF ToNet(o, w) THEN <<And(d, mask), mask>> ELSE <<d, Single>>

\* The addresses of the gateway, in order
GatesMeant(w) ==
    IF w[1] = "dotted" THEN <<InetAddr(w[2])>>
    ELSE IF w[2] \in DOMAIN Hosts THEN Hosts[w[2]]
    ELSE <<w>>

\* -lock is for the next metric and -lockrest for those that follow.
Locked(items, i) ==
    \E j \in 1..(i - 1) : \/ items[j][1] = "-lockrest"
                          \/ items[j][1] = "-lock" /\ \A k \in (j + 1)..(i - 1) : items[k][1] \notin Metrics

\* Of -static and -nostatic, and of the values of a metric, the last one counts.
Static(items) == \A i \in At(items, "-nostatic") : \E j \in At(items, "-static") : i < j
Stands(items, i) == \A j \in (i + 1)..Len(items) : items[j][1] # items[i][1]

RouteMeant(items, o, w, m) ==
    LET metrics == {i \in DOMAIN items : items[i][1] \in Metrics}
        d == Destination(o, w)
    IN  [family |-> "inet",
         key |-> KeyMeant(o, w, d, MaskMeant(items, o, w, d, m)),
         flags |-> (o \cap (RouteFlags \ {"-static"})) \cup {"up"} \cup (IF Static(items) THEN {"-static"} ELSE {})
                   \cup (IF ToNet(o, w) THEN {} ELSE {"host"})
                   \cup (IF {"-iface", "-interface"} \cap o = {} THEN {"gateway"} ELSE {}),
         inits |-> {items[i] : i \in {j \in metrics : Stands(items, j)}},
         locks |-> {items[i][1] : i \in {j \in metrics : Locked(items, j)}}]

With(route, gate) ==
    [family |-> route.family, key |-> route.key, gate |-> gate, flags |-> route.flags,
     inits |-> route.inits, locks |-> route.locks]

\* The table after the command: nothing comes of one for a route that is there
\* or not there, or without a gateway that can be reached; the first that can be counts.
Effect(t, cmd, route, gates) ==
    LET reached == {i \in DOMAIN gates : gates[i] \in Near}
        near == IF reached = {} THEN <<>> ELSE <<gates[Min(reached)]>>
        old == Same(t, route.key)
    IN  IF cmd = "delete" THEN t \ old
        ELSE IF cmd = "add" THEN IF near = <<>> \/ old # {} THEN t ELSE t \cup {With(route, near[1])}
        ELSE IF gates # <<>> /\ near = <<>> THEN t
        ELSE (t \ old) \cup {Changed(r, near, route.inits, route.locks) : r \in old}

Before(items, first, second) ==
    \A i, j \in DOMAIN items : (items[i][1] \in first /\ items[j][1] \in second) => i < j

\* Of a network the first number is neither 0 nor, alone, 128 or more, and only one whose
\* first byte is not 0, and that is not of ones only, has a length.
PlainDestination(o, w) ==
    CASE w[1] = "slash" -> InetAddr(w[2])[1] # 0 /\ InetAddr(w[2]) # Ones /\ w[3] > 0
      [] w[1] = "dotted" -> /\ w[2] # Ones
                            /\ "-net" \in o => w[2] = Zero \/ (w[2][1] # 0 /\ (Len(w[2]) > 1 \/ w[2][1] < 128))
      [] w[1] = "name" -> w[2] \in DOMAIN Hosts /\ ("-net" \in o => "-netmask" \in o)
      [] OTHER -> "-netmask" \notin o

PlainGateway(o, w) ==
    CASE w[1] = "dotted" -> TRUE
      [] w[1] = "name" -> w[2] \in DOMAIN Hosts \cup IF {"-iface", "-interface"} \cap o = {} THEN {} ELSE Links
      [] OTHER -> FALSE

Switches == RouteFlags \cup {"-net", "-host", "-iface", "-interface", "-inet", "-nostatic", "-lock", "-lockrest"}
Understood(item) ==
    \/ item[1] \in Switches \cup {"arg"}
    \/ item[1] \in Metrics /\ Len(item) = 2
    \/ item[1] = "-netmask" /\ Len(item) = 2 /\ item[2][1] = "dotted"

\* The commands that the manual gives a meaning: [-net | -host] destination gateway, and a
\* mask after the destination.  The destination is the item d; the gateway and the mask are
\* g and m, which are 0 if there is none.
Plain(items, o, d, g, m) ==
    /\ \A i \in DOMAIN items : Understood(items[i])
    /\ At(items, "arg") = {d, g} \ {0} /\ (g = 0 \/ d < g)
    /\ At(items, "-netmask") = {m} \ {0} /\ (m = 0 \/ d < m)
    /\ ~({"-net", "-host"} \subseteq o)
    /\ Before(items, {"-net", "-host", "-iface", "-interface", "-inet"}, {"arg"})
    /\ PlainDestination(o, items[d][2])
    /\ g # 0 => PlainGateway(o, items[g][2])

\* What a command makes of the table is what the manual says of it.
Obeys(t, cmd, items, o) ==
    \A d \in DOMAIN items, g, m \in DOMAIN items \cup {0} :
        Plain(items, o, d, g, m) =>
            table = Effect(t, cmd, RouteMeant(items, o, items[d][2], m),
                           IF g = 0 THEN <<>> ELSE GatesMeant(items[g][2]))

ToFlush(r) == "gateway" \in r.flags /\ Current.family \in {"any", r.family}

\* A flush that no other program was ahead of leaves no gateway route: a route that is
\* deleted before its turn ends it.
NoGatewayLeft == others.ahead = {} => \A r \in (was \cap table) \ others.added : ~ToFlush(r)

\* Every other route stays all the time, unless another program deletes it.
OthersLeft == \A r \in was \ table : ToFlush(r) \/ r \in others.deleted

Flushes ==
    /\ pc = "done" /\ Current.cmd = "flush" => NoGatewayLeft
    /\ pc = "flush" \/ (pc = "done" /\ Current.cmd = "flush") => OthersLeft

\* What is in the table at the start, and what other programs add: in a family each key is
\* that of one route, and other programs are about inet routes.
IsTable(t) ==
    /\ \A r \in t : r = With(r, r.gate)
    /\ \A r, q \in t : r.family = q.family /\ r.key = q.key => r = q
RoutesAreUnique ==
    /\ \A s \in Sessions : IsTable(s.table)
    /\ \A r \in Others : r.family = "inet" /\ r = With(r, r.gate)

\* Commands as they are typed, and what the resolver and the kernel know.
IsAddress(a) == a \in [1..4 -> 0..255]
IsNumbers(p) == Len(p) \in 1..4 /\ p \in [1..Len(p) -> 0..255]
IsWord(w) ==
    \/ w = <<"default">>
    \/ w = <<"dotted", w[2]>> /\ IsNumbers(w[2])
    \/ w = <<"name", w[2]>>
    \/ w = <<"slash", w[2], w[3]>> /\ IsNumbers(w[2]) /\ w[3] \in Nat
IsItem(x) ==
    /\ x = <<x[1]>> \/ x = <<x[1], x[2]>>
    /\ x[1] = "arg" => Len(x) = 2
    /\ x[1] \in {"arg", "-netmask"} /\ Len(x) = 2 => IsWord(x[2])
IsTuple(q) == Len(q) \in Nat /\ q = [i \in 1..Len(q) |-> q[i]]
IsCommand(c) ==
    /\ c.cmd \in {"add", "change", "delete", "flush"}
    /\ IsTuple(c.items) /\ \A i \in DOMAIN c.items : IsItem(c.items[i])
CommandsTyped ==
    /\ \A s \in Sessions : IsTuple(s.commands) /\ \A k \in DOMAIN s.commands : IsCommand(s.commands[k])
    /\ \A n \in DOMAIN Hosts : IsTuple(Hosts[n]) /\ Hosts[n] # <<>> /\ \A i \in DOMAIN Hosts[n] : IsAddress(Hosts[n][i])
    /\ Links \cap DOMAIN Hosts = {}
    /\ \A a \in Near : Len(a) = 4 \/ a = <<"name", a[2]>>

Commanded ==
    pc = "done" /\ Current.cmd # "flush" =>
        Obeys(was, Current.cmd, Current.items, Opts(Current.items))

=============================================================================
