-------------------------------- MODULE Natd --------------------------------
(***************************************************************************)
(* natd (sbin/natd/natd.c): the loop that reads diverted packets, has them *)
(* translated and writes them back, follows the address of its interface   *)
(* and stops some time after SIGTERM.                                      *)
(*                                                                         *)
(* There is one packet buffer.  A packet that the kernel has no room for   *)
(* stays in it, with packetSock set, and the loop then waits for room      *)
(* instead of packets.  Signal handlers run between any two steps; select  *)
(* and recvfrom return when one runs during the wait, not when it ran      *)
(* before.                                                                 *)
(*                                                                         *)
(* Packets are told apart by a number that starts over after Numbers, and  *)
(* addresses likewise; what libalias does to a packet is not modelled,     *)
(* only the address it does it with.                                       *)
(***************************************************************************)
EXTENDS Integers, Sequences

CONSTANTS
    Options,        \* command lines: [sockets, ifName, dynamicMode, denyIncoming]
    Numbers,        \* bound: packets are numbered modulo this
    Addresses,      \* addresses the interface may have
    QueueBound      \* bound: packets waiting in a divert socket

NoSocket == "none"  \* packetSock = -1
NoPacket == 0
NoAddress == 0

\* sockets is <<"inout">>, or with -i and -o <<"in", "out">>; ifName and dynamicMode
\* are -n and -dynamic, denyIncoming is -deny_incoming.
ASSUME NatdAssumption ==
    /\ Options \subseteq [sockets : {<<"inout">>, <<"in", "out">>}, ifName : BOOLEAN,
                          dynamicMode : BOOLEAN, denyIncoming : BOOLEAN]
    /\ \A o \in Options : o.dynamicMode => o.ifName
    /\ Numbers \in Nat \ {0} /\ QueueBound \in Nat
    /\ Addresses \subseteq Nat \ {NoAddress}

VARIABLES
    opt,            \* what ParseArgs made of the command line
    pc,             \* where the loop is
    ready,          \* descriptors select reported and the loop has not come to
    running, assignAliasAddr,
    ifIndex,        \* the index of the interface is known
    alias,          \* address given to libalias
    packetSock,     \* socket of an unsent packet, or NoSocket
    packetBuf,      \* the packet in the buffer, or NoPacket
    queue,          \* packets waiting in each divert socket
    routes,         \* routing messages about the interface wait
    ifAddr,         \* the address the interface has, or NoAddress
    next,           \* number of the next packet
    alarm           \* SIGTERM has set the timer

vars == <<opt, pc, ready, running, assignAliasAddr, ifIndex, alias, packetSock, packetBuf,
          queue, routes, ifAddr, next, alarm>>
loop == <<pc, ready>>
buffer == <<packetSock, packetBuf>>
address == <<assignAliasAddr, ifIndex, alias>>
world == <<opt, queue, routes, ifAddr, next>>

DivertSockets == opt.sockets
Sockets == {DivertSockets[i] : i \in DOMAIN DivertSockets}
IfName == opt.ifName
DynamicMode == opt.dynamicMode
DenyIncoming == opt.denyIncoming
Waiting == pc \in {"select", "recv"}
Gone == pc \in {"exit", "quit"}

-----------------------------------------------------------------------------
(* Kernel, interface and signals *)

Arrive(s) ==
    /\ Len(queue[s]) < QueueBound
    /\ queue' = [queue EXCEPT ![s] = Append(@, next)]
    /\ next' = (next % Numbers) + 1
    /\ UNCHANGED <<loop, running, address, buffer, opt, routes, ifAddr, alarm>>

\* RTM_NEWADDR tells of a new address; of a removed one, RTM_DELADDR tells, which
\* natd does not look at.
ChangeAddress(a) ==
    /\ a # ifAddr
    /\ ifAddr' = a
    /\ routes' = (routes \/ (DynamicMode /\ a # NoAddress))
    /\ UNCHANGED <<loop, running, address, buffer, opt, queue, next, alarm>>

\* A handler has run: a wait ends with EINTR, and the loop starts over.
Interrupted == IF Waiting THEN pc' = "top" /\ ready' = {} ELSE UNCHANGED loop

\* SIGHUP: RefreshAddr().
RefreshAddr ==
    /\ ~Gone
    /\ assignAliasAddr' = (assignAliasAddr \/ IfName)
    /\ Interrupted
    /\ UNCHANGED <<running, ifIndex, alias, buffer, world, alarm>>

\* SIGTERM: InitiateShutdown() sets a timer of ten seconds.
InitiateShutdown ==
    /\ ~Gone
    /\ alarm' = TRUE
    /\ Interrupted
    /\ UNCHANGED <<running, address, buffer, world>>

\* SIGALRM: Shutdown().
Shutdown ==
    /\ ~Gone /\ alarm
    /\ alarm' = FALSE /\ running' = FALSE
    /\ Interrupted
    /\ UNCHANGED <<address, buffer, world>>

-----------------------------------------------------------------------------
(* main(): the loop *)

\* Mutant: the loop does not look at running any more.
MutTop ==
    /\ pc = "top"
    /\ pc' = IF Len(DivertSockets) = 1 /\ ~IfName /\ packetSock = NoSocket THEN "recv" ELSE "select"
    /\ UNCHANGED <<ready, running, address, buffer, world, alarm>>

\* while (running): with one socket and nothing else to watch, read from it.
Top ==
    /\ pc = "top"
    /\ pc' = IF ~running THEN "exit"
             ELSE IF Len(DivertSockets) = 1 /\ ~IfName /\ packetSock = NoSocket THEN "recv"
             ELSE "select"
    /\ UNCHANGED <<ready, running, address, buffer, world, alarm>>

\* Mutant: packets are also awaited while one is unsent.
MutSelected ==
    LET write == IF packetSock # NoSocket THEN {"write"} ELSE {}
        read == {s \in Sockets : queue[s] # <<>>}
        route == IF DynamicMode /\ routes THEN {"route"} ELSE {}
    IN  write \cup read \cup route

\* What select() may report: room for the unsent packet, or else waiting packets;
\* routing messages in any case.
Selected ==
    LET write == IF packetSock # NoSocket THEN {"write"} ELSE {}
        read == IF packetSock # NoSocket THEN {} ELSE {s \in Sockets : queue[s] # <<>>}
        route == IF DynamicMode /\ routes THEN {"route"} ELSE {}
    IN  write \cup read \cup route

\* select() returns.  There may be no room yet, so that only the rest is reported.
Select ==
    /\ pc = "select"
    /\ \E fds \in {Selected, Selected \ {"write"}} : fds # {} /\ ready' = fds
    /\ pc' = "serve"
    /\ UNCHANGED <<running, address, buffer, world, alarm>>

\* The descriptors are served in this order.
Order == <<"write">> \o DivertSockets \o <<"route">>
First == CHOOSE f \in ready : \A g \in ready :
            \E i, j \in DOMAIN Order : Order[i] = f /\ Order[j] = g /\ i <= j

Serve ==
    /\ pc = "serve"
    /\ pc' = IF ready = {} THEN "top"
             ELSE IF First = "write" THEN "flush"
             ELSE IF First = "route" THEN "route"
             ELSE IF assignAliasAddr THEN "assign" ELSE "read"
    /\ UNCHANGED <<ready, running, address, buffer, world, alarm>>

\* recvfrom() in the loop without select.
Receive ==
    /\ pc = "recv"
    /\ queue[DivertSockets[1]] # <<>>
    /\ ready' = {DivertSockets[1]}
    /\ pc' = "read"
    /\ UNCHANGED <<running, address, buffer, world, alarm>>

\* Mutant: an interface without an address is no reason to exit, and the buffer is used.
MutSetAliasAddress ==
    /\ pc = "assign"
    /\ pc' = "assigned" /\ ifIndex' = TRUE /\ alias' = IF ifAddr = NoAddress THEN -1 ELSE ifAddr
    /\ UNCHANGED <<ready, running, assignAliasAddr, buffer, world, alarm>>

\* SetAliasAddressFromIfName(): exits if the interface has no address.
SetAliasAddress ==
    /\ pc = "assign"
    /\ IF ifAddr = NoAddress
       THEN pc' = "quit" /\ UNCHANGED <<ifIndex, alias>>
       ELSE pc' = "assigned" /\ ifIndex' = TRUE /\ alias' = ifAddr
    /\ UNCHANGED <<ready, running, assignAliasAddr, buffer, world, alarm>>

\* assignAliasAddr = 0, even if a signal set it since.
Assigned ==
    /\ pc = "assigned"
    /\ assignAliasAddr' = FALSE
    /\ pc' = "read"
    /\ UNCHANGED <<ready, running, ifIndex, alias, buffer, world, alarm>>

\* DoAliasing() from recvfrom() on.  An ignored incoming packet may be dropped.
DoAliasing ==
    /\ pc = "read"
    /\ LET s == First
       IN  /\ queue' = [queue EXCEPT ![s] = Tail(@)]
           /\ \/ DenyIncoming /\ s # "out" /\ pc' = "serve" /\ ready' = ready \ {s} /\ UNCHANGED buffer
              \/ /\ packetBuf' = Head(queue[s]) /\ packetSock' = s
                 /\ pc' = "flush" /\ UNCHANGED ready
    /\ UNCHANGED <<opt, running, address, routes, ifAddr, next, alarm>>

\* FlushPacketBuffer(): the packet is written, or is too big or otherwise
\* refused and forgotten; with ENOBUFS it stays.
FlushPacketBuffer ==
    /\ pc = "flush"
    /\ \/ packetSock' = NoSocket /\ packetBuf' = NoPacket
       \/ UNCHANGED buffer
    /\ ready' = ready \ {First}
    /\ pc' = "serve"
    /\ UNCHANGED <<running, address, world, alarm>>

\* Mutant: the flag is assigned what the message says, also when it is set already.
MutHandleRoutingInfo ==
    /\ pc = "route"
    /\ routes' = FALSE
    /\ assignAliasAddr' = ifIndex
    /\ ready' = ready \ {"route"}
    /\ pc' = "serve"
    /\ UNCHANGED <<running, ifIndex, alias, buffer, opt, queue, ifAddr, next, alarm>>

\* HandleRoutingInfo(): a message about the interface, once its index is known.
HandleRoutingInfo ==
    /\ pc = "route"
    /\ routes' = FALSE
    /\ assignAliasAddr' = (assignAliasAddr \/ ifIndex)
    /\ ready' = ready \ {"route"}
    /\ pc' = "serve"
    /\ UNCHANGED <<running, ifIndex, alias, buffer, opt, queue, ifAddr, next, alarm>>

-----------------------------------------------------------------------------
\* With an interface, its address is fetched before the loop, or in dynamic mode
\* with the first packet.
Init ==
    /\ opt \in Options
    /\ pc = "top" /\ ready = {}
    /\ running = TRUE /\ alarm = FALSE
    /\ packetSock = NoSocket /\ packetBuf = NoPacket
    /\ queue = [s \in Sockets |-> <<>>] /\ next = 1 /\ routes = FALSE
    /\ ifAddr \in Addresses
    /\ assignAliasAddr = DynamicMode
    /\ ifIndex = (IfName /\ ~DynamicMode)
    /\ alias = IF IfName /\ DynamicMode THEN NoAddress ELSE ifAddr

Step ==
    \/ Top \/ Select \/ Serve \/ Receive
    \/ SetAliasAddress \/ Assigned \/ DoAliasing \/ FlushPacketBuffer
    \/ HandleRoutingInfo

Signals == RefreshAddr \/ InitiateShutdown \/ Shutdown

Next ==
    \/ Step
    \/ Signals
    \/ \E s \in Sockets : Arrive(s)
    \/ \E a \in Addresses \cup {NoAddress} : ChangeAddress(a)

\* The program goes on, and the timer runs out.
Spec == Init /\ [][Next]_vars /\ WF_vars(Step) /\ WF_vars(Shutdown)

-----------------------------------------------------------------------------
(* Properties *)

NatdTypeOK ==
    /\ opt \in Options
    /\ pc \in {"top", "select", "recv", "serve", "assign", "assigned", "read", "flush",
               "route", "exit", "quit"}
    /\ ready \subseteq Sockets \cup {"write", "route"}
    /\ {running, assignAliasAddr, ifIndex, routes, alarm} \subseteq BOOLEAN
    /\ packetSock \in Sockets \cup {NoSocket} /\ packetBuf \in 0..Numbers
    /\ queue \in [Sockets -> Seq(1..Numbers)]
    /\ alias \in Addresses \cup {NoAddress} /\ ifAddr \in Addresses \cup {NoAddress}

\* A packet the kernel had no room for is the next one written: nothing is read
\* into its buffer before (natd.c:357-360, 603-607).  With one divert socket, that is.
UnsentKept == [][packetSock # NoSocket => packetBuf' \in {packetBuf, NoPacket}]_vars

\* In dynamic mode the address given to libalias is the interface's unless a
\* message or the flag still says that it is to be fetched: no change of address
\* is forgotten, whatever signals come in between (natd.c:470-474, 650-655).
AliasFollows ==
    DynamicMode /\ ifAddr # NoAddress /\ alias # ifAddr => assignAliasAddr \/ routes \/ pc = "route"

\* Once told to stop, natd ends as soon as there is anything to do: a packet that
\* waits is the last one it handles (natd.c:326, 841-848).
StopIsSeen ==
    ~running /\ (packetSock # NoSocket \/ \E s \in Sockets : queue[s] # <<>>) ~> Gone

=============================================================================
