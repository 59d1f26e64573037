------------------------------ MODULE NatdProofs -----------------------------
(***************************************************************************)
(* For any addresses, bounds and command lines: no change of address is    *)
(* forgotten; and with one divert socket, no unsent packet is overwritten. *)
(***************************************************************************)
EXTENDS Natd, SequenceTheorems, TLAPS

-----------------------------------------------------------------------------
(* The address *)

\* The flag is cleared after the address was fetched, and what changed in between is told
\* by a message that still waits; until the index of the interface is known, which a message
\* is compared with, the flag stays set.
AddressInv ==
    /\ pc = "assigned" => ifIndex /\ (DynamicMode /\ ifAddr # NoAddress /\ alias # ifAddr => routes)
    /\ DynamicMode /\ ~ifIndex => assignAliasAddr
    /\ AliasFollows

LEMMA AddressInit == Init => AddressInv
BY DEF Init, AddressInv, AliasFollows, DynamicMode, IfName, NoAddress

LEMMA AddressStep == AddressInv /\ [Next]_vars => AddressInv'
<1> SUFFICES ASSUME AddressInv, [Next]_vars PROVE AddressInv'
  OBVIOUS
<1> USE DEF AddressInv, AliasFollows, DynamicMode
<1>1. CASE Top
  BY <1>1 DEF Top, world, address
<1>2. CASE Select
  BY <1>2 DEF Select, world, address
<1>3. CASE Serve
  BY <1>3 DEF Serve, world, address
<1>4. CASE Receive
  BY <1>4 DEF Receive, world, address
<1>5. CASE SetAliasAddress
  BY <1>5 DEF SetAliasAddress, world
<1>6. CASE Assigned
  BY <1>6 DEF Assigned, world
<1>7. CASE DoAliasing
  BY <1>7 DEF DoAliasing, address
<1>8. CASE FlushPacketBuffer
  BY <1>8 DEF FlushPacketBuffer, world, address
<1>9. CASE HandleRoutingInfo
  BY <1>9 DEF HandleRoutingInfo
<1>10. CASE RefreshAddr
  BY <1>10 DEF RefreshAddr, Interrupted, Waiting, loop, world, IfName
<1>11. CASE InitiateShutdown
  BY <1>11 DEF InitiateShutdown, Interrupted, Waiting, loop, world, address
<1>12. CASE Shutdown
  BY <1>12 DEF Shutdown, Interrupted, Waiting, loop, world, address
<1>13. ASSUME NEW s \in Sockets, Arrive(s) PROVE AddressInv'
  BY <1>13 DEF Arrive, loop, address
<1>14. ASSUME NEW a \in Addresses \cup {NoAddress}, ChangeAddress(a) PROVE AddressInv'
  BY <1>14 DEF ChangeAddress, loop, address
<1>15. CASE UNCHANGED vars
  BY <1>15 DEF vars
<1> QED
  BY <1>1, <1>2, <1>3, <1>4, <1>5, <1>6, <1>7, <1>8, <1>9, <1>10, <1>11, <1>12, <1>13, <1>14, <1>15
     DEF Next, Step, Signals

\* In dynamic mode a change of the interface's address is fetched before or with a later
\* packet, whatever signals and messages come at whatever point of the loop
\* (natd.c:386-474, 650-655, 841).
THEOREM AddressIsFollowed == Spec => []AliasFollows
<1>1. AddressInv => AliasFollows
  BY DEF AddressInv
<1> QED
  BY <1>1, AddressInit, AddressStep, PTL DEF Spec

-----------------------------------------------------------------------------
(* The buffer *)

OneSocketEach == \A o \in Options : o.sockets = <<"inout">>

\* A packet is read only with the buffer empty: select() is not asked for packets while one
\* is unsent, and the loop without select() is not used.
BufferInv ==
    /\ opt \in Options
    /\ ready \subseteq {"write", "inout", "route"}
    /\ ~({"write", "inout"} \subseteq ready)
    /\ pc \in {"recv", "read", "assign", "assigned"} => packetSock = NoSocket
    /\ pc \in {"serve", "route"} /\ "inout" \in ready => packetSock = NoSocket
    /\ pc = "route" => "inout" \notin ready

\* The order in which main() looks at what select() reported.
LEMMA FirstServed ==
    ASSUME BufferInv, OneSocketEach, ready # {}
    PROVE  First = IF "write" \in ready THEN "write" ELSE IF "inout" \in ready THEN "inout" ELSE "route"
<1> DEFINE Before(f, g) == \E i, j \in DOMAIN Order : Order[i] = f /\ Order[j] = g /\ i <= j
           F == IF "write" \in ready THEN "write" ELSE IF "inout" \in ready THEN "inout" ELSE "route"
           Read == <<"write">> \o <<"inout">>
<1>1. Order = Read \o <<"route">>
  BY DEF BufferInv, OneSocketEach, Order, DivertSockets
<1>2. DOMAIN Order = 1..3 /\ Order[1] = "write" /\ Order[2] = "inout" /\ Order[3] = "route"
  <2> DEFINE A == <<"write">>
             B == <<"inout">>
             C == <<"route">>
             S == {"write", "inout", "route"}
  <2>0. A \in Seq(S) /\ B \in Seq(S) /\ C \in Seq(S)
    OBVIOUS
  <2>1. Len(A) = 1 /\ Len(B) = 1 /\ Len(C) = 1
    OBVIOUS
  <2>2. A[1] = "write" /\ B[1] = "inout" /\ C[1] = "route"
    OBVIOUS
  <2>3. Order = (A \o B) \o C
    BY <1>1
  <2> HIDE DEF A, B, C, S
  <2>4. A \o B \in Seq(S) /\ Len(A \o B) = 2 /\ (A \o B)[1] = "write" /\ (A \o B)[2] = "inout"
    <3>1. /\ A \o B \in Seq(S) /\ Len(A \o B) = Len(A) + Len(B)
          /\ \A i \in 1..(Len(A) + Len(B)) :
                (A \o B)[i] = IF i <= Len(A) THEN A[i] ELSE B[i - Len(A)]
      BY <2>0, ConcatProperties
    <3> QED
      BY <2>1, <2>2, <3>1
  <2>5. Order \in Seq(S) /\ Len(Order) = 3 /\ Order[1] = "write" /\ Order[2] = "inout" /\ Order[3] = "route"
    <3> DEFINE D == A \o B
    <3>1. D \in Seq(S) /\ Len(D) = 2 /\ D[1] = "write" /\ D[2] = "inout" /\ Order = D \o C
      BY <2>3, <2>4
    <3> HIDE DEF D
    <3>2. /\ Order \in Seq(S) /\ Len(Order) = Len(D) + Len(C)
          /\ \A i \in 1..(Len(D) + Len(C)) :
                Order[i] = IF i <= Len(D) THEN D[i] ELSE C[i - Len(D)]
      BY <2>0, <3>1, ConcatProperties
    <3> QED
      BY <2>1, <2>2, <3>1, <3>2
  <2> QED
    BY <2>5
<1>3. F \in ready /\ \A g \in ready : Before(F, g)
  <2>1. F \in ready
    BY DEF BufferInv
  <2>2. ASSUME NEW g \in ready PROVE Before(F, g)
    <3>1. CASE F = "write"
      BY <1>2, <3>1 DEF BufferInv
    <3>2. CASE F = "inout"
      BY <1>2, <3>2 DEF BufferInv
    <3>3. CASE F = "route"
      BY <1>2, <3>3 DEF BufferInv
    <3> QED
      BY <3>1, <3>2, <3>3
  <2> QED
    BY <2>1, <2>2
<1>4. \A f \in ready : (\A g \in ready : Before(f, g)) => f = F
  <2> SUFFICES ASSUME NEW f \in ready, Before(f, F) PROVE f = F
    BY <1>3
  <2> QED
    BY <1>2, <1>3 DEF BufferInv
<1> HIDE DEF F
<1>5. First \in ready /\ \A g \in ready : Before(First, g)
  BY <1>3 DEF First
<1>6. First = F
  BY <1>4, <1>5
<1> QED
  BY <1>6 DEF F

LEMMA BufferInit == Init => BufferInv
BY DEF Init, BufferInv

LEMMA BufferStep == OneSocketEach /\ BufferInv /\ [Next]_vars => BufferInv'
<1> SUFFICES ASSUME OneSocketEach, BufferInv, [Next]_vars PROVE BufferInv'
  OBVIOUS
<1>0. DivertSockets = <<"inout">> /\ Sockets = {"inout"}
  BY DEF OneSocketEach, BufferInv, DivertSockets, Sockets
<1> USE DEF BufferInv
<1>1. CASE Top
  BY <1>1 DEF Top, world, buffer
<1>2. CASE Select
  BY <1>0, <1>2 DEF Select, Selected, world, buffer, NoSocket
<1>3. CASE Serve
  <2>1. CASE ready = {}
    BY <1>3, <2>1 DEF Serve, world, buffer
  <2>2. CASE ready # {}
    BY <1>3, <2>2, FirstServed DEF Serve, world, buffer
  <2> QED
    BY <2>1, <2>2
<1>4. CASE Receive
  BY <1>0, <1>4 DEF Receive, world, buffer
<1>5. CASE SetAliasAddress
  BY <1>5 DEF SetAliasAddress, world, buffer
<1>6. CASE Assigned
  BY <1>6 DEF Assigned, world, buffer
<1>7. CASE DoAliasing
  BY <1>7 DEF DoAliasing, buffer
<1>8. CASE FlushPacketBuffer
  <2>1. CASE ready = {}
    BY <1>8, <2>1 DEF FlushPacketBuffer, world
  <2>2. CASE ready # {}
    BY <1>8, <2>2, FirstServed DEF FlushPacketBuffer, world
  <2> QED
    BY <2>1, <2>2
<1>9. CASE HandleRoutingInfo
  BY <1>9 DEF HandleRoutingInfo, buffer
<1>10. CASE RefreshAddr
  BY <1>10 DEF RefreshAddr, Interrupted, Waiting, loop, world, buffer
<1>11. CASE InitiateShutdown
  BY <1>11 DEF InitiateShutdown, Interrupted, Waiting, loop, world, buffer
<1>12. CASE Shutdown
  BY <1>12 DEF Shutdown, Interrupted, Waiting, loop, world, buffer
<1>13. ASSUME NEW s \in Sockets, Arrive(s) PROVE BufferInv'
  BY <1>13 DEF Arrive, loop, buffer
<1>14. ASSUME NEW a \in Addresses \cup {NoAddress}, ChangeAddress(a) PROVE BufferInv'
  BY <1>14 DEF ChangeAddress, loop, buffer
<1>15. CASE UNCHANGED vars
  BY <1>15 DEF vars
<1> QED
  BY <1>1, <1>2, <1>3, <1>4, <1>5, <1>6, <1>7, <1>8, <1>9, <1>10, <1>11, <1>12, <1>13, <1>14, <1>15
     DEF Next, Step, Signals

\* Only DoAliasing() fills the buffer, and it does so when it is empty.
LEMMA BufferKept ==
    BufferInv /\ [Next]_vars => [packetSock # NoSocket => packetBuf' \in {packetBuf, NoPacket}]_vars
<1> SUFFICES ASSUME BufferInv, Next, packetSock # NoSocket PROVE packetBuf' \in {packetBuf, NoPacket}
  OBVIOUS
<1>1. CASE DoAliasing
  BY <1>1 DEF DoAliasing, BufferInv
<1>2. CASE FlushPacketBuffer
  BY <1>2 DEF FlushPacketBuffer, buffer
<1>3. CASE Top \/ Select \/ Serve \/ Receive \/ SetAliasAddress \/ Assigned \/ HandleRoutingInfo
  BY <1>3 DEF Top, Select, Serve, Receive, SetAliasAddress, Assigned, HandleRoutingInfo, buffer
<1>4. CASE Signals \/ (\E s \in Sockets : Arrive(s)) \/ (\E a \in Addresses \cup {NoAddress} : ChangeAddress(a))
  BY <1>4 DEF Signals, RefreshAddr, InitiateShutdown, Shutdown, Arrive, ChangeAddress, buffer
<1> QED
  BY <1>1, <1>2, <1>3, <1>4 DEF Next, Step

\* With one divert socket a packet that the kernel had no room for is written or given up
\* before another is read into the only buffer (natd.c:357-394, 603-607).
THEOREM UnsentIsKept ==
    ASSUME OneSocketEach
    PROVE  Spec => UnsentKept
<1>1. Init => BufferInv
  BY BufferInit
<1>2. BufferInv /\ [Next]_vars => BufferInv'
  BY BufferStep
<1> QED
  BY <1>1, <1>2, BufferKept, PTL DEF Spec, UnsentKept

=============================================================================
