------------------------------- MODULE MCNatd -------------------------------
(***************************************************************************)
(* natd with one divert socket: without an interface, with one, and with   *)
(* one whose address is followed.  Two addresses, two waiting packets.     *)
(***************************************************************************)
EXTENDS Natd

OneSocket ==
    [sockets : {<<"inout">>}, ifName : {FALSE}, dynamicMode : {FALSE}, denyIncoming : {FALSE}]
    \cup [sockets : {<<"inout">>}, ifName : {TRUE}, dynamicMode : BOOLEAN, denyIncoming : {TRUE}]

TwoAddresses == {1, 2}

=============================================================================
