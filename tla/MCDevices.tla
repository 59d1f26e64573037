------------------------------ MODULE MCDevices ------------------------------
(***************************************************************************)
(* Devices with the loopback and two Ethernet devices.  The static screen  *)
(* offers two complete configurations with different gateways, and one     *)
(* with the address and the gateway left out.                              *)
(***************************************************************************)
EXTENDS Devices, TLC

MCWord == {"ip1", "ip2", "mask", "gw", "gw2"}
MCTyped == {[ip |-> "ip1", netmask |-> "mask", gateway |-> "gw"],
            [ip |-> "ip2", netmask |-> "mask", gateway |-> "gw2"],
            [ip |-> "", netmask |-> "mask", gateway |-> ""]}
MCDefault == [ip |-> "ip1", netmask |-> "mask", gateway |-> ""]
MCQuick == {{}, Device}

Interchangeable == Permutations(Device \ {Lo})

=============================================================================
