------------------------------- MODULE Devices -------------------------------
(***************************************************************************)
(* Network devices: the device database /etc/devices.db and the screens    *)
(* that edit it (closedbsd/config/db.c, devices.c, ifcon.c), what they do  *)
(* to the kernel's addresses and default route, the dhclient daemons they  *)
(* start, and the boot code that rebuilds all of it from the database      *)
(* (closedbsd/init/devices.c).                                             *)
(*                                                                         *)
(* db is the btree in key order: ids are 0, 1, .., so the record of id i   *)
(* is db[i + 1].  Addresses are opaque words; gateways are taken to be     *)
(* reachable.                                                              *)
(***************************************************************************)
EXTENDS Integers, Sequences

CONSTANTS
    Device,     \* network devices, as ifs.sh lists them
    Lo,         \* the loopback device, which the CD's database configures
    Word,       \* addresses and netmasks that can be typed
    Empty,      \* an empty field; also "no address" and "no default route"
    Typed,      \* contents of the static screen: ip, netmask and gateway
    Default,    \* the loopback's part of the CD's database
    Leased,     \* the address, the netmask and
    Router,     \*   the router that a DHCP server hands out
    Class,      \* the netmask that the class of an address implies
    Quick,      \* sets of devices that may get their lease while dhclient starts
    MaxRecords  \* bound: the database is not grown beyond this many records

Screen == [ip : Word \cup {Empty}, netmask : Word \cup {Empty},
           gateway : Word \cup {Empty}]

ASSUME DeviceAssumption == Lo \in Device /\ {} \in Quick /\ Quick \subseteq SUBSET Device

\* The words that are no operator's input stand for nothing he can type.
ASSUME WordAssumption ==
    /\ Empty \notin Word /\ Empty \notin {Leased, Router, Class}
    /\ Leased \notin Word
    /\ Typed \subseteq Screen
    /\ Default \in [ip : Word, netmask : Word, gateway : {Empty}]

VARIABLES
    db,     \* records of /etc/devices.db
    conf,   \* the device that /etc/dhclient.conf names: at most one
    net     \* addresses, default route and dhclient daemons

vars == <<db, conf, net>>

Record == [device : Device, ip : Word \cup {Empty}, netmask : Word \cup {Empty},
           gateway : Word \cup {Empty}, ext : BOOLEAN, dhcp : BOOLEAN]

StaticRecord(d, t, ext) ==
    [device |-> d, ip |-> t.ip, netmask |-> t.netmask, gateway |-> t.gateway,
     ext |-> ext, dhcp |-> FALSE]

\* Mutant: the addresses are not cleared.
MutDhcpRecord(d) ==
    [device |-> d, ip |-> "stack", netmask |-> "stack", gateway |-> "stack",
     ext |-> TRUE, dhcp |-> TRUE]

\* A DHCP record has no addresses, and is external whether or not another is.
DhcpRecord(d) ==
    [device |-> d, ip |-> Empty, netmask |-> Empty, gateway |-> Empty,
     ext |-> TRUE, dhcp |-> TRUE]

\* The database on the CD configures the loopback device, under id 0.
Defaults == [db |-> <<StaticRecord(Lo, Default, FALSE)>>, conf |-> {}]

-----------------------------------------------------------------------------
(* Lookups: the first record, in key order, that fits *)

Records(d) == {i \in DOMAIN db : db[i].device = d}
Externals(s) == {i \in DOMAIN s : s[i].ext}
First(S) == CHOOSE i \in S : \A j \in S : i <= j

\* device_exist() and ext_exist() answer -1 where these are false.
DeviceExist(d) == Records(d) # {}
ExtExist == Externals(db) # {}

-----------------------------------------------------------------------------
(* Commands, as functions of the network state *)

NoAddress == [ip |-> Empty, netmask |-> Empty]
Lease == [ip |-> Leased, netmask |-> Leased]
Fresh == [addr |-> [d \in Device |-> NoAddress],
          dhclient |-> [d \in Device |-> "off"],
          route |-> Empty]

Address(n, d, ip, netmask) ==
    [n EXCEPT !.addr[d] = [ip |-> ip, netmask |-> netmask]]

\* "ifconfig dev ip netmask" without the keyword: ifconfig takes the first word
\* for the address and the second for a destination or broadcast address.
IfconfigNow(n, r) ==
    CASE r.ip # Empty -> Address(n, r.device, r.ip, Class)
      [] r.ip = Empty /\ r.netmask # Empty ->
            Address(n, r.device, r.netmask, Class)
      [] OTHER -> n

\* Mutant: the two arguments are swapped.
MutIfconfigBoot(n, r) ==
    IF r.netmask = Empty \/ r.ip = Empty THEN n
    ELSE Address(n, r.device, r.netmask, r.ip)

\* "ifconfig dev ip netmask mask": nothing is set if the mask is missing.
IfconfigBoot(n, r) ==
    CASE r.netmask = Empty -> n
      [] r.netmask # Empty /\ r.ip # Empty ->
            Address(n, r.device, r.ip, r.netmask)
      [] r.netmask # Empty /\ r.ip = Empty ->
            IF n.addr[r.device].ip = Empty THEN n
            ELSE Address(n, r.device, n.addr[r.device].ip, r.netmask)

\* dhclient on the devices S, of which those in up get their lease before the
\* command returns: PREINIT clears the address, BOUND sets address and route.
Dhclient(n, S, up) ==
    [addr |-> [d \in Device |-> CASE d \in S \cap up -> Lease
                                  [] d \in S \ up    -> NoAddress
                                  [] OTHER           -> n.addr[d]],
     dhclient |-> [d \in Device |-> CASE d \in S \cap up -> "bound"
                                      [] d \in S \ up    -> "asking"
                                      [] OTHER           -> n.dhclient[d]],
     route |-> IF S \cap up # {} /\ n.route = Empty THEN Router ELSE n.route]

\* Mutant: a record of the external device gets its route, and no address.
MutInsertDevice(n, r, c, up) ==
    CASE r.dhcp           -> Dhclient(n, {r.device} \cup c, up)
      [] ~r.dhcp /\ r.ext -> [n EXCEPT !.route = r.gateway]
      [] OTHER            -> IfconfigNow(n, r)

\* What insert_device(r) does besides storing r.  dhclient reads its
\* configuration c, and serves the devices named there as well.
InsertDevice(n, r, c, up) ==
    CASE r.dhcp           -> Dhclient(n, {r.device} \cup c, up)
      [] ~r.dhcp /\ r.ext -> [IfconfigNow(n, r) EXCEPT !.route = r.gateway]
      [] OTHER            -> IfconfigNow(n, r)

-----------------------------------------------------------------------------
(* The screens *)

\* Mutant: the record replaces the one the device has.
MutDhcpConfig(d, host, up) ==
    /\ Len(db) < MaxRecords
    /\ conf' = IF host THEN {d} ELSE conf
    /\ db' = IF DeviceExist(d)
             THEN [db EXCEPT ![First(Records(d))] = DhcpRecord(d)]
             ELSE Append(db, DhcpRecord(d))
    /\ net' = InsertDevice(net, DhcpRecord(d), conf', up)

\* dev_config(), "Should this device use DHCP?" Yes, and perhaps a host name.
DhcpConfig(d, host, up) ==
    /\ Len(db) < MaxRecords
    /\ conf' = IF host THEN {d} ELSE conf
    /\ db' = Append(db, DhcpRecord(d))
    /\ net' = InsertDevice(net, DhcpRecord(d), conf', up)

\* Mutant: an empty gateway is asked about as well.
MutAnswers(gateway) ==
    {a \in [id : 0..Len(db), ext : BOOLEAN, overwrite : BOOLEAN] :
        /\ a.overwrite => ExtExist
        /\ ~a.overwrite => a.id = 0
        /\ a.ext => a.overwrite \/ ~ExtExist}

\* What ifs_cfg() knows after its questions about the default gateway: d.ext, and
\* the record whose external mark unset_ext() removes, 0 for none.  When the
\* operator overwrites the default gateway, unset_ext() gets an id nobody set, and
\* d.ext stays what it happened to be.
Answers(gateway) ==
    {a \in [id : 0..Len(db), ext : BOOLEAN, overwrite : BOOLEAN] :
        /\ a.overwrite => gateway # Empty /\ ExtExist
        /\ ~a.overwrite => a.id = 0
        /\ a.ext => gateway # Empty /\ (a.overwrite \/ ~ExtExist)}

\* unset_ext(), which stores the record again and so repeats its commands.
Unset(id) == IF id = 0 THEN db ELSE [db EXCEPT ![id].ext = FALSE]
AfterUnset(id, up) ==
    IF id = 0 THEN net ELSE InsertDevice(net, Unset(id)[id], conf, up)

\* dhclient is run again only for a DHCP record.
Rerun(id) == {up \in Quick : id = 0 \/ ~db[id].dhcp => up = {}}

\* Mutant: the new record is stored under the id of the last one.
MutNewStatic(d, t, a, up) ==
    /\ ~DeviceExist(d)
    /\ Len(db) < MaxRecords
    /\ db' = [Unset(a.id) EXCEPT ![Len(db)] = StaticRecord(d, t, a.ext)]
    /\ net' = InsertDevice(AfterUnset(a.id, up), StaticRecord(d, t, a.ext), conf, up)
    /\ UNCHANGED conf

\* OK in the static screen, for a device that is not in the database.
NewStatic(d, t, a, up) ==
    /\ ~DeviceExist(d)
    /\ Len(db) < MaxRecords
    /\ db' = Append(Unset(a.id), StaticRecord(d, t, a.ext))
    /\ net' = InsertDevice(AfterUnset(a.id, up), StaticRecord(d, t, a.ext), conf, up)
    /\ UNCHANGED conf

\* "This device is already configured. Overwrite?" Yes.
Overwrite(d, t, a, up) ==
    /\ DeviceExist(d)
    /\ db' = [Unset(a.id) EXCEPT ![First(Records(d))] = StaticRecord(d, t, a.ext)]
    /\ net' = InsertDevice(AfterUnset(a.id, up), StaticRecord(d, t, a.ext), conf, up)
    /\ UNCHANGED conf

\* "Overwrite?" No: what unset_ext() did stays done.
Decline(d, a, up) ==
    /\ DeviceExist(d)
    /\ db' = Unset(a.id)
    /\ net' = AfterUnset(a.id, up)
    /\ UNCHANGED conf

StaticConfig(d, t, a, up) ==
    NewStatic(d, t, a, up) \/ Overwrite(d, t, a, up) \/ Decline(d, a, up)

-----------------------------------------------------------------------------
(* Boot *)

\* Mutant: the default route is replaced, as insert_device() does.
MutBootDevice(n, r, i, c, up) ==
    IF i > 1 /\ r.dhcp
    THEN Dhclient(n, IF c = {} THEN {r.device} ELSE c, up)
    ELSE [IfconfigBoot(n, r) EXCEPT
            !.route = IF r.ext /\ r.gateway # Empty THEN r.gateway ELSE @]

\* Mutant: every record is handled as that of id 0.
MutBootStatic(n, r, i, c, up) ==
    [IfconfigBoot(n, r) EXCEPT
        !.route = IF r.ext /\ r.gateway # Empty /\ @ = Empty
                  THEN r.gateway ELSE @]

\* config_devices() on the i-th record.  "dhclient -cf file" serves the devices
\* the file names; id 0 is taken for static; "route add" keeps a route there is.
BootDevice(n, r, i, c, up) ==
    IF i > 1 /\ r.dhcp
    THEN Dhclient(n, IF c = {} THEN {r.device} ELSE c, up)
    ELSE [IfconfigBoot(n, r) EXCEPT
            !.route = IF r.ext /\ r.gateway # Empty /\ @ = Empty
                      THEN r.gateway ELSE @]

ConfigDevices(files, up) ==
    LET after[i \in 0..Len(files.db)] ==
            IF i = 0 THEN Fresh
            ELSE BootDevice(after[i - 1], files.db[i], i, files.conf, up)
    IN  after[Len(files.db)]

\* A reboot with the files of the archive or of the CD.  An archive holds what
\* /etc held when it was saved, and booting forgets all the rest, so an old
\* archive leads nowhere that importing the present files did not lead then.
Boot(files, up) ==
    /\ db' = files.db
    /\ conf' = files.conf
    /\ net' = ConfigDevices(files, up)

-----------------------------------------------------------------------------
(* The dhclient daemons: /sbin/dhclient-script when a server answers later, *)
(* when a lease is renewed with another address, and when it runs out       *)

Bound(d) ==
    /\ net.dhclient[d] = "asking"
    /\ net' = [net EXCEPT !.addr[d] = Lease, !.dhclient[d] = "bound",
                          !.route = IF @ = Empty THEN Router ELSE @]
    /\ UNCHANGED <<db, conf>>

\* The default route is deleted, whoever set it, and added again.
Rebind(d) ==
    /\ net.dhclient[d] = "bound"
    /\ net' = [net EXCEPT !.addr[d] = Lease, !.route = Router]
    /\ UNCHANGED <<db, conf>>

\* "ifconfig -alias" removes the leased address only.
Expire(d) ==
    /\ net.dhclient[d] = "bound"
    /\ net' = [net EXCEPT !.addr[d] = IF @ = Lease THEN NoAddress ELSE @,
                          !.dhclient[d] = "asking",
                          !.route = Empty]
    /\ UNCHANGED <<db, conf>>

-----------------------------------------------------------------------------
Init ==
    /\ db = Defaults.db
    /\ conf = Defaults.conf
    /\ net = ConfigDevices(Defaults, {})

Next ==
    \/ \E d \in Device, host \in BOOLEAN, up \in Quick : DhcpConfig(d, host, up)
    \/ \E d \in Device, t \in Typed : \E a \in Answers(t.gateway) :
        \E up \in Rerun(a.id) : StaticConfig(d, t, a, up)
    \/ \E files \in {[db |-> db, conf |-> conf], Defaults} :
        \E up \in Quick : Boot(files, up)
    \/ \E d \in Device : Bound(d) \/ Rebind(d) \/ Expire(d)

Spec == Init /\ [][Next]_vars

-----------------------------------------------------------------------------
(* Properties *)

\* Type invariant.
Words == Word \cup {Empty, Leased, Router, Class}

Network == [addr : [Device -> [ip : Words, netmask : Words]],
            dhclient : [Device -> {"off", "asking", "bound"}],
            route : Words]

TypeOK ==
    /\ db \in Seq(Record)
    /\ conf \in SUBSET Device
    /\ net \in Network

\* The record of id 0 is always that of the loopback device, and static: init
\* configures id 0 without looking at its dhcp flag (init/devices.c:33), and the
\* screens never put a DHCP record there.
LoopbackFirst ==
    Len(db) >= 1 /\ db[1].device = Lo /\ ~db[1].dhcp

\* A static record that is marked external has a gateway, so insert_device(),
\* which does not look (db.c:33-41), deletes no default route without adding one.
ExternalHasGateway ==
    \A i \in Externals(db) : ~db[i].dhcp => db[i].gateway # Empty

\* The address a static device was given is in force, after any history of edits,
\* reboots and other devices' leases, if no dhclient was ever left on it and it has
\* one complete record.
StaticInForce ==
    \A i \in DOMAIN db :
        LET r == db[i] IN
            /\ Records(r.device) = {i} /\ ~r.dhcp
            /\ net.dhclient[r.device] = "off"
            /\ r.ip # Empty /\ r.netmask # Empty
            => net.addr[r.device].ip = r.ip

\* A screen never loses a record, never gives one to another device, and changes
\* the addresses of at most one; the others can only lose their external mark.  Only
\* booting with the CD's files undoes that.
Unmarked(r) == [r EXCEPT !.ext = FALSE]

RecordsStay ==
    [][db' # db /\ db' # Defaults.db =>
        /\ \A i \in DOMAIN db : i \in DOMAIN db' /\ db'[i].device = db[i].device
        /\ \A i, j \in DOMAIN db :
            Unmarked(db'[i]) # Unmarked(db[i]) /\ Unmarked(db'[j]) # Unmarked(db[j])
                => i = j]_vars

\* The default route after a boot without DHCP is the gateway of the device that
\* dev_ext() names, the one NAT uses.
BootRoutesThroughExternal ==
    [][\A files \in {[db |-> db, conf |-> conf], Defaults} :
        (\A i \in DOMAIN files.db : ~files.db[i].dhcp)
            /\ (\E up \in Quick : Boot(files, up))
        => net'.route = IF Externals(files.db) = {} THEN Empty
                        ELSE files.db[First(Externals(files.db))].gateway]_vars

\* Without a dhclient.conf, a boot starts dhclient on every device that has a DHCP
\* record.
BootStartsDhcp ==
    [][\A files \in {[db |-> db, conf |-> conf], Defaults} :
        files.conf = {} /\ (\E up \in Quick : Boot(files, up))
        => \A i \in DOMAIN files.db : files.db[i].dhcp =>
                net'.dhclient[files.db[i].device] # "off"]_vars

-----------------------------------------------------------------------------
(* What the program says of itself, and does not do *)

\* "This device is already configured. Overwrite?" (ifcon.c:272) Yes, with a static
\* configuration: no configuration that uses DHCP is left.
OverwriteReplaces ==
    [][\A d \in Device, up \in Quick, t \in Typed :
        \A a \in Answers(t.gateway) : Overwrite(d, t, a, up) =>
            \A i \in DOMAIN db' : db'[i].device = d => ~db'[i].dhcp]_vars

\* "You already have a default gateway set. Overwrite?" (ifcon.c:247) Yes: the new
\* gateway is the default gateway.
GatewayOverwritten ==
    [][\A d \in Device, up \in Quick, t \in Typed :
        \A a \in Answers(t.gateway) :
            a.overwrite /\ NewStatic(d, t, a, up) => net'.route = t.gateway]_vars

=============================================================================
