---------------------------- MODULE DevicesProofs ----------------------------
(***************************************************************************)
(* Proofs about the device database: type correctness, the invariants of   *)
(* the records, and that the addresses in the database are in force.       *)
(***************************************************************************)
EXTENDS Devices, WellFoundedInduction, SequenceTheorems, TLAPS

-----------------------------------------------------------------------------
(* Induction over the natural numbers without an operator parameter: a      *)
(* nonempty set of numbers has a least element, hence a set of              *)
(* counterexamples without a least element is empty.                        *)

\* The least-number principle, for sets.
LEMMA LeastNumber ==
    ASSUME NEW T, T \subseteq Nat, T # {}
    PROVE  \E m \in T : \A k \in T : m <= k
<1> DEFINE R == {ss \in Nat \X Nat : ss[1] < ss[2]}
<1>1. IsWellFoundedOn(R, Nat)
  BY NatLessThanWellFounded DEF OpToRel
<1>2. PICK m \in T : \A k \in T : <<k, m>> \notin R
  <2> HIDE DEF R
  <2> QED BY <1>1, WFMin
<1>3. \A k \in T : ~(k < m)
  BY <1>2
<1> QED BY <1>3

\* Induction on a set G of numbers ("the good ones") up to n.
LEMMA InductionUpTo ==
    ASSUME NEW n \in Nat, NEW G, 0 \in G,
           \A i \in 1..n : i - 1 \in G => i \in G
    PROVE  \A i \in 0..n : i \in G
<1> DEFINE T == {i \in 0..n : i \notin G}
<1>1. SUFFICES ASSUME T # {} PROVE FALSE
  OBVIOUS
<1>2. PICK m \in T : \A k \in T : m <= k
  <2>1. T \subseteq Nat
    OBVIOUS
  <2> HIDE DEF T
  <2> QED BY <1>1, <2>1, LeastNumber
<1>3. m \in 1..n /\ m - 1 \in 0..n
  OBVIOUS
<1>4. m - 1 \in G
  BY <1>2, <1>3
<1> QED BY <1>3, <1>4

-----------------------------------------------------------------------------
(* Types of the commands *)

LEMMA FreshType == Fresh \in Network
BY DEF Fresh, Network, NoAddress, Words

LEMMA AddressType ==
    ASSUME NEW n \in Network, NEW d \in Device, NEW ip \in Words, NEW m \in Words
    PROVE  Address(n, d, ip, m) \in Network
BY DEF Address, Network

LEMMA IfconfigType ==
    ASSUME NEW n \in Network, NEW r \in Record
    PROVE  IfconfigNow(n, r) \in Network /\ IfconfigBoot(n, r) \in Network
<1>1. /\ r.device \in Device /\ r.ip \in Words /\ r.netmask \in Words
      /\ n.addr[r.device].ip \in Words /\ Class \in Words
  BY DEF Record, Network, Words
<1> QED BY <1>1, AddressType DEF IfconfigNow, IfconfigBoot

LEMMA DhclientType ==
    ASSUME NEW n \in Network, NEW S, NEW up
    PROVE  Dhclient(n, S, up) \in Network
<1>1. Lease \in [ip : Words, netmask : Words] /\ NoAddress \in [ip : Words, netmask : Words]
  BY DEF Lease, NoAddress, Words
<1>2. Router \in Words
  BY DEF Words
<1> QED BY <1>1, <1>2 DEF Dhclient, Network

LEMMA RouteType ==
    ASSUME NEW n \in Network, NEW g \in Words
    PROVE  [n EXCEPT !.route = g] \in Network
BY DEF Network

LEMMA InsertType ==
    ASSUME NEW n \in Network, NEW r \in Record, NEW c, NEW up
    PROVE  InsertDevice(n, r, c, up) \in Network
<1>1. r.gateway \in Words /\ r.dhcp \in BOOLEAN /\ r.ext \in BOOLEAN
  BY DEF Record, Words
<1> QED BY <1>1, IfconfigType, DhclientType, RouteType DEF InsertDevice

LEMMA BootDeviceType ==
    ASSUME NEW n \in Network, NEW r \in Record, NEW i, NEW c, NEW up
    PROVE  BootDevice(n, r, i, c, up) \in Network
<1> DEFINE m == IfconfigBoot(n, r)
           g == IF r.ext /\ r.gateway # Empty /\ m.route = Empty
                THEN r.gateway ELSE m.route
<1>1. m \in Network
  BY IfconfigType
<1>2. g \in Words
  BY <1>1 DEF Network, Record, Words
<1>3. [m EXCEPT !.route = g] \in Network
  BY <1>1, <1>2, RouteType
<1> QED BY <1>3, DhclientType DEF BootDevice

-----------------------------------------------------------------------------
(* config_devices, the recursive definition *)

\* g gives the network after each prefix of the records of f.
IsRun(f, up, n, g) ==
    g = [i \in 0..n |-> IF i = 0 THEN Fresh
                        ELSE BootDevice(g[i - 1], f.db[i], i, f.conf, up)]

LEMMA RunExists ==
    ASSUME NEW f, NEW up, NEW n \in Nat
    PROVE  \E g : IsRun(f, up, n, g)
<1> DEFINE G == {k \in Nat : \E g : IsRun(f, up, k, g)}
<1>1. 0 \in G
  <2> DEFINE g == [i \in 0..0 |-> Fresh]
  <2>1. g = [i \in 0..0 |-> IF i = 0 THEN Fresh
                            ELSE BootDevice(g[i - 1], f.db[i], i, f.conf, up)]
    OBVIOUS
  <2> QED BY <2>1 DEF IsRun
<1>2. ASSUME NEW k \in 1..n, k - 1 \in G PROVE k \in G
  <2>1. PICK g : IsRun(f, up, k - 1, g)
    BY <1>2
  <2>2. \A i \in 0..(k - 1) : 
            g[i] = IF i = 0 THEN Fresh
                   ELSE BootDevice(g[i - 1], f.db[i], i, f.conf, up)
    BY <2>1 DEF IsRun
  <2> DEFINE h == [i \in 0..k |-> IF i = k 
                        THEN BootDevice(g[k - 1], f.db[k], k, f.conf, up) ELSE g[i]]
             u == [i \in 0..k |-> IF i = 0 THEN Fresh
                        ELSE BootDevice(h[i - 1], f.db[i], i, f.conf, up)]
  <2>3. ASSUME NEW i \in 0..k PROVE h[i] = u[i]
    <3>1. CASE i = k
      BY <3>1
    <3>2. CASE i # k
      BY <2>2, <3>2
    <3> QED BY <3>1, <3>2
  <2>4. h = u
    <3>1. DOMAIN h = DOMAIN u
      OBVIOUS
    <3> QED BY <2>3, <3>1
  <2> HIDE DEF h
  <2>5. IsRun(f, up, k, h)
    BY <2>4 DEF IsRun
  <2>6. k \in Nat
    OBVIOUS
  <2> QED BY <2>5, <2>6
<1> HIDE DEF G
<1>3. \A i \in 0..n : i \in G
  BY <1>1, <1>2, InductionUpTo
<1>4. n \in G
  BY <1>3
<1> QED BY <1>4 DEF G

LEMMA ConfigRun ==
    ASSUME NEW f, NEW up, f.db \in Seq(Record)
    PROVE  \E g : /\ IsRun(f, up, Len(f.db), g)
                  /\ ConfigDevices(f, up) = g[Len(f.db)]
<1> DEFINE c == CHOOSE g : IsRun(f, up, Len(f.db), g)
<1>1. IsRun(f, up, Len(f.db), c)
  <2>1. Len(f.db) \in Nat
    OBVIOUS
  <2>2. \E g : IsRun(f, up, Len(f.db), g)
    BY <2>1, RunExists
  <2> QED BY <2>2
<1>2. ConfigDevices(f, up) = c[Len(f.db)]
  BY DEF ConfigDevices, IsRun
<1> QED BY <1>1, <1>2

LEMMA ConfigType ==
    ASSUME NEW f, NEW up, f.db \in Seq(Record)
    PROVE  ConfigDevices(f, up) \in Network
<1> DEFINE n == Len(f.db)
<1>1. PICK g : IsRun(f, up, n, g) /\ ConfigDevices(f, up) = g[n]
  BY ConfigRun
<1>2. n \in Nat /\ \A i \in 1..n : f.db[i] \in Record
  OBVIOUS
<1>3. \A i \in 0..n : g[i] = IF i = 0 THEN Fresh
                             ELSE BootDevice(g[i - 1], f.db[i], i, f.conf, up)
  BY <1>1 DEF IsRun
<1> DEFINE G == {i \in 0..n : g[i] \in Network}
<1>4. 0 \in G
  BY <1>2, <1>3, FreshType
<1>5. ASSUME NEW i \in 1..n, i - 1 \in G PROVE i \in G
  <2>1. i \in 0..n /\ i # 0 /\ g[i - 1] \in Network
    BY <1>2, <1>5
  <2>2. g[i] = BootDevice(g[i - 1], f.db[i], i, f.conf, up)
    BY <1>3, <2>1
  <2> QED BY <1>2, <2>1, <2>2, BootDeviceType
<1>6. \A i \in 0..n : i \in G
  <2> HIDE DEF G
  <2> QED BY <1>2, <1>4, <1>5, InductionUpTo
<1> QED BY <1>1, <1>2, <1>6

-----------------------------------------------------------------------------
(* Types of the records *)

LEMMA DefaultsType ==
    /\ Defaults.db \in Seq(Record) /\ Defaults.conf \in SUBSET Device
    /\ Len(Defaults.db) = 1
    /\ Defaults.db[1] = StaticRecord(Lo, Default, FALSE)
<1> DEFINE r == StaticRecord(Lo, Default, FALSE)
<1>1. r \in Record
  BY DeviceAssumption, WordAssumption DEF StaticRecord, Record
<1>2. Defaults.db = <<r>> /\ Defaults.conf = {}
  BY DEF Defaults
<1> HIDE DEF r
<1>3. <<r>> \in Seq(Record) /\ Len(<<r>>) = 1 /\ <<r>>[1] = r
  BY <1>1
<1> QED BY <1>2, <1>3 DEF r

LEMMA ScreenRecords ==
    ASSUME NEW d \in Device, NEW t \in Typed, NEW e \in BOOLEAN
    PROVE  StaticRecord(d, t, e) \in Record /\ DhcpRecord(d) \in Record
<1>1. t \in Screen
  BY WordAssumption
<1> QED BY <1>1 DEF StaticRecord, DhcpRecord, Record, Screen

\* The answers name a record or none, and mark a record external only if it has a
\* gateway.
LEMMA AnswerType ==
    ASSUME TypeOK, NEW g, NEW a \in Answers(g)
    PROVE  /\ a.id \in 0..Len(db) /\ a.ext \in BOOLEAN
           /\ a.ext => g # Empty
BY DEF Answers

\* unset_ext() takes the external mark of one record and changes nothing else.
LEMMA UnsetKeeps ==
    ASSUME TypeOK, NEW id \in 0..Len(db)
    PROVE  /\ Unset(id) \in Seq(Record) /\ Len(Unset(id)) = Len(db)
           /\ \A i \in 1..Len(db) :
                /\ i # id => Unset(id)[i] = db[i]
                /\ i = id => Unset(id)[i] = [db[i] EXCEPT !.ext = FALSE]
<1>1. db \in Seq(Record) /\ Len(db) \in Nat
  BY DEF TypeOK
<1>2. CASE id = 0
  BY <1>1, <1>2 DEF Unset
<1>3. CASE id # 0
  <2>1. id \in 1..Len(db) /\ db[id] \in Record
    BY <1>1, <1>3
  <2>2. [db[id] EXCEPT !.ext = FALSE] \in Record
    BY <2>1 DEF Record
  <2> DEFINE r == [db[id] EXCEPT !.ext = FALSE]
  <2>3. Unset(id) = [db EXCEPT ![id] = r]
    BY <1>3 DEF Unset
  <2>4. r \in Record
    BY <2>2
  <2> HIDE DEF r
  <2>5. /\ Unset(id) \in Seq(Record) /\ Len(Unset(id)) = Len(db)
        /\ \A i \in 1..Len(db) : Unset(id)[i] = IF i = id THEN r ELSE db[i]
    BY <1>1, <2>1, <2>3, <2>4
  <2> QED BY <2>5 DEF r
<1> QED BY <1>2, <1>3

LEMMA AfterUnsetType ==
    ASSUME TypeOK, NEW id \in 0..Len(db), NEW up
    PROVE  AfterUnset(id, up) \in Network
<1>1. id # 0 => Unset(id)[id] \in Record
  BY UnsetKeeps DEF TypeOK
<1> QED BY <1>1, InsertType DEF AfterUnset, TypeOK

LEMMA FirstRecord ==
    ASSUME TypeOK, NEW d, DeviceExist(d)
    PROVE  First(Records(d)) \in 1..Len(db) /\ db[First(Records(d))].device = d
<1>1. Records(d) \subseteq Nat /\ Records(d) # {}
  BY DEF Records, DeviceExist, TypeOK
<1>2. \E m \in Records(d) : \A k \in Records(d) : m <= k
  BY <1>1, LeastNumber
<1>3. First(Records(d)) \in Records(d)
  BY <1>2 DEF First
<1> QED BY <1>3 DEF Records, TypeOK

-----------------------------------------------------------------------------
(* What a screen stores *)

\* The database t is s with the record r stored at k: over a record of the same
\* device, or as a new last record.
Stored(s, t, k, r) ==
    /\ s \in Seq(Record) /\ r \in Record /\ k \in Nat
    /\ \/ k \in 1..Len(s) /\ s[k].device = r.device /\ t = [s EXCEPT ![k] = r]
       \/ k = Len(s) + 1 /\ t = Append(s, r)

LEMMA StoredKeeps ==
    ASSUME NEW s, NEW t, NEW k, NEW r, Stored(s, t, k, r)
    PROVE  /\ t \in Seq(Record)
           /\ Len(s) \in Nat /\ Len(t) \in Nat
           /\ 1..Len(s) \subseteq 1..Len(t)
           /\ 1..Len(t) \subseteq 1..Len(s) \cup {k}
           /\ k \in 1..Len(t) /\ t[k] = r
           /\ \A i \in 1..Len(s) : i # k => t[i] = s[i]
           /\ k \in 1..Len(s) => s[k].device = r.device
<1>1. CASE k \in 1..Len(s) /\ s[k].device = r.device /\ t = [s EXCEPT ![k] = r]
  BY <1>1 DEF Stored
<1>2. CASE k = Len(s) + 1 /\ t = Append(s, r)
  BY <1>2 DEF Stored
<1> QED BY <1>1, <1>2 DEF Stored

\* Every screen stores at most two records, that of unset_ext() and its own.
LEMMA DhcpStores ==
    ASSUME TypeOK, NEW d \in Device, NEW host \in BOOLEAN, NEW up,
           DhcpConfig(d, host, up)
    PROVE  Stored(db, db', Len(db) + 1, DhcpRecord(d))
<1>1. DhcpRecord(d) \in Record
  BY DEF DhcpRecord, Record
<1> QED BY <1>1 DEF DhcpConfig, Stored, TypeOK

LEMMA UnsetStores ==
    ASSUME TypeOK, NEW id \in 1..Len(db)
    PROVE  Stored(db, Unset(id), id, Unset(id)[id])
<1>1. db \in Seq(Record) /\ Len(db) \in Nat /\ id \in Nat /\ db[id] \in Record
  BY DEF TypeOK
<1>2. Unset(id) = [db EXCEPT ![id] = [db[id] EXCEPT !.ext = FALSE]]
  BY <1>1 DEF Unset
<1>3. [db[id] EXCEPT !.ext = FALSE] \in Record
  BY <1>1 DEF Record
<1>4. [db[id] EXCEPT !.ext = FALSE].device = db[id].device
  BY <1>1 DEF Record
<1>5. Unset(id)[id] = [db[id] EXCEPT !.ext = FALSE]
  BY UnsetKeeps
<1> QED BY <1>1, <1>2, <1>3, <1>4, <1>5 DEF Stored

LEMMA NewStaticStores ==
    ASSUME TypeOK, NEW d \in Device, NEW t \in Typed, NEW a \in Answers(t.gateway),
           NEW up, NewStatic(d, t, a, up)
    PROVE  Stored(Unset(a.id), db', Len(db) + 1, StaticRecord(d, t, a.ext))
<1>1. a.id \in 0..Len(db) /\ a.ext \in BOOLEAN
  BY AnswerType
<1>2. Unset(a.id) \in Seq(Record) /\ Len(Unset(a.id)) = Len(db)
  BY <1>1, UnsetKeeps
<1>3. StaticRecord(d, t, a.ext) \in Record
  BY <1>1, ScreenRecords
<1> QED BY <1>2, <1>3 DEF NewStatic, Stored, TypeOK

LEMMA OverwriteStores ==
    ASSUME TypeOK, NEW d \in Device, NEW t \in Typed, NEW a \in Answers(t.gateway),
           NEW up, Overwrite(d, t, a, up)
    PROVE  Stored(Unset(a.id), db', First(Records(d)), StaticRecord(d, t, a.ext))
<1>1. a.id \in 0..Len(db) /\ a.ext \in BOOLEAN
  BY AnswerType
<1>2. /\ Unset(a.id) \in Seq(Record) /\ Len(Unset(a.id)) = Len(db)
      /\ \A i \in 1..Len(db) : Unset(a.id)[i].device = db[i].device
  <2>1. \A i \in 1..Len(db) : db[i] \in Record
    BY DEF TypeOK
  <2>2. ASSUME NEW i \in 1..Len(db) PROVE Unset(a.id)[i].device = db[i].device
    <3>1. [db[i] EXCEPT !.ext = FALSE].device = db[i].device
      BY <2>1 DEF Record
    <3> QED BY <1>1, <3>1, UnsetKeeps
  <2> QED BY <1>1, <2>2, UnsetKeeps
<1>3. StaticRecord(d, t, a.ext) \in Record /\ StaticRecord(d, t, a.ext).device = d
  BY <1>1, ScreenRecords DEF StaticRecord
<1>4. First(Records(d)) \in 1..Len(db) /\ db[First(Records(d))].device = d
  BY FirstRecord DEF Overwrite
<1>5. First(Records(d)) \in Nat /\ First(Records(d)) \in 1..Len(Unset(a.id))
  BY <1>2, <1>4 DEF TypeOK
<1>6. db' = [Unset(a.id) EXCEPT ![First(Records(d))] = StaticRecord(d, t, a.ext)]
  BY DEF Overwrite
<1> QED BY <1>2, <1>3, <1>4, <1>5, <1>6 DEF Stored

-----------------------------------------------------------------------------
(* Type correctness *)

LEMMA TypeInit == Init => TypeOK
<1> SUFFICES ASSUME Init PROVE TypeOK
  OBVIOUS
<1>1. db \in Seq(Record) /\ conf \in SUBSET Device
  BY DefaultsType DEF Init
<1>2. net \in Network
  BY DefaultsType, ConfigType DEF Init
<1> QED BY <1>1, <1>2 DEF TypeOK

LEMMA TypeStep == TypeOK /\ [Next]_vars => TypeOK'
<1> SUFFICES ASSUME TypeOK, [Next]_vars PROVE TypeOK'
  OBVIOUS
<1>1. ASSUME NEW d \in Device, NEW host \in BOOLEAN, NEW up \in Quick,
             DhcpConfig(d, host, up)
      PROVE  TypeOK'
  <2>1. db' \in Seq(Record)
    BY <1>1, DhcpStores, StoredKeeps
  <2>2. conf' \in SUBSET Device
    BY <1>1 DEF DhcpConfig, TypeOK
  <2>3. DhcpRecord(d) \in Record
    BY DEF DhcpRecord, Record
  <2>4. net' \in Network
    BY <1>1, <2>3, InsertType DEF DhcpConfig, TypeOK
  <2> QED BY <2>1, <2>2, <2>4 DEF TypeOK
<1>2. ASSUME NEW d \in Device, NEW up \in Quick, NEW t \in Typed,
             NEW a \in Answers(t.gateway), StaticConfig(d, t, a, up)
      PROVE  TypeOK'
  <2>1. a.id \in 0..Len(db) /\ a.ext \in BOOLEAN
    BY AnswerType
  <2>2. StaticRecord(d, t, a.ext) \in Record
    BY <2>1, ScreenRecords
  <2>3. AfterUnset(a.id, up) \in Network
    BY <2>1, AfterUnsetType
  <2>4. InsertDevice(AfterUnset(a.id, up), StaticRecord(d, t, a.ext), conf, up) \in Network
    BY <2>2, <2>3, InsertType
  <2>5. CASE NewStatic(d, t, a, up)
    <3>1. db' \in Seq(Record)
      BY <2>5, NewStaticStores, StoredKeeps
    <3> QED BY <2>4, <2>5, <3>1 DEF NewStatic, TypeOK
  <2>6. CASE Overwrite(d, t, a, up)
    <3>1. db' \in Seq(Record)
      BY <2>6, OverwriteStores, StoredKeeps
    <3> QED BY <2>4, <2>6, <3>1 DEF Overwrite, TypeOK
  <2>7. CASE Decline(d, a, up)
    <3>1. Unset(a.id) \in Seq(Record)
      BY <2>1, UnsetKeeps
    <3> QED BY <2>3, <2>7, <3>1 DEF Decline, TypeOK
  <2> QED BY <1>2, <2>5, <2>6, <2>7 DEF StaticConfig
<1>3. ASSUME NEW files \in {[db |-> db, conf |-> conf], Defaults}, NEW up \in Quick,
             Boot(files, up)
      PROVE  TypeOK'
  <2>1. files.db \in Seq(Record) /\ files.conf \in SUBSET Device
    BY DefaultsType DEF TypeOK
  <2>2. ConfigDevices(files, up) \in Network
    BY <2>1, ConfigType
  <2> QED BY <1>3, <2>1, <2>2 DEF Boot, TypeOK
<1>4. ASSUME NEW d \in Device, Bound(d) \/ Rebind(d) \/ Expire(d)
      PROVE  TypeOK'
  <2>1. /\ Lease \in [ip : Words, netmask : Words]
        /\ NoAddress \in [ip : Words, netmask : Words]
        /\ Router \in Words /\ Empty \in Words
    BY DEF Lease, NoAddress, Words
  <2>2. net \in Network /\ net.route \in Words /\ net.addr[d] \in [ip : Words, netmask : Words]
    BY DEF TypeOK, Network
  <2> DEFINE g == IF net.route = Empty THEN Router ELSE net.route
             x == IF net.addr[d] = Lease THEN NoAddress ELSE net.addr[d]
  <2>3. g \in Words /\ x \in [ip : Words, netmask : Words]
    BY <2>1, <2>2
  <2> HIDE DEF g, x
  <2>4. CASE Bound(d)
    <3>1. net' = [net EXCEPT !.addr[d] = Lease, !.dhclient[d] = "bound", !.route = g]
      BY <2>4, <2>2 DEF Bound, g, Network
    <3>2. net' \in Network
      BY <2>1, <2>2, <2>3, <3>1 DEF Network
    <3> QED BY <2>4, <3>2 DEF Bound, TypeOK
  <2>5. CASE Rebind(d)
    <3>1. net' \in Network
      BY <2>1, <2>2, <2>5 DEF Rebind, Network
    <3> QED BY <2>5, <3>1 DEF Rebind, TypeOK
  <2>6. CASE Expire(d)
    <3>1. net' = [net EXCEPT !.addr[d] = x, !.dhclient[d] = "asking", !.route = Empty]
      BY <2>6, <2>2 DEF Expire, x, Network
    <3>2. net' \in Network
      BY <2>1, <2>2, <2>3, <3>1 DEF Network
    <3> QED BY <2>6, <3>2 DEF Expire, TypeOK
  <2> QED BY <1>4, <2>4, <2>5, <2>6
<1>5. CASE UNCHANGED vars
  BY <1>5 DEF vars, TypeOK
<1> QED BY <1>1, <1>2, <1>3, <1>4, <1>5 DEF Next, Rerun

\* The device code never stores anything that is no record, an address or a
\* network state that is none, or a device dhclient cannot be told about.
THEOREM TypeCorrect == Spec => []TypeOK
<1>1. Init => TypeOK
  BY TypeInit
<1>2. TypeOK /\ [Next]_vars => TypeOK'
  BY TypeStep
<1> QED BY <1>1, <1>2, PTL DEF Spec

-----------------------------------------------------------------------------
(* The records *)

\* A step of the screens, as the records it stores: none, one or two.
LEMMA ScreenStores ==
    ASSUME TypeOK, [Next]_vars,
           ~\E files \in {[db |-> db, conf |-> conf], Defaults}, up \in Quick :
                Boot(files, up)
    PROVE  \/ db' = db
           \/ \E d \in Device : Stored(db, db', Len(db) + 1, DhcpRecord(d))
           \/ \E id \in 0..Len(db) :
                \/ db' = Unset(id)
                \/ \E d \in Device, t \in Typed, e \in BOOLEAN, k \in 1..(Len(db) + 1) :
                      /\ Stored(Unset(id), db', k, StaticRecord(d, t, e))
                      /\ e => t.gateway # Empty
<1>1. ASSUME NEW d \in Device, NEW host \in BOOLEAN, NEW up \in Quick,
             DhcpConfig(d, host, up)
      PROVE  \E x \in Device : Stored(db, db', Len(db) + 1, DhcpRecord(x))
  BY <1>1, DhcpStores
<1>2. ASSUME NEW d \in Device, NEW up \in Quick, NEW t \in Typed,
             NEW a \in Answers(t.gateway), StaticConfig(d, t, a, up)
      PROVE  \E id \in 0..Len(db) :
                \/ db' = Unset(id)
                \/ \E x \in Device, s \in Typed, e \in BOOLEAN, k \in 1..(Len(db) + 1) :
                      /\ Stored(Unset(id), db', k, StaticRecord(x, s, e))
                      /\ e => s.gateway # Empty
  <2>1. a.id \in 0..Len(db) /\ a.ext \in BOOLEAN /\ (a.ext => t.gateway # Empty)
    BY AnswerType
  <2>2. Len(db) \in Nat /\ Len(db) + 1 \in 1..(Len(db) + 1)
    BY DEF TypeOK
  <2>3. CASE NewStatic(d, t, a, up)
    <3>1. Stored(Unset(a.id), db', Len(db) + 1, StaticRecord(d, t, a.ext))
      BY <2>3, NewStaticStores
    <3> QED BY <2>1, <2>2, <3>1
  <2>4. CASE Overwrite(d, t, a, up)
    <3>1. Stored(Unset(a.id), db', First(Records(d)), StaticRecord(d, t, a.ext))
      BY <2>4, OverwriteStores
    <3>2. First(Records(d)) \in 1..(Len(db) + 1)
      BY <2>2, <2>4, FirstRecord DEF Overwrite
    <3> QED BY <2>1, <3>1, <3>2
  <2>5. CASE Decline(d, a, up)
    BY <2>1, <2>5 DEF Decline
  <2> QED BY <1>2, <2>3, <2>4, <2>5 DEF StaticConfig
<1>3. ASSUME NEW d \in Device, Bound(d) \/ Rebind(d) \/ Expire(d)
      PROVE  db' = db
  BY <1>3 DEF Bound, Rebind, Expire
<1>4. CASE UNCHANGED vars
  BY <1>4 DEF vars
<1> QED BY <1>1, <1>2, <1>3, <1>4 DEF Next, Rerun

\* Booting stores the records of the CD, or those there were.
LEMMA BootStores ==
    ASSUME NEW files \in {[db |-> db, conf |-> conf], Defaults}, NEW up,
           Boot(files, up)
    PROVE  db' = db \/ db' = Defaults.db
BY DEF Boot

LEMMA LoopbackStep ==
    ASSUME TypeOK, LoopbackFirst, [Next]_vars
    PROVE  LoopbackFirst'
<1>1. Len(db) \in Nat /\ 1 \in 1..Len(db) /\ db[1].device = Lo /\ ~db[1].dhcp
      /\ db[1] \in Record
  BY DEF TypeOK, LoopbackFirst
<1>2. CASE db' = db
  BY <1>2 DEF LoopbackFirst
<1>3. CASE db' = Defaults.db
  <2>1. db'[1].device = Lo /\ db'[1].dhcp = FALSE /\ Len(db') = 1
    BY <1>3, DefaultsType DEF StaticRecord
  <2> QED BY <2>1 DEF LoopbackFirst
<1>4. ASSUME NEW d \in Device, Stored(db, db', Len(db) + 1, DhcpRecord(d))
      PROVE  LoopbackFirst'
  <2>1. db'[1] = db[1] /\ 1 \in 1..Len(db') /\ Len(db') \in Nat
    BY <1>1, <1>4, StoredKeeps
  <2> QED BY <1>1, <2>1 DEF LoopbackFirst
<1>5. ASSUME NEW id \in 0..Len(db)
      PROVE  /\ Unset(id)[1].device = Lo /\ ~Unset(id)[1].dhcp
             /\ Len(Unset(id)) = Len(db)
  <2>1. [db[1] EXCEPT !.ext = FALSE].device = Lo /\ ~[db[1] EXCEPT !.ext = FALSE].dhcp
    BY <1>1 DEF Record
  <2> QED BY <1>1, <2>1, UnsetKeeps
<1>6. ASSUME NEW id \in 0..Len(db), db' = Unset(id)
      PROVE  LoopbackFirst'
  BY <1>1, <1>5, <1>6 DEF LoopbackFirst
<1>7. ASSUME NEW id \in 0..Len(db), NEW d \in Device, NEW t \in Typed,
             NEW e \in BOOLEAN, NEW k \in 1..(Len(db) + 1),
             Stored(Unset(id), db', k, StaticRecord(d, t, e))
      PROVE  LoopbackFirst'
  <2>1. StaticRecord(d, t, e).device = d /\ ~StaticRecord(d, t, e).dhcp
    BY DEF StaticRecord
  <2>2. 1 \in 1..Len(Unset(id))
    BY <1>1, <1>5
  <2>3. 1 \in 1..Len(db') /\ Len(db') \in Nat
    BY <1>7, <2>2, StoredKeeps
  <2>4. CASE k = 1
    <3>1. Unset(id)[1].device = d /\ db'[1] = StaticRecord(d, t, e)
      BY <1>7, <2>1, <2>2, <2>4, StoredKeeps
    <3>2. d = Lo
      BY <1>5, <3>1
    <3> QED BY <2>1, <2>3, <3>1, <3>2 DEF LoopbackFirst
  <2>5. CASE k # 1
    <3>1. db'[1] = Unset(id)[1]
      BY <1>7, <2>2, <2>5, StoredKeeps
    <3> QED BY <1>5, <2>3, <3>1 DEF LoopbackFirst
  <2> QED BY <2>4, <2>5
<1> QED BY <1>2, <1>3, <1>4, <1>6, <1>7, ScreenStores, BootStores

LEMMA LoopbackInit == Init => LoopbackFirst
<1>1. Init => db[1].device = Lo /\ db[1].dhcp = FALSE /\ Len(db) = 1
  BY DefaultsType DEF StaticRecord, Init
<1> QED BY <1>1 DEF LoopbackFirst

\* Record id 0, which config_devices() always takes for static, is.
THEOREM LoopbackStays == Spec => []LoopbackFirst
<1>1. Init => TypeOK /\ LoopbackFirst
  BY TypeInit, LoopbackInit
<1>2. TypeOK /\ LoopbackFirst /\ [Next]_vars => (TypeOK /\ LoopbackFirst)'
  BY TypeStep, LoopbackStep
<1> QED BY <1>1, <1>2, PTL DEF Spec

-----------------------------------------------------------------------------
(* External records *)

HasGateway(r) == r.ext /\ ~r.dhcp => r.gateway # Empty

LEMMA ExternalRecords ==
    ASSUME TypeOK
    PROVE  ExternalHasGateway <=> \A i \in 1..Len(db) : HasGateway(db[i])
<1>1. DOMAIN db = 1..Len(db)
  BY DEF TypeOK
<1> QED BY <1>1 DEF ExternalHasGateway, Externals, HasGateway

LEMMA StoredHasGateway ==
    ASSUME NEW s, NEW t, NEW k, NEW r, Stored(s, t, k, r),
           \A i \in 1..Len(s) : HasGateway(s[i]), HasGateway(r)
    PROVE  \A i \in 1..Len(t) : HasGateway(t[i])
<1> SUFFICES ASSUME NEW i \in 1..Len(t) PROVE HasGateway(t[i])
  OBVIOUS
<1>1. CASE i = k
  BY <1>1, StoredKeeps
<1>2. CASE i # k
  BY <1>2, StoredKeeps
<1> QED BY <1>1, <1>2

LEMMA ExternalStep ==
    ASSUME TypeOK, TypeOK', ExternalHasGateway, [Next]_vars
    PROVE  ExternalHasGateway'
<1>1. \A i \in 1..Len(db) : db[i] \in Record /\ HasGateway(db[i])
  BY ExternalRecords DEF TypeOK
<1>2. ExternalHasGateway' <=> \A i \in 1..Len(db') : HasGateway(db'[i])
  <2>1. DOMAIN db' = 1..Len(db')
    BY DEF TypeOK
  <2> QED BY <2>1 DEF ExternalHasGateway, Externals, HasGateway
<1>3. CASE db' = db
  BY <1>1, <1>2, <1>3
<1>4. CASE db' = Defaults.db
  <2>1. HasGateway(StaticRecord(Lo, Default, FALSE))
    BY DEF HasGateway, StaticRecord
  <2>2. \A i \in 1..Len(db') : i = 1
    BY <1>4, DefaultsType
  <2> QED BY <1>2, <1>4, <2>1, <2>2, DefaultsType
<1>5. ASSUME NEW d \in Device, Stored(db, db', Len(db) + 1, DhcpRecord(d))
      PROVE  ExternalHasGateway'
  <2>1. HasGateway(DhcpRecord(d))
    BY DEF HasGateway, DhcpRecord
  <2> QED BY <1>1, <1>2, <1>5, <2>1, StoredHasGateway
<1>6. ASSUME NEW id \in 0..Len(db)
      PROVE  \A i \in 1..Len(Unset(id)) : HasGateway(Unset(id)[i])
  <2> SUFFICES ASSUME NEW i \in 1..Len(db) PROVE HasGateway(Unset(id)[i])
    BY UnsetKeeps
  <2>1. HasGateway([db[i] EXCEPT !.ext = FALSE])
    BY <1>1 DEF HasGateway, Record
  <2> QED BY <1>1, <2>1, UnsetKeeps
<1>7. ASSUME NEW id \in 0..Len(db), db' = Unset(id)
      PROVE  ExternalHasGateway'
  BY <1>2, <1>6, <1>7
<1>8. ASSUME NEW id \in 0..Len(db), NEW d \in Device, NEW t \in Typed,
             NEW e \in BOOLEAN, NEW k \in 1..(Len(db) + 1),
             Stored(Unset(id), db', k, StaticRecord(d, t, e)),
             e => t.gateway # Empty
      PROVE  ExternalHasGateway'
  <2>1. HasGateway(StaticRecord(d, t, e))
    BY <1>8 DEF HasGateway, StaticRecord
  <2> QED BY <1>2, <1>6, <1>8, <2>1, StoredHasGateway
<1> QED BY <1>3, <1>4, <1>5, <1>7, <1>8, ScreenStores, BootStores

LEMMA ExternalInit == Init => ExternalHasGateway
<1> SUFFICES ASSUME Init PROVE ExternalHasGateway
  OBVIOUS
<1>1. HasGateway(StaticRecord(Lo, Default, FALSE))
  BY DEF HasGateway, StaticRecord
<1>2. \A i \in 1..Len(db) : i = 1
  BY DefaultsType DEF Init
<1>3. db[1] = StaticRecord(Lo, Default, FALSE)
  BY DefaultsType DEF Init
<1>4. TypeOK
  BY TypeInit
<1> QED BY <1>1, <1>2, <1>3, <1>4, ExternalRecords

\* insert_device() never puts an empty default route in place of the one it deletes.
THEOREM ExternalsHaveGateways == Spec => []ExternalHasGateway
<1>1. Init => TypeOK /\ ExternalHasGateway
  BY TypeInit, ExternalInit
<1>2. TypeOK /\ ExternalHasGateway /\ [Next]_vars => (TypeOK /\ ExternalHasGateway)'
  BY TypeStep, ExternalStep
<1> QED BY <1>1, <1>2, PTL DEF Spec

-----------------------------------------------------------------------------
(* Records stay *)

\* What RecordsStay says of a step from the database s to the database t.
Kept(s, t) ==
    /\ \A i \in DOMAIN s : i \in DOMAIN t /\ t[i].device = s[i].device
    /\ \A i, j \in DOMAIN s :
        Unmarked(t[i]) # Unmarked(s[i]) /\ Unmarked(t[j]) # Unmarked(s[j]) => i = j

LEMMA UnsetKeepsUnmarked ==
    ASSUME TypeOK, NEW id \in 0..Len(db), NEW i \in 1..Len(db)
    PROVE  /\ Unset(id)[i].device = db[i].device
           /\ Unmarked(Unset(id)[i]) = Unmarked(db[i])
<1>1. db[i] \in Record
  BY DEF TypeOK
<1>2. /\ [db[i] EXCEPT !.ext = FALSE].device = db[i].device
      /\ Unmarked([db[i] EXCEPT !.ext = FALSE]) = Unmarked(db[i])
  BY <1>1 DEF Record, Unmarked
<1> QED BY <1>2, UnsetKeeps

LEMMA KeptStep ==
    ASSUME TypeOK, TypeOK', [Next]_vars, db' # Defaults.db, db' # db
    PROVE  Kept(db, db')
<1>1. DOMAIN db = 1..Len(db) /\ Len(db) \in Nat /\ DOMAIN db' = 1..Len(db')
  BY DEF TypeOK
<1>2. ASSUME NEW d \in Device, Stored(db, db', Len(db) + 1, DhcpRecord(d))
      PROVE  Kept(db, db')
  <2>1. \A i \in 1..Len(db) : i \in 1..Len(db') /\ db'[i] = db[i]
    BY <1>1, <1>2, StoredKeeps
  <2> QED BY <1>1, <2>1 DEF Kept
<1>3. ASSUME NEW id \in 0..Len(db), db' = Unset(id)
      PROVE  Kept(db, db')
  <2>1. Len(db') = Len(db)
    BY <1>3, UnsetKeeps
  <2> QED BY <1>1, <1>3, <2>1, UnsetKeepsUnmarked DEF Kept
<1>4. ASSUME NEW id \in 0..Len(db), NEW d \in Device, NEW t \in Typed,
             NEW e \in BOOLEAN, NEW k \in 1..(Len(db) + 1),
             Stored(Unset(id), db', k, StaticRecord(d, t, e))
      PROVE  Kept(db, db')
  <2> DEFINE u == Unset(id)
  <2>1. /\ Len(u) = Len(db) /\ 1..Len(db) \subseteq 1..Len(db')
        /\ \A i \in 1..Len(db) : i # k => db'[i] = u[i]
    BY <1>4, UnsetKeeps, StoredKeeps
  <2>2. \A i \in 1..Len(db) :
            u[i].device = db[i].device /\ Unmarked(u[i]) = Unmarked(db[i])
    BY UnsetKeepsUnmarked
  <2>3. k \in 1..Len(db) => db'[k].device = u[k].device
    BY <1>4, <2>1, StoredKeeps
  <2> HIDE DEF u
  <2> QED BY <1>1, <2>1, <2>2, <2>3 DEF Kept
<1> QED BY <1>2, <1>3, <1>4, ScreenStores, BootStores

\* No screen loses a record or changes the addresses of two.
THEOREM RecordsAreKept == Spec => RecordsStay
<1>1. TypeOK /\ TypeOK' /\ [Next]_vars =>
        [db' # db /\ db' # Defaults.db => Kept(db, db')]_vars
  BY KeptStep
<1>2. [db' # db /\ db' # Defaults.db => Kept(db, db')]_vars =>
      [db' # db /\ db' # Defaults.db =>
        /\ \A i \in DOMAIN db : i \in DOMAIN db' /\ db'[i].device = db[i].device
        /\ \A i, j \in DOMAIN db :
            Unmarked(db'[i]) # Unmarked(db[i]) /\ Unmarked(db'[j]) # Unmarked(db[j])
                => i = j]_vars
  BY DEF Kept
<1> QED BY <1>1, <1>2, TypeCorrect, PTL DEF Spec, RecordsStay

-----------------------------------------------------------------------------
(* Addresses in force *)

\* The record s[i] alone configures its device, statically and completely.
Alone(s, i) ==
    /\ \A j \in 1..Len(s) : s[j].device = s[i].device => j = i
    /\ ~s[i].dhcp /\ s[i].ip # Empty /\ s[i].netmask # Empty

\* In the network state n, the record r has its address if no dhclient is on its
\* device.
InForceIn(n, r) == n.dhclient[r.device] = "off" => n.addr[r.device].ip = r.ip

InForce(s, n) == \A i \in 1..Len(s) : Alone(s, i) => InForceIn(n, s[i])

LEMMA StaticInForceIs ==
    ASSUME TypeOK
    PROVE  StaticInForce <=> InForce(db, net)
<1>1. DOMAIN db = 1..Len(db)
  BY DEF TypeOK
<1>2. ASSUME NEW i \in 1..Len(db)
      PROVE  Records(db[i].device) = {i} <=>
                \A j \in 1..Len(db) : db[j].device = db[i].device => j = i
  BY <1>1 DEF Records
<1> QED BY <1>1, <1>2 DEF StaticInForce, InForce, InForceIn, Alone

\* From n to m, the devices other than d are left alone, or get a dhclient.
Spares(n, m, d) ==
    \A x \in Device : x # d =>
        \/ m.dhclient[x] # "off"
        \/ m.dhclient[x] = n.dhclient[x] /\ m.addr[x] = n.addr[x]

LEMMA AddressSpares ==
    ASSUME NEW n \in Network, NEW d \in Device, NEW ip, NEW m
    PROVE  /\ Spares(n, Address(n, d, ip, m), d)
           /\ Address(n, d, ip, m).addr[d].ip = ip
BY DEF Spares, Address, Network

LEMMA DhclientSpares ==
    ASSUME NEW n \in Network, NEW S, NEW up, NEW d
    PROVE  Spares(n, Dhclient(n, S, up), d)
<1> SUFFICES ASSUME NEW x \in Device
             PROVE  \/ Dhclient(n, S, up).dhclient[x] # "off"
                    \/ /\ Dhclient(n, S, up).dhclient[x] = n.dhclient[x]
                       /\ Dhclient(n, S, up).addr[x] = n.addr[x]
  BY DEF Spares
<1>1. CASE x \in S \cap up
  BY <1>1 DEF Dhclient
<1>2. CASE x \in S \ up
  BY <1>2 DEF Dhclient
<1>3. CASE x \notin S
  BY <1>3 DEF Dhclient
<1> QED BY <1>1, <1>2, <1>3

LEMMA RouteSpares ==
    ASSUME NEW n \in Network, NEW m \in Network, NEW g, NEW d, Spares(n, m, d)
    PROVE  /\ Spares(n, [m EXCEPT !.route = g], d)
           /\ [m EXCEPT !.route = g].addr = m.addr
<1>1. /\ [m EXCEPT !.route = g].addr = m.addr
      /\ [m EXCEPT !.route = g].dhclient = m.dhclient
  BY DEF Network
<1> QED BY <1>1 DEF Spares

LEMMA IfconfigSpares ==
    ASSUME NEW n \in Network, NEW r \in Record
    PROVE  /\ Spares(n, IfconfigNow(n, r), r.device)
           /\ Spares(n, IfconfigBoot(n, r), r.device)
           /\ r.ip # Empty => IfconfigNow(n, r).addr[r.device].ip = r.ip
           /\ r.ip # Empty /\ r.netmask # Empty
                => IfconfigBoot(n, r).addr[r.device].ip = r.ip
<1>1. r.device \in Device
  BY DEF Record
<1>2. Spares(n, n, r.device)
  BY DEF Spares
<1>3. CASE r.ip # Empty /\ r.netmask # Empty
  BY <1>1, <1>3, AddressSpares DEF IfconfigNow, IfconfigBoot
<1>4. CASE r.ip # Empty /\ r.netmask = Empty
  BY <1>1, <1>2, <1>4, AddressSpares DEF IfconfigNow, IfconfigBoot
<1>5. CASE r.ip = Empty /\ r.netmask # Empty
  BY <1>1, <1>2, <1>5, AddressSpares DEF IfconfigNow, IfconfigBoot
<1>6. CASE r.ip = Empty /\ r.netmask = Empty
  BY <1>2, <1>6 DEF IfconfigNow, IfconfigBoot
<1> QED BY <1>3, <1>4, <1>5, <1>6

LEMMA InsertSpares ==
    ASSUME NEW n \in Network, NEW r \in Record, NEW c, NEW up
    PROVE  /\ Spares(n, InsertDevice(n, r, c, up), r.device)
           /\ ~r.dhcp /\ r.ip # Empty
                => InsertDevice(n, r, c, up).addr[r.device].ip = r.ip
<1>1. IfconfigNow(n, r) \in Network /\ r.dhcp \in BOOLEAN /\ r.ext \in BOOLEAN
  BY IfconfigType DEF Record
<1>2. CASE r.dhcp
  BY <1>2, DhclientSpares DEF InsertDevice
<1>3. CASE ~r.dhcp /\ r.ext
  <2> DEFINE m == IfconfigNow(n, r)
             g == r.gateway
  <2>1. InsertDevice(n, r, c, up) = [m EXCEPT !.route = g]
    BY <1>3 DEF InsertDevice
  <2>2. Spares(n, m, r.device) /\ (r.ip # Empty => m.addr[r.device].ip = r.ip)
    BY IfconfigSpares
  <2>3. m \in Network
    BY <1>1
  <2> HIDE DEF m, g
  <2> QED BY <2>1, <2>2, <2>3, RouteSpares
<1>4. CASE ~r.dhcp /\ ~r.ext
  BY <1>4, IfconfigSpares DEF InsertDevice
<1> QED BY <1>1, <1>2, <1>3, <1>4

LEMMA BootSpares ==
    ASSUME NEW n \in Network, NEW r \in Record, NEW i, NEW c, NEW up
    PROVE  /\ Spares(n, BootDevice(n, r, i, c, up), r.device)
           /\ ~r.dhcp /\ r.ip # Empty /\ r.netmask # Empty
                => BootDevice(n, r, i, c, up).addr[r.device].ip = r.ip
<1> DEFINE m == IfconfigBoot(n, r)
           g == IF r.ext /\ r.gateway # Empty /\ m.route = Empty
                THEN r.gateway ELSE m.route
<1>1. m \in Network
  BY IfconfigType
<1>2. CASE i > 1 /\ r.dhcp
  BY <1>2, DhclientSpares DEF BootDevice
<1>3. CASE ~(i > 1 /\ r.dhcp)
  <2>1. BootDevice(n, r, i, c, up) = [m EXCEPT !.route = g]
    BY <1>3 DEF BootDevice
  <2>2. Spares(n, m, r.device)
        /\ (r.ip # Empty /\ r.netmask # Empty => m.addr[r.device].ip = r.ip)
    BY IfconfigSpares
  <2> HIDE DEF m, g
  <2> QED BY <1>1, <2>1, <2>2, RouteSpares
<1> QED BY <1>2, <1>3

\* Storing a record and running its commands keeps every address in force.
LEMMA InsertInForce ==
    ASSUME NEW s, NEW t, NEW k, NEW r, Stored(s, t, k, r),
           NEW n \in Network, InForce(s, n), NEW c, NEW up
    PROVE  InForce(t, InsertDevice(n, r, c, up))
<1> DEFINE m == InsertDevice(n, r, c, up)
<1>1. r \in Record /\ s \in Seq(Record) /\ t \in Seq(Record)
  BY StoredKeeps DEF Stored
<1>2. /\ Spares(n, m, r.device)
      /\ ~r.dhcp /\ r.ip # Empty => m.addr[r.device].ip = r.ip
  BY <1>1, InsertSpares
<1> HIDE DEF m
<1> SUFFICES ASSUME NEW i \in 1..Len(t), Alone(t, i) PROVE InForceIn(m, t[i])
  BY DEF InForce, m
<1>3. CASE i = k
  BY <1>2, <1>3, StoredKeeps DEF Alone, InForceIn
<1>4. CASE i # k
  <2>1. /\ i \in 1..Len(s) /\ t[i] = s[i] /\ s[i] \in Record
        /\ k \in 1..Len(t) /\ t[k] = r
    BY <1>1, <1>4, StoredKeeps
  <2>2. s[i].device # r.device
    BY <1>4, <2>1 DEF Alone
  <2>3. ASSUME NEW j \in 1..Len(s), s[j].device = s[i].device
        PROVE  j = i
    <3>1. j # k
      BY <2>2, <2>3, StoredKeeps
    <3>2. t[j] = s[j] /\ j \in 1..Len(t)
      BY <3>1, StoredKeeps
    <3> QED BY <2>1, <2>3, <3>2 DEF Alone
  <2>4. Alone(s, i)
    BY <2>1, <2>3 DEF Alone
  <2>5. InForceIn(n, s[i])
    BY <2>1, <2>4 DEF InForce
  <2>6. s[i].device \in Device
    BY <2>1 DEF Record
  <2> QED BY <1>2, <2>1, <2>2, <2>5, <2>6 DEF InForceIn, Spares
<1> QED BY <1>3, <1>4

\* So does booting, whatever was in force before.
LEMMA BootInForce ==
    ASSUME NEW f, NEW up, f.db \in Seq(Record)
    PROVE  InForce(f.db, ConfigDevices(f, up))
<1> DEFINE s == f.db
           n == Len(s)
<1>1. PICK g : IsRun(f, up, n, g) /\ ConfigDevices(f, up) = g[n]
  BY ConfigRun
<1>2. n \in Nat /\ \A i \in 1..n : s[i] \in Record
  OBVIOUS
<1>3. \A i \in 0..n : g[i] = IF i = 0 THEN Fresh
                             ELSE BootDevice(g[i - 1], s[i], i, f.conf, up)
  BY <1>1 DEF IsRun
<1> DEFINE G == {k \in 0..n : /\ g[k] \in Network
                              /\ \A i \in 1..k : Alone(s, i) => InForceIn(g[k], s[i])}
<1>4. 0 \in G
  BY <1>2, <1>3, FreshType
<1>5. ASSUME NEW k \in 1..n, k - 1 \in G PROVE k \in G
  <2>1. k \in 0..n /\ k - 1 \in 0..n /\ k # 0
    BY <1>2
  <2>2. g[k - 1] \in Network
        /\ \A i \in 1..(k - 1) : Alone(s, i) => InForceIn(g[k - 1], s[i])
    BY <1>5
  <2>3. g[k] = BootDevice(g[k - 1], s[k], k, f.conf, up)
    BY <1>3, <2>1
  <2>4. s[k] \in Record
    BY <1>2
  <2>5. g[k] \in Network
    BY <2>2, <2>3, <2>4, BootDeviceType
  <2>6. /\ Spares(g[k - 1], g[k], s[k].device)
        /\ ~s[k].dhcp /\ s[k].ip # Empty /\ s[k].netmask # Empty
             => g[k].addr[s[k].device].ip = s[k].ip
    BY <2>2, <2>3, <2>4, BootSpares
  <2> HIDE DEF s
  <2>7. ASSUME NEW i \in 1..k, Alone(s, i) PROVE InForceIn(g[k], s[i])
    <3>1. CASE i = k
      BY <2>6, <2>7, <3>1 DEF Alone, InForceIn
    <3>2. CASE i # k
      <4>1. i \in 1..(k - 1) /\ i \in 1..n
        BY <1>2, <3>2
      <4>2. InForceIn(g[k - 1], s[i]) /\ s[i].device \in Device
        BY <1>2, <2>2, <2>7, <4>1 DEF Record
      <4>3. s[i].device # s[k].device
        BY <2>7, <3>2 DEF Alone
      <4> QED BY <2>6, <4>2, <4>3 DEF InForceIn, Spares
    <3> QED BY <3>1, <3>2
  <2> QED BY <2>1, <2>5, <2>7
<1>6. \A k \in 0..n : k \in G
  <2> HIDE DEF G
  <2> QED BY <1>2, <1>4, <1>5, InductionUpTo
<1>7. n \in G
  BY <1>2, <1>6
<1> QED BY <1>1, <1>7 DEF InForce

LEMMA UnsetInForce ==
    ASSUME TypeOK, InForce(db, net), NEW id \in 0..Len(db), NEW up
    PROVE  InForce(Unset(id), AfterUnset(id, up))
<1>1. CASE id = 0
  BY <1>1 DEF Unset, AfterUnset
<1>2. CASE id # 0
  <2>1. id \in 1..Len(db) /\ net \in Network
    BY <1>2 DEF TypeOK
  <2>2. Stored(db, Unset(id), id, Unset(id)[id])
    BY <2>1, UnsetStores
  <2>3. AfterUnset(id, up) = InsertDevice(net, Unset(id)[id], conf, up)
    BY <1>2 DEF AfterUnset
  <2> QED BY <2>1, <2>2, <2>3, InsertInForce
<1> QED BY <1>1, <1>2

LEMMA InForceStep ==
    ASSUME TypeOK, InForce(db, net), [Next]_vars
    PROVE  InForce(db', net')
<1>1. ASSUME NEW d \in Device, NEW host \in BOOLEAN, NEW up \in Quick,
             DhcpConfig(d, host, up)
      PROVE  InForce(db', net')
  <2>1. Stored(db, db', Len(db) + 1, DhcpRecord(d))
    BY <1>1, DhcpStores
  <2>2. net' = InsertDevice(net, DhcpRecord(d), conf', up) /\ net \in Network
    BY <1>1 DEF DhcpConfig, TypeOK
  <2> QED BY <2>1, <2>2, InsertInForce
<1>2. ASSUME NEW d \in Device, NEW up \in Quick, NEW t \in Typed,
             NEW a \in Answers(t.gateway), StaticConfig(d, t, a, up)
      PROVE  InForce(db', net')
  <2>1. a.id \in 0..Len(db)
    BY AnswerType
  <2> DEFINE r == StaticRecord(d, t, a.ext)
             n == AfterUnset(a.id, up)
  <2>2. InForce(Unset(a.id), n) /\ n \in Network
    BY <2>1, UnsetInForce, AfterUnsetType
  <2>3. CASE NewStatic(d, t, a, up)
    <3>1. Stored(Unset(a.id), db', Len(db) + 1, r)
      BY <2>3, NewStaticStores
    <3>2. net' = InsertDevice(n, r, conf, up)
      BY <2>3 DEF NewStatic
    <3> HIDE DEF r, n
    <3> QED BY <2>2, <3>1, <3>2, InsertInForce
  <2>4. CASE Overwrite(d, t, a, up)
    <3>1. Stored(Unset(a.id), db', First(Records(d)), r)
      BY <2>4, OverwriteStores
    <3>2. net' = InsertDevice(n, r, conf, up)
      BY <2>4 DEF Overwrite
    <3> HIDE DEF r, n
    <3> QED BY <2>2, <3>1, <3>2, InsertInForce
  <2>5. CASE Decline(d, a, up)
    BY <2>2, <2>5 DEF Decline
  <2> QED BY <1>2, <2>3, <2>4, <2>5 DEF StaticConfig
<1>3. ASSUME NEW files \in {[db |-> db, conf |-> conf], Defaults}, NEW up \in Quick,
             Boot(files, up)
      PROVE  InForce(db', net')
  <2>1. files.db \in Seq(Record)
    BY DefaultsType DEF TypeOK
  <2> QED BY <1>3, <2>1, BootInForce DEF Boot
<1>4. ASSUME NEW d \in Device, Bound(d) \/ Rebind(d) \/ Expire(d)
      PROVE  InForce(db', net')
  <2>1. net \in Network /\ db' = db
    BY <1>4 DEF Bound, Rebind, Expire, TypeOK
  <2>2. /\ net'.dhclient[d] # "off"
        /\ \A x \in Device : x # d => /\ net'.dhclient[x] = net.dhclient[x]
                                      /\ net'.addr[x] = net.addr[x]
    <3>1. CASE Bound(d)
      BY <2>1, <3>1 DEF Bound, Network
    <3>2. CASE Rebind(d)
      BY <2>1, <3>2 DEF Rebind, Network
    <3>3. CASE Expire(d)
      BY <2>1, <3>3 DEF Expire, Network
    <3> QED BY <1>4, <3>1, <3>2, <3>3
  <2>3. \A i \in 1..Len(db) : db[i].device \in Device
    <3>1. \A i \in 1..Len(db) : db[i] \in Record
      BY DEF TypeOK
    <3> QED BY <3>1 DEF Record
  <2> QED BY <2>1, <2>2, <2>3 DEF InForce, InForceIn
<1>5. CASE UNCHANGED vars
  BY <1>5 DEF vars
<1> QED BY <1>1, <1>2, <1>3, <1>4, <1>5 DEF Next, Rerun

\* A static device keeps the address of its record through any history of edits of
\* other devices, boots and dhclient events, unless a dhclient is on it.
THEOREM AddressesInForce == Spec => []StaticInForce
<1>1. Init => TypeOK /\ InForce(db, net)
  <2> SUFFICES ASSUME Init PROVE TypeOK /\ InForce(db, net)
    OBVIOUS
  <2>1. db = Defaults.db /\ net = ConfigDevices(Defaults, {})
    BY DEF Init
  <2> QED BY <2>1, TypeInit, DefaultsType, BootInForce
<1>2. TypeOK /\ InForce(db, net) /\ [Next]_vars => (TypeOK /\ InForce(db, net))'
  BY TypeStep, InForceStep
<1>3. TypeOK /\ InForce(db, net) => StaticInForce
  BY StaticInForceIs
<1> QED BY <1>1, <1>2, <1>3, PTL DEF Spec

-----------------------------------------------------------------------------
(* What a boot leaves behind *)

LEMMA IfconfigBootKeeps ==
    ASSUME NEW n \in Network, NEW r \in Record
    PROVE  /\ IfconfigBoot(n, r).route = n.route
           /\ IfconfigBoot(n, r).dhclient = n.dhclient
<1>1. \A d, ip, m : /\ Address(n, d, ip, m).route = n.route
                    /\ Address(n, d, ip, m).dhclient = n.dhclient
  BY DEF Address, Network
<1> QED BY <1>1 DEF IfconfigBoot

\* The record does not use DHCP: "route add" keeps the route there is.
LEMMA BootStaticRoute ==
    ASSUME NEW n \in Network, NEW r \in Record, ~r.dhcp, NEW i, NEW c, NEW up
    PROVE  BootDevice(n, r, i, c, up).route =
                IF r.ext /\ r.gateway # Empty /\ n.route = Empty
                THEN r.gateway ELSE n.route
<1> DEFINE m == IfconfigBoot(n, r)
           g == IF r.ext /\ r.gateway # Empty /\ m.route = Empty
                THEN r.gateway ELSE m.route
<1>1. m \in Network /\ m.route = n.route
  BY IfconfigType, IfconfigBootKeeps
<1>2. BootDevice(n, r, i, c, up) = [m EXCEPT !.route = g]
  BY DEF BootDevice
<1>3. [m EXCEPT !.route = g].route = g
  <2> HIDE DEF m, g
  <2> QED BY <1>1 DEF Network
<1> QED BY <1>1, <1>2, <1>3

\* No command of the boot takes a dhclient off a device, and a DHCP record beyond
\* the first puts one on its device, unless the file names others.
LEMMA BootDhclient ==
    ASSUME NEW n \in Network, NEW r \in Record, NEW i, NEW c, NEW up
    PROVE  /\ \A d \in Device : n.dhclient[d] # "off" =>
                    BootDevice(n, r, i, c, up).dhclient[d] # "off"
           /\ i > 1 /\ r.dhcp /\ c = {} =>
                    BootDevice(n, r, i, c, up).dhclient[r.device] # "off"
<1>1. r.device \in Device
  BY DEF Record
<1>2. ASSUME NEW S, NEW d \in Device
      PROVE  /\ n.dhclient[d] # "off" => Dhclient(n, S, up).dhclient[d] # "off"
             /\ d \in S => Dhclient(n, S, up).dhclient[d] # "off"
  <2>1. CASE d \in S \cap up
    BY <2>1 DEF Dhclient
  <2>2. CASE d \in S \ up
    BY <2>2 DEF Dhclient
  <2>3. CASE d \notin S
    BY <2>3 DEF Dhclient
  <2> QED BY <2>1, <2>2, <2>3
<1>3. CASE i > 1 /\ r.dhcp
  <2>1. BootDevice(n, r, i, c, up) = Dhclient(n, IF c = {} THEN {r.device} ELSE c, up)
    BY <1>3 DEF BootDevice
  <2> QED BY <1>1, <1>2, <2>1
<1>4. CASE ~(i > 1 /\ r.dhcp)
  <2> DEFINE m == IfconfigBoot(n, r)
             g == IF r.ext /\ r.gateway # Empty /\ m.route = Empty
                  THEN r.gateway ELSE m.route
  <2>1. m \in Network /\ m.dhclient = n.dhclient
    BY IfconfigType, IfconfigBootKeeps
  <2>2. BootDevice(n, r, i, c, up) = [m EXCEPT !.route = g]
    BY <1>4 DEF BootDevice
  <2>3. [m EXCEPT !.route = g].dhclient = m.dhclient
    <3> HIDE DEF m, g
    <3> QED BY <2>1 DEF Network
  <2> QED BY <1>4, <2>1, <2>2, <2>3
<1> QED BY <1>3, <1>4

\* The default route after the first k records of s.
RouteAfter(s, k, g) ==
    \/ (\A i \in 1..k : ~s[i].ext) /\ g = Empty
    \/ \E i \in 1..k : /\ s[i].ext /\ s[i].gateway = g /\ g # Empty
                       /\ \A j \in 1..k : s[j].ext => i <= j

LEMMA BootRoute ==
    ASSUME NEW f, NEW up, f.db \in Seq(Record),
           \A i \in 1..Len(f.db) : /\ ~f.db[i].dhcp
                                   /\ f.db[i].ext => f.db[i].gateway # Empty
    PROVE  RouteAfter(f.db, Len(f.db), ConfigDevices(f, up).route)
<1> DEFINE s == f.db
           n == Len(s)
<1>1. PICK g : IsRun(f, up, n, g) /\ ConfigDevices(f, up) = g[n]
  BY ConfigRun
<1>2. n \in Nat /\ \A i \in 1..n : s[i] \in Record
  OBVIOUS
<1>3. \A i \in 0..n : g[i] = IF i = 0 THEN Fresh
                             ELSE BootDevice(g[i - 1], s[i], i, f.conf, up)
  BY <1>1 DEF IsRun
<1> DEFINE G == {k \in 0..n : g[k] \in Network /\ RouteAfter(s, k, g[k].route)}
<1>4. 0 \in G
  <2>1. g[0] = Fresh /\ Fresh.route = Empty
    BY <1>2, <1>3 DEF Fresh
  <2> QED BY <1>2, <2>1, FreshType DEF RouteAfter
<1>5. ASSUME NEW k \in 1..n, k - 1 \in G PROVE k \in G
  <2>1. k \in 0..n /\ k - 1 \in 0..n /\ k # 0
    BY <1>2
  <2>2. g[k - 1] \in Network /\ RouteAfter(s, k - 1, g[k - 1].route)
    BY <1>5
  <2>3. g[k] = BootDevice(g[k - 1], s[k], k, f.conf, up)
    BY <1>3, <2>1
  <2>4. s[k] \in Record /\ ~s[k].dhcp /\ (s[k].ext => s[k].gateway # Empty)
    BY <1>2
  <2>5. g[k] \in Network
    BY <2>2, <2>3, <2>4, BootDeviceType
  <2>6. g[k].route = IF s[k].ext /\ s[k].gateway # Empty /\ g[k - 1].route = Empty
                     THEN s[k].gateway ELSE g[k - 1].route
    BY <2>2, <2>3, <2>4, BootStaticRoute
  <2> HIDE DEF s
  <2>7. CASE (\A i \in 1..(k - 1) : ~s[i].ext) /\ g[k - 1].route = Empty
    <3>1. CASE s[k].ext
      <4>1. g[k].route = s[k].gateway /\ s[k].gateway # Empty
        BY <2>4, <2>6, <2>7, <3>1
      <4>2. \A j \in 1..k : s[j].ext => k <= j
        BY <1>2, <2>7
      <4> QED BY <2>1, <2>5, <3>1, <4>1, <4>2 DEF RouteAfter
    <3>2. CASE ~s[k].ext
      <4>1. \A j \in 1..k : ~s[j].ext
        BY <1>2, <2>7, <3>2
      <4> QED BY <2>1, <2>5, <2>6, <2>7, <3>2, <4>1 DEF RouteAfter
    <3> QED BY <3>1, <3>2
  <2>8. ASSUME NEW i \in 1..(k - 1), s[i].ext, s[i].gateway = g[k - 1].route,
               g[k - 1].route # Empty, \A j \in 1..(k - 1) : s[j].ext => i <= j
        PROVE  k \in G
    <3>1. g[k].route = g[k - 1].route
      BY <2>6, <2>8
    <3>2. i \in 1..k /\ \A j \in 1..k : s[j].ext => i <= j
      BY <1>2, <2>8
    <3> QED BY <2>1, <2>5, <2>8, <3>1, <3>2 DEF RouteAfter
  <2> QED BY <2>2, <2>7, <2>8 DEF RouteAfter
<1>6. \A k \in 0..n : k \in G
  <2> HIDE DEF G
  <2> QED BY <1>2, <1>4, <1>5, InductionUpTo
<1>7. n \in G
  BY <1>2, <1>6
<1> QED BY <1>1, <1>7

LEMMA BootDhcp ==
    ASSUME NEW f, NEW up, f.db \in Seq(Record), f.conf = {},
           Len(f.db) >= 1, ~f.db[1].dhcp
    PROVE  \A i \in 1..Len(f.db) : f.db[i].dhcp =>
                ConfigDevices(f, up).dhclient[f.db[i].device] # "off"
<1> DEFINE s == f.db
           n == Len(s)
<1>1. PICK g : IsRun(f, up, n, g) /\ ConfigDevices(f, up) = g[n]
  BY ConfigRun
<1>2. n \in Nat /\ \A i \in 1..n : s[i] \in Record
  OBVIOUS
<1>3. \A i \in 0..n : g[i] = IF i = 0 THEN Fresh
                             ELSE BootDevice(g[i - 1], s[i], i, f.conf, up)
  BY <1>1 DEF IsRun
<1> DEFINE G == {k \in 0..n : /\ g[k] \in Network
                              /\ \A i \in 1..k : s[i].dhcp =>
                                    g[k].dhclient[s[i].device] # "off"}
<1>4. 0 \in G
  BY <1>2, <1>3, FreshType
<1>5. ASSUME NEW k \in 1..n, k - 1 \in G PROVE k \in G
  <2>1. k \in 0..n /\ k - 1 \in 0..n /\ k # 0
    BY <1>2
  <2>2. /\ g[k - 1] \in Network
        /\ \A i \in 1..(k - 1) : s[i].dhcp => g[k - 1].dhclient[s[i].device] # "off"
    BY <1>5
  <2>3. g[k] = BootDevice(g[k - 1], s[k], k, f.conf, up)
    BY <1>3, <2>1
  <2>4. s[k] \in Record /\ ~s[1].dhcp
    BY <1>2
  <2>5. g[k] \in Network
    BY <2>2, <2>3, <2>4, BootDeviceType
  <2>6. /\ \A d \in Device : g[k - 1].dhclient[d] # "off" => g[k].dhclient[d] # "off"
        /\ k > 1 /\ s[k].dhcp => g[k].dhclient[s[k].device] # "off"
    BY <2>2, <2>3, <2>4, BootDhclient
  <2> HIDE DEF s
  <2>7. ASSUME NEW i \in 1..k, s[i].dhcp
        PROVE  g[k].dhclient[s[i].device] # "off"
    <3>1. CASE i = k
      BY <2>4, <2>6, <2>7, <3>1
    <3>2. CASE i # k
      <4>1. i \in 1..(k - 1) /\ i \in 1..n
        BY <1>2, <3>2
      <4>2. s[i].device \in Device
        BY <1>2, <4>1 DEF Record
      <4> QED BY <2>2, <2>6, <2>7, <4>1, <4>2
    <3> QED BY <3>1, <3>2
  <2> QED BY <2>1, <2>5, <2>7
<1>6. \A k \in 0..n : k \in G
  <2> HIDE DEF G
  <2> QED BY <1>2, <1>4, <1>5, InductionUpTo
<1>7. n \in G
  BY <1>2, <1>6
<1> QED BY <1>1, <1>7

\* The files a boot reads: those in /etc or those of the CD.
BootFiles == {[db |-> db, conf |-> conf], Defaults}

LEMMA FilesRecords ==
    ASSUME TypeOK, LoopbackFirst, ExternalHasGateway, NEW f \in BootFiles
    PROVE  /\ f.db \in Seq(Record) /\ DOMAIN f.db = 1..Len(f.db)
           /\ Len(f.db) >= 1 /\ ~f.db[1].dhcp
           /\ \A i \in 1..Len(f.db) :
                ~f.db[i].dhcp /\ f.db[i].ext => f.db[i].gateway # Empty
<1>1. CASE f = [db |-> db, conf |-> conf]
  BY <1>1 DEF TypeOK, LoopbackFirst, ExternalHasGateway, Externals
<1>2. CASE f = Defaults
  <2>1. ~Defaults.db[1].ext /\ ~Defaults.db[1].dhcp
    BY DefaultsType DEF StaticRecord
  <2>2. Defaults.db \in Seq(Record) /\ Len(Defaults.db) = 1
    BY DefaultsType
  <2>3. DOMAIN Defaults.db = 1..Len(Defaults.db) /\ \A i \in 1..1 : i = 1
    BY <2>2
  <2> QED BY <1>2, <2>1, <2>2, <2>3
<1> QED BY <1>1, <1>2 DEF BootFiles

LEMMA RouteAfterBoot ==
    ASSUME TypeOK, LoopbackFirst, ExternalHasGateway, NEW f \in BootFiles,
           \A i \in DOMAIN f.db : ~f.db[i].dhcp, NEW up, Boot(f, up)
    PROVE  net'.route = IF Externals(f.db) = {} THEN Empty
                        ELSE f.db[First(Externals(f.db))].gateway
<1> DEFINE s == f.db
           n == Len(s)
           g == net'.route
<1>1. s \in Seq(Record) /\ DOMAIN s = 1..n
  BY FilesRecords
<1>2. \A i \in 1..n : ~s[i].dhcp /\ (s[i].ext => s[i].gateway # Empty)
  BY <1>1, FilesRecords
<1>3. RouteAfter(s, n, g)
  BY <1>1, <1>2, BootRoute DEF Boot
<1> HIDE DEF s, n, g
<1>4. n \in Nat
  BY <1>1 DEF n
<1>5. CASE (\A i \in 1..n : ~s[i].ext) /\ g = Empty
  BY <1>1, <1>5 DEF Externals, s, g
<1>6. ASSUME NEW i \in 1..n, s[i].ext, s[i].gateway = g,
             \A j \in 1..n : s[j].ext => i <= j
      PROVE  Externals(s) # {} /\ s[First(Externals(s))].gateway = g
  <2> DEFINE E == Externals(s)
  <2>1. i \in E /\ (\A j \in E : i <= j) /\ E \subseteq 1..n
    BY <1>1, <1>6 DEF Externals
  <2>2. First(E) \in E /\ \A j \in E : First(E) <= j
    <3> HIDE DEF E
    <3> QED BY <2>1 DEF First
  <2>3. First(E) = i
    <3>1. \A k \in 1..n : k <= i /\ i <= k => k = i
      BY <1>4
    <3> HIDE DEF E
    <3> QED BY <2>1, <2>2, <3>1
  <2> QED BY <1>6, <2>1, <2>3
<1> QED BY <1>3, <1>5, <1>6 DEF RouteAfter, s, g

\* The kernel's default route and NAT agree on the external device: the records are
\* configured in key order, and the first external one sets the route.
THEOREM BootAgreesWithNat == Spec => BootRoutesThroughExternal
<1> DEFINE A == \A files \in {[db |-> db, conf |-> conf], Defaults} :
                    (\A i \in DOMAIN files.db : ~files.db[i].dhcp)
                        /\ (\E up \in Quick : Boot(files, up))
                    => net'.route = IF Externals(files.db) = {} THEN Empty
                                    ELSE files.db[First(Externals(files.db))].gateway
<1>1. TypeOK /\ LoopbackFirst /\ ExternalHasGateway => A
  BY RouteAfterBoot DEF BootFiles
<1>2. TypeOK /\ LoopbackFirst /\ ExternalHasGateway /\ [Next]_vars => [A]_vars
  BY <1>1
<1>3. [A]_vars => [\A files \in {[db |-> db, conf |-> conf], Defaults} :
                    (\A i \in DOMAIN files.db : ~files.db[i].dhcp)
                        /\ (\E up \in Quick : Boot(files, up))
                    => net'.route = IF Externals(files.db) = {} THEN Empty
                                    ELSE files.db[First(Externals(files.db))].gateway]_vars
  OBVIOUS
<1> QED BY <1>2, <1>3, TypeCorrect, LoopbackStays, ExternalsHaveGateways, PTL
        DEF Spec, BootRoutesThroughExternal

\* Every device with a DHCP record gets its dhclient at boot, although id 0 is never
\* asked: the screens put no DHCP record there, and nothing takes a dhclient away.
THEOREM BootServesDhcp == Spec => BootStartsDhcp
<1> DEFINE A == \A files \in {[db |-> db, conf |-> conf], Defaults} :
                    files.conf = {} /\ (\E up \in Quick : Boot(files, up))
                    => \A i \in DOMAIN files.db : files.db[i].dhcp =>
                            net'.dhclient[files.db[i].device] # "off"
<1>1. TypeOK /\ LoopbackFirst /\ ExternalHasGateway => A
  <2> SUFFICES ASSUME TypeOK, LoopbackFirst, ExternalHasGateway,
                      NEW f \in BootFiles, f.conf = {}, NEW up \in Quick, Boot(f, up)
               PROVE  \A i \in DOMAIN f.db : f.db[i].dhcp =>
                            net'.dhclient[f.db[i].device] # "off"
    BY DEF BootFiles
  <2> QED BY FilesRecords, BootDhcp DEF Boot
<1>2. TypeOK /\ LoopbackFirst /\ ExternalHasGateway /\ [Next]_vars => [A]_vars
  BY <1>1
<1>3. [A]_vars => [\A files \in {[db |-> db, conf |-> conf], Defaults} :
                    files.conf = {} /\ (\E up \in Quick : Boot(files, up))
                    => \A i \in DOMAIN files.db : files.db[i].dhcp =>
                            net'.dhclient[files.db[i].device] # "off"]_vars
  OBVIOUS
<1> QED BY <1>2, <1>3, TypeCorrect, LoopbackStays, ExternalsHaveGateways, PTL
        DEF Spec, BootStartsDhcp

=============================================================================
