------------------------------ MODULE Firewall ------------------------------
(***************************************************************************)
(* The firewall part of the console program (closedbsd/config/rules.c,     *)
(* nat.c, fwmenu.c) and the code that loads its files at boot              *)
(* (closedbsd/init/rules.c).                                               *)
(*                                                                         *)
(* Two files describe the firewall: the script /etc/rules, one             *)
(* "/sbin/ipfw -q <body>" per line, and /etc/nat, which names the device   *)
(* that is translated.  What really filters is in the kernel: the chain of *)
(* ipfw rules, the divert rule 85, and the natd that serves it.  Each menu *)
(* entry edits files and kernel separately; nothing but the order of its   *)
(* calls keeps the two in step.                                            *)
(*                                                                         *)
(* A line is represented by its body.  An absent and an empty /etc/rules   *)
(* are both the empty sequence: every reader loops over the lines.         *)
(***************************************************************************)
EXTENDS Integers, Sequences

CONSTANTS
    Device,     \* names of network devices
    NoDev,      \* "no device": no /etc/nat, no divert rule, no natd
    Body,       \* what can follow "/sbin/ipfw -q " on a line of the script
    Form,       \* struct ruleset values that the two insert screens fill in
    Command,    \* Command[r]: the bodies __insert_rule may build from r
    Raw,        \* bodies typed at the manual prompt
    Refused,    \* bodies that ipfw rejects: usage error, chain unchanged
    Flush,      \* bodies that make ipfw empty the chain
    Cut,        \* Cut[b]: what strtok(.., "q") leaves of b
    Basic,      \* bodies of the four rules of the 'Basic' firewall
    MaxLines    \* bound: the script is not grown beyond this many lines

Notice == {"none", "added", "deleted", "cleared", "enabled",
           "disabled", "noext", "basic", "saveall", "saved"}

ASSUME DeviceAssumption == NoDev \notin Device

ASSUME BodyAssumption ==
    /\ Raw \subseteq Body /\ Refused \subseteq Body /\ Flush \subseteq Body
    /\ Cut \in [Body -> Body]
    /\ Basic \in Seq(Body) 
    /\ \A i \in DOMAIN Basic : Basic[i] \notin Flush

\* The screens build "add ..." commands only, and the forwarding screen offers
\* TCP and UDP only (forward.c:243-252).
ASSUME FormAssumption ==
    /\ Command \in [Form -> SUBSET (Body \ Flush)]
    /\ \A r \in Form : r.action = "FWD" => r.proto \in {"TCP", "UDP"}

VARIABLES
    rules,      \* lines of /etc/rules
    nat,        \* device named in /etc/nat
    chain,      \* ipfw rules in the kernel, rule 85 left out
    divert,     \* device of the divert rule 85
    natd,       \* device of the natd bound to the divert port
    ext,        \* device that dev_ext() finds in the device database
    saved,      \* files in the archive on the floppy
    notice      \* what the console told the operator last

vars == <<rules, nat, chain, divert, natd, ext, saved, notice>>

Devices == Device \cup {NoDev}
Settings == [rules |-> rules, nat |-> nat, ext |-> ext]
Defaults == [rules |-> <<>>, nat |-> NoDev, ext |-> NoDev]

-----------------------------------------------------------------------------
(* What running lines of the script does to the kernel *)

\* The effect of one "/sbin/ipfw -q b" on the chain.
Ipfw(c, b) == CASE b \in Flush -> <<>>
                [] b \in Refused \ Flush -> c
                [] OTHER -> Append(c, b)

\* The chain after the lines of s have been run, in order, on an empty chain.
Replay(s) ==
    LET after[i \in 0..Len(s)] ==
            IF i = 0 THEN <<>> ELSE Ipfw(after[i - 1], s[i])
    IN  after[Len(s)]

\* A flush on a line of the script also removes rule 85.
DivertAfter(s, d) == IF \E i \in DOMAIN s : s[i] \in Flush THEN NoDev ELSE d

\* ruleset(): flush, the divert rule if there is an /etc/nat, then the script.
Ruleset(s, d) ==
    /\ chain' = Replay(s)
    /\ divert' = DivertAfter(s, d)

\* "ipfw -q flush; sh /etc/rules", which knows nothing of /etc/nat.
FlushAndRun(s) ==
    /\ chain' = Replay(s)
    /\ divert' = NoDev

\* system("/sbin/natd -n d"), whose result nobody looks at.  One natd holds the
\* divert port, so a second one quits; a device without an address makes it
\* quit as well.
StartNatd(running, d) == 
    IF running # NoDev THEN {running} ELSE {d, NoDev}

-----------------------------------------------------------------------------
(* Inserting rules *)

\* __insert_rule() turns away a RESET rule for anything but TCP, and gives any
\* other one to ipfw and appends it to the script, whatever ipfw thought of it.
Turned(r) == r.action = "RESET" /\ r.proto # "TCP"

InsertRule(r) ==
    \E b \in Command[r] : /\ rules' = Append(rules, b)
                          /\ chain' = Ipfw(chain, b)

\* OK in the protocol filter screen, which ignores __insert_rule()'s result.
Filter(r) ==
    /\ r.action # "FWD"
    /\ Len(rules) < MaxLines
    /\ notice' = "added"
    /\ \/ Turned(r) /\ UNCHANGED <<rules, chain>>
       \/ ~Turned(r) /\ InsertRule(r)
    /\ UNCHANGED <<nat, divert, natd, ext, saved>>

\* OK in the port forwarding screen; __insert_rule() cannot fail for FWD.
Forward(r) ==
    /\ r.action = "FWD"
    /\ Len(rules) < MaxLines
    /\ notice' = "added"
    /\ InsertRule(r)
    /\ UNCHANGED <<nat, divert, natd, ext, saved>>

\* The manual prompt: raw_add_rule().
RawAddRule(b) ==
    /\ Len(rules) < MaxLines
    /\ rules' = Append(rules, b)
    /\ FlushAndRun(rules')
    /\ notice' = "none"
    /\ UNCHANGED <<nat, natd, ext, saved>>

-----------------------------------------------------------------------------
(* Deleting rules *)

\* The lines but the k-th, each rewritten from its menu title, that is, from
\* the text between the first "q" of the line and the next.
Rewritten(s, k) == [i \in 1..(Len(s) - 1) |-> 
                        Cut[IF i < k THEN s[i] ELSE s[i + 1]]]

\* Mutant: the script is run again without the flush.
MutDropRule(k) ==
    /\ rules' = Rewritten(rules, k)
    /\ chain' = chain \o Replay(rules')
    /\ divert' = NoDev
    /\ notice' = "deleted"
    /\ UNCHANGED <<nat, natd, ext, saved>>

\* delete_rule() shows the menu, drop_rule() is the callback of its k-th item.
DropRule(k) ==
    /\ rules' = Rewritten(rules, k)
    /\ FlushAndRun(rules')
    /\ notice' = "deleted"
    /\ UNCHANGED <<nat, natd, ext, saved>>

\* _afm_flush()
AfmFlush ==
    /\ rules' = <<>>
    /\ FlushAndRun(<<>>)
    /\ notice' = "cleared"
    /\ UNCHANGED <<nat, natd, ext, saved>>

\* _afm_save(), the menu entry "save all settings".
AfmSave ==
    /\ notice' = "saveall"
    /\ UNCHANGED <<rules, nat, chain, divert, natd, ext, saved>>

-----------------------------------------------------------------------------
(* Network address translation *)

\* "You don't have an external device defined!" / "You must first configure.."
NoExternal ==
    /\ ext = NoDev
    /\ notice' = "noext"
    /\ UNCHANGED <<rules, nat, chain, divert, natd, ext, saved>>

\* nat_window(), Enable: enable_nat(dev_ext()).
EnableNat ==
    /\ ext # NoDev
    /\ nat' = ext
    /\ natd' \in StartNatd(natd, ext)
    /\ Ruleset(rules, ext)
    /\ notice' = "enabled"
    /\ UNCHANGED <<rules, ext, saved>>

\* Mutant: /etc/nat is truncated where it should be unlinked.
MutDisableTruncates ==
    /\ nat' = ""
    /\ Ruleset(rules, NoDev)
    /\ notice' = "disabled"
    /\ UNCHANGED <<rules, natd, ext, saved>>

\* Mutant: ruleset() is not called.
MutDisableKeepsDivert ==
    /\ nat' = NoDev
    /\ notice' = "disabled"
    /\ UNCHANGED <<rules, chain, divert, natd, ext, saved>>

\* Mutant: RULESCRIPT is unlinked in place of NATSCRIPT.
MutDisableUnlinksScript ==
    /\ rules' = <<>>
    /\ Ruleset(<<>>, nat)
    /\ notice' = "disabled"
    /\ UNCHANGED <<nat, natd, ext, saved>>

\* nat_window(), Disable: disable_nat(), which composes a killall and leaves it.
DisableNat ==
    /\ nat' = NoDev
    /\ Ruleset(rules, NoDev)
    /\ notice' = "disabled"
    /\ UNCHANGED <<rules, natd, ext, saved>>

\* main_fw_menu(), 'Basic': new script, NAT on, four pass rules, and an offer to
\* save.  The answer may be no, and a failing writetcnp goes unnoticed.
BasicFirewall ==
    /\ ext # NoDev
    /\ rules' = Basic
    /\ nat' = ext
    /\ natd' \in StartNatd(natd, ext)
    /\ Ruleset(Basic, ext)
    /\ saved' \in {saved, [rules |-> Basic, nat |-> ext, ext |-> ext]}
    /\ notice' = "basic"
    /\ UNCHANGED ext

-----------------------------------------------------------------------------
(* The rest of the system, as far as the firewall sees it *)

\* The device screens change which device is external.
ConfigureDevice(d) ==
    /\ d # ext
    /\ ext' = d
    /\ notice' = "none"
    /\ UNCHANGED <<rules, nat, chain, divert, natd, saved>>

\* Mutant: the archive keeps the script it had.
MutSave ==
    /\ saved' = [Settings EXCEPT !.rules = saved.rules]
    /\ notice' = "saved"
    /\ UNCHANGED <<rules, nat, chain, divert, natd, ext>>

\* The main menu's Save, when it succeeds.
Save ==
    /\ saved' = Settings
    /\ notice' = "saved"
    /\ UNCHANGED <<rules, nat, chain, divert, natd, ext>>

\* A reboot empties kernel and /etc; init puts the files of the archive ("Import")
\* or the defaults ("Boot") in /etc and runs ruleset(), then natset().
Boot(files) ==
    /\ rules' = files.rules
    /\ nat' = files.nat
    /\ ext' = files.ext
    /\ Ruleset(files.rules, files.nat)
    /\ natd' \in StartNatd(NoDev, files.nat)
    /\ notice' = "none"
    /\ UNCHANGED saved

-----------------------------------------------------------------------------
Init ==
    /\ rules = <<>> /\ chain = <<>>
    /\ nat = NoDev /\ divert = NoDev /\ natd = NoDev /\ ext = NoDev
    /\ saved = Defaults
    /\ notice = "none"

NatWindow == EnableNat \/ DisableNat

Next ==
    \/ \E r \in Form : Filter(r) \/ Forward(r)
    \/ \E b \in Raw : RawAddRule(b)
    \/ \E k \in DOMAIN rules : DropRule(k)
    \/ AfmFlush
    \/ AfmSave
    \/ NoExternal
    \/ NatWindow
    \/ BasicFirewall
    \/ \E d \in Devices : ConfigureDevice(d)
    \/ Save
    \/ \E files \in {saved, Defaults} : Boot(files)

Spec == Init /\ [][Next]_vars

-----------------------------------------------------------------------------
(* Properties *)

\* Type invariant: the script and the chain hold bodies, the rest devices.
SavedFiles == [rules : Seq(Body), nat : Devices, ext : Devices]

TypeOK ==
    /\ rules \in Seq(Body) /\ chain \in Seq(Body)
    /\ nat \in Devices /\ divert \in Devices /\ natd \in Devices
    /\ ext \in Devices
    /\ saved \in SavedFiles
    /\ notice \in Notice

\* The rules in force are those the script would install, in its order: what the
\* operator lists is what the next boot or NAT change will rebuild
\* (rules.c:241-243, 358-359, 383-385; nat.c:76-95).
ChainIsScript == chain = Replay(rules)

\* The kernel never diverts packets of a device that /etc/nat does not name
\* (nat.c:62, 79-86).
DivertNamesNatDevice == divert # NoDev => divert = nat

\* Turning NAT on or off rebuilds the whole chain, and still leaves the filter
\* rules exactly as they were in force (nat.c:63, 119).
NatLeavesRules == [][NatWindow => chain' = chain /\ rules' = rules]_vars

\* Rebooting with Import right after a successful Save brings back the rules that
\* were in force, and NAT on the device it was set up for.
SaveThenImport ==
    [][notice = "saved" /\ Boot(saved) => 
            /\ chain' = chain
            /\ divert' \in {nat, NoDev}
            /\ natd' \in {nat, NoDev}]_vars

-----------------------------------------------------------------------------
(* What the program says of itself, and does not do *)

\* "This option will stop Network Address Translation if it is currently
\* running" (nat.c:39).
DisabledMeansNatdStopped == notice = "disabled" => natd = NoDev

\* "Please select a rule to remove" (rules.c:341): the others stay as they were.
DropRemovesOneRule ==
    [][\A k \in DOMAIN rules : DropRule(k) =>
            rules' = SubSeq(rules, 1, k - 1) \o SubSeq(rules, k + 1, Len(rules))]_vars

=============================================================================
