# Verification of ClosedBSD

ClosedBSD is a firewall that boots from a CD. There is no disk: `/etc` is a
memory file system that init fills at boot from the CD's defaults or from an
archive on a floppy, and everything the operator configures lives in `/etc`, in
the kernel and in a few daemons until the archive is written again. The
operator works on one console, through the dialog screens of `closedbsd/config`.

The code is sequential, and still hard to get right: the same setting is kept in
up to four places (a file in `/etc`, the kernel, a daemon, the archive), every
screen updates them with its own list of `system()` calls whose results are
hardly ever looked at, and the boot code reads the files back with different
code. The first half of the project models those places as variables and the
screens as actions, and asks whether they stay in agreement over every sequence of
screens, failures of external commands and reboots.

The second half follows the commands that those screens give into the programs that
the CD carries with its source: what `ipfw` makes of the words, how natd follows
its interface, how passwords become databases, how disks get labels and file
systems, and how the archivers, `grep` and `dd` handle their buffers when reads return
less than asked for.

## 1. Inventory

| part | source | state | operations |
|---|---|---|---|
| firewall rules | `config/rules.c`, `config/fwmenu.c` | `/etc/rules`, ipfw chain | insert (filter, forward, manual), delete, flush, list, 'Basic' |
| NAT | `config/nat.c`, `init/rules.c` | `/etc/nat`, divert rule 85, natd | enable, disable, rebuild (`ruleset`) |
| rule screens | `config/filter.c`, `config/forward.c`, `config/misc.c` | focus, highlights, stars, typed text, `struct ruleset` | one transition per key, OK, Cancel |
| stand-alone rule editor | `ipfwconfig/` | the same, and the list shown for deleting | insert, raw command, delete, flush, beside other sessions |
| command text | `config/rules.c`, `sbin/ipfw/ipfw.c` (`add`, `show_ipfw`) | none (pure) | fields to words, words to a kernel rule, a rule to words |
| network devices | `config/devices.c`, `config/ifcon.c`, `config/db.c` | `/etc/devices.db`, addresses, default route, dhclient | static and DHCP configuration, external device |
| boot-time network | `init/devices.c`, `init/rules.c` | same, rebuilt | `config_devices`, `ruleset`, `natset` |
| archive | `config/menu.c`, `writetc`, `writetcnp`, `restoretc` | floppy: format, mount, `etc.tar.gz` | save, format, restore |
| init | `init/init.c` | `/etc`, `boot_params`, login child | boot menu, start-up order, login loop |
| passwords | `passwd/passwd.c`, `usr.sbin/pwd_mkdb` | `master.passwd`, `mpw.tmp`, databases | change password, rebuild |
| natd | `sbin/natd/natd.c` | one packet buffer, the address, the links given to libalias | packet loop, routing messages, signals, options |
| account databases | `usr.sbin/pwd_mkdb` | lock, temporary files, two databases | rebuild, update of one user |
| disk preparation | `sbin/disklabel`, `sbin/newfs` | label on disk and in the kernel, boot area; groups, maps, summaries | show, edit, restore, write; format |
| archivers | `usr.bin/tar`, `usr.bin/gzip` | block of records, volumes; window, hash chains, codes | create, extract, append, update, delete; compress, expand, files |
| text and block tools | `usr.bin/grep`, `bin/dd`, `sbin/ping` | buffers; table of answers | search; copy; send and receive |
| dhclient-script | `release/.../dhclient-script` | addresses and routes | bound, rebound, expired |
| monitor, summary | `config/mon.c`, `config/sum.c` | none that outlives the screen | display |
| routing commands | `sbin/route` | the kernel's table (external) | add, change, delete, flush |
| other userland | `sbin/ifconfig`, `sbin/mount`, `bin`, ... | kernel tables | one or two system calls a run |

How the parts interact: a screen edits its file and runs `/sbin/ipfw`,
`/sbin/ifconfig`, `/sbin/route`, `/sbin/natd` or `/sbin/dhclient` itself. NAT
and 'Basic' read the device database (`dev_ext`, `ext_exist`). 'Save', 'Basic'
and `passwd` run `writetcnp`, which archives the whole of `/etc`. At the next
boot init's child restores `/etc`, and the parent, after it, runs
`config_devices`, `ruleset` and `natset`, and then serves logins for ever.

What is hard, and what makes each part correct:

| part | hard behaviour | correct when |
|---|---|---|
| firewall rules and NAT | four copies of one setting; a flush by one screen removes what another installed | chain = what the script installs; the divert rule serves the device in `/etc/nat`; a saved state comes back after a reboot |
| network devices | two copies of the route and address code (screen and boot) that differ; lookups that stop at the first of several records; leases that change under the screens | the loopback keeps record 0; no screen loses a record; static addresses stay in force; boot routes through the device NAT uses |
| archive | every command may fail, unnoticed; power may go off inside `tar` | a save in which nothing fails has saved; the archive never holds anything but some past `/etc` |
| passwords | an abandoned run leaves a file behind; pwd_mkdb installs in two renames | the typed password is in force and archived |
| init | `wait()` for any child; daemons become children of process 1; a failing exec falls through | one login child per waiting server, always again |
| rule screens | focus, highlights and stars drawn by hand, by separate code for each key | what is highlighted is where the next key acts; the stars are the rule that is added |
| stand-alone editor | the list it deletes from is older than the script it writes | no rule of another session is lost, unless that list was behind |
| command text | fixed-size fields; options that do not fit the protocol; words order | ipfw reads in the line what the form said; what it lists is a command for the same rule |
| natd | signals between any two steps; one buffer for packets in both directions; a kernel buffer that is full | no change of address is forgotten, no unsent packet overwritten; a natd told to stop stops; ports go where they were sent |
| account databases | two files replaced one after the other; runs that overlap and are killed | each database is whole, both belong together, the text is never newer |
| disk preparation | the label in three places; maps, counts and copies kept by separate code; last group cut short | what was typed is on the disk and can be read again; no used fragment is in a free map |
| archivers | reads that return less, volumes that end anywhere, members that change while they are read; encoder and decoder with separate code | what was put in comes out |
| routing commands | words whose meaning depends on options before and after them; a gateway with several addresses; a flush that is not alone | the table changes by the route that was meant; a flush leaves no gateway route and every other |
| text and block tools | a line, a record or a hole across two buffers; three searchers that must agree; a table of bits used over and over | the matching lines, each once; the bytes that were read; each answer once |

The hazards, each at its line, are in `PROJECT.json`. Its map gives the lines each definition was
translated from; a small helper whose lines lie within those of a definition that uses it is read
with that one and not listed.

## 2. Modules

| module | stands for | role |
|---|---|---|
| `Firewall` | `config/rules.c`, `nat.c`, `fwmenu.c`, `init/rules.c` | component |
| `Devices` | `config/devices.c`, `ifcon.c`, `db.c`, `init/devices.c`, `dhclient-script` | component |
| `SettingsStore` | what saving and importing promise | abstract specification |
| `Archive` | `config/menu.c`, `writetcnp`, `restoretc`, the boot menu | component, implements `SettingsStore` |
| `Passwd` | `passwd/passwd.c`, `usr.sbin/pwd_mkdb` | component |
| `InitProcess` | `init/init.c` | component |
| `FilterForm`, `ForwardForm` | `config/filter.c`, `forward.c`, `misc.c`, and their copies in `ipfwconfig` | components |
| `RuleText` | `__insert_rule` (`config/rules.c`); `sbin/ipfw/ipfw.c`, `add` and `show_ipfw` | functions |
| `RuleScreens` | both screens with the items of `config/misc.c` | composition |
| `Console` | `RuleScreens` with `RuleText` | composition, implements `Firewall` |
| `RuleEditor` | `ipfwconfig/main.c`, `rules.c` | composition with other sessions |
| `Natd`, `NatdOptions` | `sbin/natd/natd.c`, loop and options | component, functions |
| `PwdMkdb` | `usr.sbin/pwd_mkdb/pwd_mkdb.c`, `pw_scan.c` | component |
| `Disklabel`, `Newfs` | `sbin/disklabel/disklabel.c`; `sbin/newfs/newfs.c`, `mkfs.c` | components |
| `Route` | `sbin/route/route.c` | component |
| `TarDrive`, `Tar` | `usr.bin/tar/buffer.c`; `create.c`, `extract.c`, `list.c`, `update.c`, `tar.c` | component on its drive |
| `Huffman`, `Deflate`, `Inflate` | `usr.bin/gzip/trees.c`, `bits.c`, `deflate.c`, `inflate.c` | functions, component, its inverse |
| `GzipFile` | `usr.bin/gzip/gzip.c`, `zip.c`, `unzip.c`, `util.c` | component |
| `Dfa`, `Kwset`, `Regexp`, `Grep` | `usr.bin/grep/dfa.c`, `kwset.c`, the regex library, `grep.c`, `search.c` | functions, external, component |
| `Dd`, `Ping` | `bin/dd`; `sbin/ping/ping.c` | components |
| `Userland` | gzip, pwd_mkdb, ping, the editor, natd's options and route, one at a time | composition, with their properties |
| `MC*`, `UserlandCases` | constants, inputs and symmetry of the runs | model checking |
| `*Proofs` | theorems | proofs |

**Firewall.** `rules` and `nat` are the files, `chain`, `divert` and `natd` the
kernel's rules, divert rule 85 and the daemon bound to the divert port, `ext` the
device `dev_ext()` would return, `saved` the archive. `Filter`, `Forward`,
`RawAddRule`, `DropRule`, `AfmFlush`, `AfmSave`, `EnableNat`, `DisableNat`,
`BasicFirewall` are the menu entries; `Boot` is the boot code, which rebuilds the
kernel part from the files. `Replay` is `sh /etc/rules`. The text of a rule is
abstract: a body is accepted by ipfw, refused, or empties the chain (a manual
`flush`), and `Cut` is what `strtok(.., "q")` leaves of it.

**Devices.** `db` is the btree in key order, `conf` the device that
`/etc/dhclient.conf` names, `net` the addresses, the default route and the dhclient
daemons. `DhcpConfig`, `NewStatic`, `Overwrite` and `Decline` are the outcomes of
the device screens with every command they run; `Answers` is what `ifs_cfg()`
knows after its questions, including the fields it reads without having set them:
each value they may hold is one alternative. `Boot` runs `config_devices` over
all records; `Bound`, `Rebind` and `Expire` are dhclient-script, at any time.

**Archive.** `pc` is the command that comes next; each command is an action with
its failures, and `PowerOff` interrupts any of them. `format`, `file` and
`mounted` are the floppy, `clean` is a history variable: no command of this save
has failed.

**Passwd.** The entries of root in `master.passwd` and `mpw.tmp` are sequences of
passwords, because order decides: pwd_mkdb keeps the first of several entries of
one name. `ok`, `fresh` and `said` are history variables that the properties use.

**InitProcess.** `at` says where process 1 and its first child are in the code,
`state` and `parent` follow the login children. `stray` is a history variable: by
how many children process 1 has miscounted.

**FilterForm, ForwardForm, Console.** `p` is the number of the focus as in the code,
`boxes` what the drawing functions left on the display (a highlighted line and a star for
each box), `rule` the struct that OK inserts and `text` the fields. One action stands for
one key at one place, with all it redraws. `Console` puts the screens behind the menu:
`FilterOK` and `ForwardOK` copy the fields with their widths (`FilterFields`), make the
words (`FilterCommand`) and give them to `Parse`, which is `add()` of ipfw, word by
word; `chain` holds the rules it makes. `ImplementsFirewall` maps a line to `"pass"` or
`"bad"`, whichever ipfw made of it, and the screens' structs to `Form`.

**Natd.** `pc` is the place in the loop, `packetBuf` and `packetSock` the buffer and the
socket that was full, `alias` what libalias translates to, `ifAddr` the address the
interface really has, `routes` the routing messages not yet read, `assignAliasAddr` the
flag. `Signals` come between any two steps. `NatdOptions` is the part that runs
before: ports are numbers with their width, and a range is packed into one as `port_range`
is.

**RuleEditor.** `rlist` is what each session's list held when it was opened and `behind` says that
the script has changed since; every session's operations may come at any time. `intended` is a
history variable, the rules as the operators see them: when a list is written that was behind, or
that held another line with a q in it, it goes on from what is there.

**PwdMkdb.** Runs share the directory: `db.tmp` names, databases and `master.passwd` are
files with contents; a lock is a lock on the file that is there when it is taken. Each system
call is an action, and a run may be killed before each of them.

**Disklabel.** `dev` is the disk, with the label at each place of the boot area, and the
label in the kernel; `said` holds the three arrays of statics that `getasciilabel` fills,
which is why they are state: they outlive a command's editing round. Numbers have a `Width`, and
sectors and units are constants, small in the run. **Newfs** computes with the real sizes: a disk
is a set of extents, and `group` is the one cylinder group in memory.

**TarDrive, Tar.** A drive is a record of the statics of `buffer.c`, and its operators
give the drive after each call; `Tar` keeps a stack of what a run has still to do. A
file may shrink while it is read, volumes end anywhere, and a pipe returns what it has.

**Deflate, Inflate, Huffman.** The compressor's state is that of `deflate.c`, with the
constants made small; one action is one round of its loop or one `fill_window`. Trees
are functions from codes to lengths. The decompressor is a function of the bits.
**GzipFile** has the files: names, the output opened, the handler that unlinks it.

**Grep.** One action is one piece of the file read and searched. `Dfa` compiles a pattern
as the code does, tokens, positions, followpos and constraints, and `Kwset` searches the words
that any match must hold; `Regexp` is the external library, and the meaning
patterns have in the property.

**Route.** The words of a command are read one by one into the statics of `newroute` and
`getaddr`, and the message is what they hold in the end, so that an option may come too late;
`table` is the kernel's, which other programs change while `dump`, read once, is flushed; `others`
is a history variable: what they deleted and added meanwhile. The second half of the module is
what the manual says of a command (`Plain`: of which ones), by the options it has rather than
word after word.

**Dd, Ping.** `Dd` keeps the input and output buffers as sequences of bytes, and in `db` the array
behind the output buffer with the old bytes that are still in it; `Ping` its table
of bits, the answers on their way and the counters.

The components of the console share no variables: they meet in the archive and at boot,
and each has the part of both it depends on (`saved`, `archive`, `Boot`). What one needs
of another enters as a nondeterministic choice: `ConfigureDevice` in `Firewall`
allows any change of the external device, `StartDaemon` in `InitProcess` any daemon,
so composing them only removes behaviours. The programs of the CD keep nothing between two
runs but their files; they are instantiated over the same registers `r1` to `r14`,
with `program` saying which one runs: `Userland` has those whose properties are proved,
`MCUserland`, which extends it, the others.

## 3. Runs

| run | question | bounds | states |
|---|---|---|---|
| `firewall` | do script, kernel, `/etc/nat` and archive agree over every sequence of screens, saves and reboots? | 2 devices, 4 kinds of bodies, 2 lines | 286 725 |
| `devices` | does a device keep its record, address and route over every sequence of screens, leases and reboots, with a form filled in or not? | loopback and 2 devices, 3 records, 2 gateways, a form without address and gateway | 147 185 |
| `archive` | does a save with failing commands and power cuts implement the store, and end? | 3 contents of `/etc` | 1 429 |
| `passwd` | what does a clean run of passwd leave, after any abandoned ones? | 3 passwords, 3 entries | 3 771 384 |
| `init` | once the boot menu has been left, does a prompt always return, and are there only as many as there should be? | 5 login children, 2 daemons, 2 stray deaths | 143 985 |
| `console` | over every sequence of keys, do the displays say what OK inserts, does ipfw read it so, and are the screens an implementation of `Firewall`? | 3 contents of a host field (one negated net), 4 of a port field (one of five digits), addresses of 2 bits, 1 line | 1 904 367 |
| `natd` | over every order of packets, full buffers, changes of address and signals, is nothing forgotten, and does natd stop? | 3 command lines, 2 addresses, packet numbers modulo 2, 2 waiting packets | 13 688 |
| `userland` | does each program of the CD give what its input asks for, one run or session at a time? | below | 821 923 |

The run `userland` starts one program in each behaviour, with inputs chosen so that its hard
cases happen:

| program | property | inputs |
|---|---|---|
| gzip, the coder | `GzipLossless` | texts of up to 40 bytes of two bits, windows of 16 (so that they slide), 3 levels, blocks of 14 symbols, codes of at most 4 bits |
| gzip, files | `TextsKept` | every state of four names (absent, plain, one or two members, garbage, corrupt, foreign), 8 sets of options, a signal anywhere, reads that fail |
| ipfw | `ListIsRule` | some 19 000 commands: actions, protocols, hosts, ports and endings in all combinations |
| grep | `GrepSelects` | 27 patterns basic and extended, 6 lists of words, 7 files, contexts, inversion, `-w`, `-x`, `-i`; reads of 2 and 5 characters |
| dd | `DdWrites` | block sizes that divide one another and that do not, records, with a last one that ends or not, holes, at the end of the output too, `sync`, `osync`, `noerror`, `notrunc`, short reads and writes, one failing read |
| pwd_mkdb | `DatabasesWhole` | two runs at once, whole or of one user, killed anywhere |
| ping | `PingCounts` | answers lost, doubled, reordered and of others; a table shorter than the numbers |
| natd, options | `RedirectsAsTyped` | three options: an interface and two redirections, the first with ports of 4 bits in single form and in ranges, pools, remote ports and addresses; or any of 13, files and errors among them |
| ipfwconfig | `KeepsRules` | two sessions, scripts of up to two lines, one command with a q that the list cuts and one that ipfw refuses |
| tar | `TarRestores` | trees with a directory, holes, links, long names, devices; files that shrink; sessions of create, append, update, delete and extract, with and without `-i`; one to six volumes |
| newfs | `Formats` | floppies of 140 to 2880 sectors with 17 sets of options (last groups that are whole, short or too short, block and fragment sizes, densities), 12 sets that are refused, odd labels |
| disklabel | `LabelsAsTyped` | disks of 100 sectors of 2 bytes, numbers of 8 bits, units of 4, 16 and 64 bytes; four partitions with sizes in units, shares, the rest, given and following offsets, sizes and ends that wrap; texts with errors; commands after one another |
| route | `RoutesAsTyped` | 15 destinations with `-net`, `-host` or neither, 6 gateways (near, far, with two addresses, an interface), masks, metrics and locks, 3 tables; flushes with another program at work |

Why the bounds are enough. *Lines:* the script is rewritten one line at a time and
replayed from the start, so two lines show every order of an accepted, a refused
and a flushing line; the theorems cover scripts of any length. *Devices and records:*
two Ethernet devices are enough for one to be external and the other to take it
over; three records allow a second record of one device. *Passwords and entries:*
an abandoned password, a new one and the CD's; three entries allow one stale
entry in front of a new one, and one run after that. *Login children:* one for each
of two servers, one for each stray death that `MaxStray` allows and one for the child's
own end; no behaviour runs out of process ids. *Screens:* one rule at a time is in the
hands of a screen, and the theorems cover scripts of any length and every word that may be in a
field; commands that ipfw refuses come from fragments with ports, from IP rules and from
forwarding; the port of five digits loses its last one. *natd:* two packets and numbers suffice for one in the
buffer and one that would overwrite it. *Programs of the CD:* constants are small where the code's size only
says when something wraps or fills (windows, buffers, tables, and in disklabel sectors, units and
the width of a number), and each wraps and fills in the runs; they are the real ones in newfs,
where the arithmetic is what is checked. The inputs there are chosen cases, not all inputs of a
size: a pass says nothing of what is not among them. Symmetry is used in `firewall` and `devices`,
which have no liveness property, over the devices, which no constant tells apart.

Deadlock is checked everywhere but in `init`, where the machine stops when process 1
ends, and in `natd` and `userland`, where the programs do.

Each property has a mutant of the code's behaviour (`Mut...`, next to the action it
replaces) under which its run fails.

## 4. Fairness

`Archive`: weak fairness of `Save` and `Restore`, that is, of the commands of a save
or of `restoretc` that has begun. They run in one sequential process that waits for
nothing but the disk, and the two dialogs in a save wait for a key that only
continues it. Nothing is assumed of the operator, and the power may go off.

`InitProcess`: weak fairness of process 1's first `fork()`, of its return from waiting for a
child that has ended `/etc/rc`, of `wait()` when there is a dead child, and of each server's
own steps: a runnable process of the kernel runs. None is assumed of `DoRc`, the
child's step, because it begins with the boot menu, which waits for a key (`init.c:134`);
`SessionReturns` starts where the menu has been left. Nothing is assumed of users, who may stay at
the menu or at a prompt for ever, of daemons or of `fork()`, which may fail each time.

`Natd`: weak fairness of its steps, which a running process takes (a step that waits in
`select` or `recvfrom` is not enabled), and of the alarm that SIGTERM has set. Nothing is
assumed of packets, addresses or signals; so a natd that was told to stop and gets no
further packet may never end, and `StopIsSeen` does not say that it does.

The other components have safety properties only.

## 5. Theorems

All are proved for any value of the constants under the named assumptions of the
modules (`DeviceAssumption`, `BodyAssumption`, ...), which say no more than that the
special values differ from ordinary ones and that screens build `add` commands.

* **Firewall.** The invariant of `FirewallProofs` is `TypeOK`, `ChainIsScript`,
  `DivertNamesNatDevice` and `SavedIsCurrent` (right after a save the archive is
  `/etc`). `ChainIsScript` needs facts about the recursive function `Replay`, above
  all that replaying one more line is one more `Ipfw` step (`ReplayAppend`). They are
  proved by induction over the length of the script, in the form of a set of good
  lengths (`InductionUpTo`). Theorems `ScriptInForce`, `DivertAgrees`, and the action
  properties `NatKeepsRules` and `ImportRestores`.
* **Devices.** `LoopbackFirst` is inductive with the types: no screen can insert
  before record 0, and the loopback's record is overwritten in place.
  `ExternalHasGateway` is inductive with them as well. `StaticInForce` is not: it has to
  survive a reboot that rebuilds the network from nothing, so it is proved together
  with what `config_devices` leaves in force after each prefix of the records
  (again by `InductionUpTo`), and with `LoopbackFirst`, because boot treats record 0
  as static without looking. Theorems `LoopbackStays`, `ExternalsHaveGateways`,
  `RecordsAreKept`, `AddressesInForce`. The same argument over prefixes gives two action
  properties of a boot: `BootAgreesWithNat` (after the first external record no other one
  takes the route, and that there is a gateway to route to is `ExternalHasGateway`, so the
  theorem needs that invariant too) and `BootServesDhcp` (no later record stops a dhclient,
  and record 0, which boot does not ask, is never one with DHCP).
* **Archive.** The invariant says what the save has achieved before each command if
  nothing failed (`Progress`) and how many runs of `writetcnp` are left (`Counting`).
  `CleanSaveArchives` follows, and `ArchiveImplementsStore` shows each command, failed
  or not, to be a step of `SettingsStore` or a stutter, under the mapping in
  `Archive` (an archive counts only if the file system holding it is complete).
* **Passwd.** `CleanRunSets` is strengthened by what holds at each point of a run:
  `mpw.tmp` holds only the run's own entries until the rename (`Preparing`), which are
  installed afterwards (`Installed`) and then archived (`Archived`); and there is always
  an entry of root to replace (`Entries`).
* **InitProcess.** `LoginsAccounted` is inductive with the types and `StartsAlone`
  (there is no child before the first fork); `NeverWaitsAlone` follows. The proof
  counts sets of children with the theorems on cardinalities.

* **Natd.** `AddressIsFollowed` rests on `AddressInv`: a message is read before the address
  is assigned, so that at the one place where the flag is about to be cleared (`assigned`)
  either the address given was the interface's or a newer message is waiting; a SIGHUP that is
  lost there does no harm. `UnsentIsKept` assumes one socket
  (`OneSocketEach`) and rests on `BufferInv`: no place of the loop that reads can be reached
  with a packet unsent, which has to be followed through the set of ready descriptors.
* **Console.** The invariant is `ScreenInv`: in either screen the focus is in range, the
  rule is one that can be built, every box has exactly the highlight and the star that follow
  from them. Each key preserves it for any display that satisfies it (`LeaveKeeps`,
  `TabKeeps`, `SpaceKeeps`, ...), which gives `FocusIsShown` and `MarksAreShown`. With `RefInv`
  (a screen is open only while there is room for a line) every OK is a step of `Firewall`,
  whatever the words are and whatever ipfw makes of them, and every key a stutter:
  `ScreensImplementFirewall`. It needs what `Append` does to the sequences of bodies that
  stand for script and chain (`BodiesAppend`, `PassedAppend`).

  `FilterAddsWhatIsShown` follows a command through all of ipfw's parser, for addresses of any
  width and any port. A command is eight parts and what may be left behind them (`Line`,
  `CommandIsLine`); `Holds(ws, n, s)` says that the line `ws` has the words `s` behind the
  first n, and `LineIsLaid` where each part lies. Then each function of `add()` is shown to take
  its own part, to add what that part means, and to stop at the next one (`Begins`, `HostTaken`,
  `FromRead`, `ToRead`, `DirectionRead`, `OptionRead`): the keyword that comes next is never one
  the part before would take. The option loop is a recursive function of the number of words;
  a command of the screens needs at most three rounds, and a state in which all words are taken,
  or one is refused, stays (`UpToThreeRounds`, by `InductionUpTo`). `CommandRead` puts
  these together, and `Finish` adds what is implied (`RuleMade`). On the side of the screen,
  `MeantIsMade` shows that the rule that items and fields mean is made of the same parts, unless it
  is one of the two that the program alters (`Altered`, section 6), and
  `UnusableIsUnread` that the fields `Unusable` names are those that some part refuses.
  `TypedInv` says that a field holds something that was typed. `TypedAssumption` bounds what that
  is: nothing, or one host with an optional `not`; nothing, `any`, a number of at most five digits,
  or a word that is no port. A host field with further words in it (ports, or an option behind the
  host) is outside this theorem and outside the runs. `RoomAssumption` says that the parser
  has room for one port on either side and for the ICMP types of the screen.

* **The programs of `Userland`.** One invariant, `UserlandInv`, says of whichever program runs
  that its own invariant holds; `UserlandStep` has one case for each. The assumptions are those of
  `Userland`, which TLC evaluates in the run `userland`.
  * *gzip* (`GzipKeepsTexts`, under `GzipCommandLines`: names are a base and a suffix, files are of
    parts). That every text lies in a whole file is not inductive, because at the moment the input
    is removed it rests on what is in the output. `GzipInv` adds, for each place in the code, which of
    the two files has the texts (`Progress`): the input while the output is being written and a
    signal would remove it, both when it is closed, and the output alone only when the handler no
    longer knows its name. Input and output differ in their suffix (`NamesDiffer`).
  * *pwd_mkdb* (`PwdMkdbKeepsDatabases`, under `PwdCasesLoad`). `LockOK` says that one run at a
    time is between its first database and its last move, and what a run that has to give up would
    unlink; `TmpOK` what lies under the temporary names then, as far as nobody else may have unlinked it;
    `InPlace` which databases are in place. `PwdCasesLoad` says that reading the lines of a case to the
    end makes the database of that case, a fact about a recursive function of data that TLC
    evaluates for the cases of the run.
  * *ping* (`PingCountsEchoes`, under `PingTableFits`: the numbers of `icmp_seq` are a multiple of
    the table). `BitsTell` says of the last numbers sent, as many as the table has bits, that the bit is
    set just when the echo was answered; two of them have different bits (`RemaindersDiffer`), and the
    bit of a number is cleared before it is sent. The counters are the cardinality of the answered
    numbers and the rest.
  * *ipfwconfig* (`EditorKeepsRules`, for any sessions, commands and lengths of the script). `EditorInv` adds to
    the property that a list that is shown is behind or has the titles of the script's lines
    (`ListsTell`): a list whose owner is not told of a change would pass the property until the
    item is chosen. That the rules in force stay those of the script when a screen appends to both is
    `OneMoreReplayed`, by induction over the lines; that removing a line from the titles is
    removing it from the script is `RemovedSame`. The screens are shown to be the console's, drawing
    by drawing (`SameMoves`, `SameForward`, ...), and so their invariants are those of
    `ConsoleProofs`.
  * *natd's options* (`NatdRedirectsAsTyped`, under `NatdCommandLines`: there are two ports or more,
    and the words of a redirection are ports, ranges, addresses with ports, addresses or pools, or
    words that are none of these). A range that is taken is the ports that were typed (`RangeTyped`:
    the one range whose number does not fit its half of the word is that of all ports, and it is refused), so
    the links made of three ranges lead as they should (`PairLeads`, `PoolLeads`, `LinksLead`). No option,
    and no file with options, changes a link that is there (`PlainExtends`, `FileExtends`), which
    follows the recursive functions of `NatdOptions` by `InductionUpTo`; so the links of each
    redirection are still in their place when natd starts (`OptionsRead`, `MiddleOf`). Nothing is said
    of redirections in which a typed number is no port: `scanf` takes it modulo 65536.
  * *route* (`FlushTakesTheGateways`, under `RouteTables`: at the start each key is that of one route
    in its family, and what other programs add are inet routes). That a flush leaves no gateway route
    is not inductive: it rests on what is still in the dump. `FlushInv` says that keys stay unique, so
    that a deletion, which goes by the key, takes the route it is for or one that was added under its
    key; and that, while nobody was ahead, each route to be flushed that is still there is in the
    dump, new, or gone (`FlushOneKeeps`, `OtherKeeps`). It holds from any table that add, change and
    delete can make (`NewRouteKeeps`).
    That the other commands do as typed (`RouteDoesAsTyped`) needs `RouteWords` too: the words are
    those `IsWord` lists, each name the resolver knows has an address, no interface is called like a
    host, and what is near is an address or an interface. The words are read one at a time, and the
    induction over them (`ItemsRead`, by `InductionUpTo`) says what has been read after each prefix:
    which options (`OptionsTo`), and which addresses once the destination, the gateway or the mask
    has been passed (`AddressesTo`); so the order and the repetition of options do not matter.
    `Finished` then makes the key and the flags that are meant, and the attempts stop at the
    first of the gateway's addresses that can be reached (`Reaches`, `LastAttempt`). `CommandInv`
    carries this from the end of a command to the next one. It is about commands with a meaning in
    the manual (`Plain`): for the words section 6 names, nothing is claimed.

Only model-checked:

* the liveness properties `CommandsEnd`, `SessionReturns` and `StopIsSeen`, which need fairness;
* `GzipLossless`, `GrepSelects`, `DdWrites`, `TarRestores`, `Formats`: what a recursive definition
  computes from arbitrary data (codes, automata, buffers, archives, maps), in modules that declare
  recursive operators, which the prover does not take;
* `ListIsRule`, `LabelsAsTyped`: relations between a text that is read and one that is
  written or a message, for which induction over the words would be needed.

## 6. Disagreements found

Four places where the program does not do what it says of itself are runs that must fail:

| run | what the counterexample shows |
|---|---|
| `firewall_disable_nat` | Disable composes a `killall` and never runs it: natd keeps running |
| `passwd_new` | after an abandoned run, the next run puts the abandoned password in force |
| `console_forward_port` | a forwarding rule with a port in digits never reaches the kernel: its port and `to` are glued together (`rules.c:41`) |
| `console_echo_request` | a rule with the item ECHO_REQUEST, for "ICMP echo requests", is about ICMP type 5, redirects (`rules.c:227`) |

The models have more behaviours of that kind. They are part of the definitions, and the
properties are stated around them; where a property excludes one, its comment or definition
says so.

**Console.** Deleting a rule cuts other rules at their second letter q
(`Rewritten`); 'Overwrite?' Yes leaves the DHCP record of a device behind (`Overwrite`), and
overwriting the default gateway may keep the old one, because `d.id` and `d.ext` are read
before they are set (`Answers`); a floppy with an archive whose mount fails is called
unformatted, and formatted (`Archive`). Enabling NAT again after the external device changed
leaves natd on the old one (`StartNatd`); adding or deleting a rule removes the divert rule, so
NAT pauses until the next boot (`FlushAndRun`); 'Save' in the firewall menu does nothing
(`AfmSave`); a RESET rule that is not TCP is announced and not added (`Filter`); with a
`dhclient.conf` a boot serves only the device that file names (`BootDevice`); 'Overwrite?' No
keeps what `unset_ext` did (`Decline`); the typed netmask is used at boot only
(`IfconfigNow`); a failed save and a failed import look like successful ones (`WUmount`,
`Import`).

**Rule screens and command text.** Tab puts the focus on the second protocol while the first
is highlighted (`FocusIsHighlighted` allows for it); the help for the direction is erased as
soon as it is shown (`filter.c:74`); for the address to forward to, `misc.c:84` offers `me`, `any`
and `addr:mask`, which ipfw refuses; IP and ICMP rules drop their ports without a word; a port of five
digits loses its last one on the way to ipfw (`FourDigits`; `fw.h:53`). `Meant` is the rule with echo
requests as type 8 and the whole port; where the program makes another of it, the rule is one of
`Altered`, and `AddedIsShown` says only that there is one rule more.

**ipfwconfig.** `drop_rule()` writes the list as it was when the menu opened over what other
sessions did since (`DropRule` takes such a write for what is intended from then on); entries from 100 on are numbered in
two digits (`pr[3]`).

**natd.** With a socket for each direction the second read overwrites a packet that could
not be sent (`natd.c:370-394`; `UnsentKept` is stated for one socket); a SIGHUP that comes
while the address is being fetched is lost (no harm, see `AliasFollows`); the alarm may come
between the test of `running` and `select`, and natd then waits for another packet; natd
exits when its interface has lost its address (`natd.c:804`). Options: `log_denied no`
turns it on; the range 0-65535 is refused; single ports above 65535 become others; `80-`
uses a `hiPort` that was never set.

**gzip.** A signal after the output is complete, or an early error of the next file, removes a file by a
stale `remove_ofname` (`gzip.c:884`, 1750); a read error is taken for the end of the file, and
the shortened output replaces the input (`zip.c:107`); a member that ends with the input buffer
drops those that follow (`gzip.c:825`).

**grep.** `x{0}` is read as `x?` (`dfa.c:931-964`; `grep.1:462`); a basic `a^b` takes `^`
as an anchor (`dfa.c:784-797`; `tests/bre.tests:10`); `(^|\<)a` matches in "ba"
(`dfa.c:1042-1087`); `-w` gives up after an empty match (`search.c:323-341`); `-F -w ''` never matches.

**dd.** `conv=sparse` with a short last block that is not zero writes one of its bytes into the
hole before it; with `bs=` there is no translation of characters and never a hole; `block_close()` does
not translate an unterminated last record (`conv.c:190-208`); with `osync` the last block is not padded
and may be oversized (`dd.c:351`; `NotFilled`); old data under a hole stay with `notrunc,sparse`; `unblock()`
relies on the order of `*--inp = t[*inp]`. The byte that is written for the last one of a hole
(`dd.c:411-412`) is the first of the array, so that with an empty buffer it is an old one (`dd.c:388`;
`Spoiled`). With `block,osync` and a last line that does not end, `block_close()` leaves `out.dbp` in
front of the record it has added (`conv.c:201-207`), and the filling goes over the record and not
behind it (`dd.c:351-357`; `Overwritten`): the end of the block is what the array happened to hold.

**pwd_mkdb.** A killed run leaves `spwd.db.tmp`, and every later full run fails; `cleanup()` of
a failing run unlinks another run's `pwd.db.tmp`; a line of exactly four fields is read
through a null pointer (`pw_scan.c:133`); `-u` with several entries of one name takes the last, and
looks for the uid in the standard database even with `-d`.

**ping.** `-l` and the first packet do not look at `-c` (`ping.8:88-96`); `-f` leaves before
outstanding answers come; after ENOBUFS the bit of a number is cleared again.

**route.** The first deletion that fails, of a route that another program has just deleted, ends a
flush with the rest left (`route.c:290-296`; `NoGatewayLeft` is stated with nobody ahead), and a route
that was added again under the same key goes with the others; `-net 128` is 0.128.0.0
(`route.c:771-776`); 0.0.0.0 with a length is the default (`route.c:766`), and a length of 0
makes the mask a guess; numbers before a length are read as those of a host, 128.32/16 as
128.0.0.0; 255.255.255.255 with a length is refused; `-net` behind the destination leaves the address as that of a host
(`Plain` excludes these); the exit status is 0 whatever the kernel answered (`route.c:198`).

**tar.** Closing flushes one block only: when the last block goes to a new volume, records
pushed out by the volume header are lost (`buffer.c:842-875`, 1234-1240); a wrong volume is
taken when no file continues in it; a file that shrinks gets one record too many when what was read is
not a multiple of 512 (`create.c:546-600`); a sparse file whose last, partial record is zero is
restored too short when it follows data (`create.c:1098-1112`); `--delete` does not count the records of the
first member deleted, nor long names, which it does not copy either (`update.c:376-396`,
452-455); `-k` with an existing file skips the extended headers twice (`extract.c:378-384`);
`-N` with `-x` compares the previous member's time (`list.c:117-118`); `-u` takes a directory
for up to date when any of its members is (`update.c:131-152`); a device with too large numbers leaves its long-name
record for the next member; appending with another blocking factor goes back a whole block
(`buffer.c:1213`); volumes of one block get wrong sizes (`buffer.c:855-858`).

**newfs.** When a last group that is too small is dropped although its cylinders were
counted, the file system is larger than the disk (`mkfs.c:618-639`; `Overcounted`);
"first cylinder group ran out of space" goes on, with the root at fragment 0; `clustersum` of the first
group does not follow `alloc()`; the check "cylinder group too big" compares with a pointer
and never fires; an `-i` so large that there is no inode left ends after everything was
written.

**disklabel.** The statics that remember signs of sizes and offsets survive a second edit; 4.2BSD without sizes gets
a fragment count of 1024 cut to 0 (`disklabel.8:659-664` says otherwise); sizes of 2^32 sectors and more
wrap (`Wide`); so does the sum of offset and size, with any size: a partition of `2097151m` at sector 4096 ends
at 2048 for `checklabel` (`disklabel.c:1537`, 1566), is taken for one within the disk and not over those that begin behind it, and is written (`Wraps`, with
which `LabelsAsTyped` says no more of the text than that the label can be read again); an unknown unit divides by the sector size; a missing word repeats the last
one; a bad size stops the reading of its line; sizes before `bytes/sector` divide by
zero; `rpm: 0` is shown and refused when read back; a label for another sector
size leaves the old one in front of it, and `-r` finds that; `-B` alone places the label by `DEV_BSIZE`; `-w -B` and `-R -B` replace
the slice table; a failed raw write leaves the new label in the kernel and the label area writable;
`-w` does not check for overlaps.

## 7. Not modelled

* Help texts, wording and layout of the screens; the key handling of the static screen of
  `ifcon.c`, whose outcome is a form of three fields.
* Rules with explicit numbers and `delete` typed at the manual prompt; ipfw's pipes, queues,
  `prob`, `uid`, `gid`, names of services and hosts; lines longer than 255 characters, and
  scripts of more than 32 lines, which overflow `rlist`.
* `fopen` and `dbopen` failing on the memory file system; gateways that cannot be
  reached; read errors on a good archive; what `scanf` leaves in `user` at an end of file.
* Archives written by something other than this program: what an import brings back
  is something `/etc` once held, or unusable. (`Archive` knows `etc.tar.gz` as a whole; that
  tar and gzip give back what they got is what `TarRestores` and `GzipLossless` say.)
* libalias, which the repository does not have; natd's `-punch_fw` and logging; dhclient's protocol.
* tar extracting a file onto a symbolic link that is there: `open()` follows it (`extract.c:350`),
  `Tar` takes it for a file that cannot be opened. No session has one.
* newfs with cylinders of 32768 sectors and more that are not refused, where the product of cylinders and
  sectors overflows before the first group size is tried (`mkfs.c:479-492`).
* gzip: headers and checksums, `-l`, `-t`, `-N`, recursion, the formats of pack, compress and lzh.
  tar: listing and comparing, incremental dumps, remote tapes, compression, option parsing.
  grep: directories, binary and compressed files, `mmap`. dd: tapes, EBCDIC tables, statistics.
  newfs: the memory file system. ping: times and layout.
* route: `get` and `monitor`, families other than inet, `-ifa`, `-ifp`, `-genmask`, names of
  networks, what it prints.
* `ifconfig`, `mount`, `umount`: each run is a few system calls whose effect lies in the
  kernel, which the repository does not have; what the console relies on of them is in `Devices` and
  `Archive`. Boot loaders, the shell and the small tools of `bin`.
* Displays (`mon.c`, `sum.c`, `gauge.c`), the stub `pipe.c`, `init/old`, functions that
  nothing calls (`insert_rule`, `next_rule`, `raw_drop_rule`, the commented-out
  database version of `ruleset`).

## 8. Plan

1. Proofs: that every command a form builds is an `add`, which discharges `FormAssumption`;
   `ListIsRule`, along the same parts of `Parse` as `FilterAddsWhatIsShown`, with the ports and
   interfaces that `ipfw list` prints and the screens do not have.
2. `Console` with `Devices` in place of `ConfigureDevice`, and `Passwd` over `PwdMkdb`: that two
   installed files of the one are the four of the other.
3. `ifconfig` from its source: the order in which addresses and masks are given, and what is left
   when the second of two calls fails; then `Devices` over `Route` for the default route.
4. gzip's old formats and tar's incremental dumps, whose readers share buffers with what is modelled.
