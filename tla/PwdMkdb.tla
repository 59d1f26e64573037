------------------------------ MODULE PwdMkdb ------------------------------
(***************************************************************************)
(* pwd_mkdb (usr.sbin/pwd_mkdb): the databases pwd.db and spwd.db are made *)
(* of a password file under other names, and moved into place before the   *)
(* file itself becomes master.passwd.  Each entry is stored by name, by    *)
(* line and by uid; with -u only one user's, into copies of the databases. *)
(*                                                                         *)
(* Several runs share the directory.  The lock is the file's: all runs are *)
(* of one file.  A run may be killed by the power failing or by a line it  *)
(* cannot read, and then cleans nothing up.                                *)
(***************************************************************************)
EXTENDS Integers, Sequences, SequencesExt, FiniteSetsExt, Functions

CONSTANTS
    Runs,       \* the processes
    Cases,      \* what master.passwd and the new file hold, as [old, new]
    Options,    \* of a run: [user, makeold, nblock], user "" for all of them
    Hash,       \* a line whose first field it is, is a comment
    NoUid       \* an empty field for the uid

VARIABLES
    case,
    opt, pc,    \* of each run
    clean,      \* of each run: what cleanup() is to remove
    holder,     \* the run that has the lock, or none
    tmp,        \* what is at pwd.db.tmp, spwd.db.tmp and .orig, and who made it
    files,      \* what is at pwd.db, spwd.db, passwd and master.passwd
    named,      \* the file is still at its name
    halfway     \* a run was killed between two of its moves
vars == <<case, opt, pc, clean, holder, tmp, files, named, halfway>>

None == [by |-> 0, has |-> <<>>]
NoDb == [k \in {} |-> <<>>]

-----------------------------------------------------------------------------
(* Lines: pw_scan() *)

Comment(line) == line = <<>> \/ line[1] = Hash
Yp(line) == line[1] \in {"+", "-"}
Entry(line) == [name |-> line[1], passwd |-> line[2], uid |-> IF line[3] = NoUid THEN 0 ELSE line[3]]

\* The class is looked at before it is known to be there.
UidTaken(line) == (line[3] # NoUid \/ Yp(line)) /\ (line[1] = "root" => line[3] = 0)
Deadly(line) == ~Comment(line) /\ Len(line) = 4 /\ UidTaken(line)
PwScan(line) == Len(line) = 10 /\ UidTaken(line)

-----------------------------------------------------------------------------
(* Databases *)

\* db->put(): with R_NOOVERWRITE the first entry for a key stays.
Put(db, key, entry, over) ==
    IF key \in DOMAIN db /\ ~over THEN db
    ELSE [k \in DOMAIN db \cup {key} |-> IF k = key THEN entry ELSE db[k]]

Secret(entry, secure) == IF secure THEN entry ELSE [entry EXCEPT !.passwd = "*"]

\* The keys of the entry of a line, which is the n-th and the m-th one for NIS.
Keys(e, n, m) ==
    << <<"name", e.name>>, <<"num", n>>, <<"uid", e.uid>> >>
    \o (IF e.name \in {"+", "-"} THEN << <<"yp", m>> >> ELSE <<>>)

Store(db, e, keys, o, overUid) ==
    FoldSeq(LAMBDA k, d : Put(d, k, e, o.user # "" /\ (k[1] # "uid" \/ overUid)), db, keys)

Lines(file) == SelectSeq(file, LAMBDA l : ~Comment(l))
NisBefore(lines, n) == Cardinality({i \in 1..n : Yp(lines[i])})

\* What the loop makes of a database, line by line.
Filled(db, lines, secure, o, overUid) ==
    LET after[n \in 0..Len(lines)] ==
            IF n = 0 THEN db
            ELSE LET e == Entry(lines[n])
                 IN  IF o.user \in {"", e.name}
                     THEN Store(after[n - 1], Secret(e, secure), Keys(e, n, NisBefore(lines, n)), o, overUid)
                     ELSE after[n - 1]
    IN  after[Len(lines)]

Flagged(db, lines) ==
    IF \E i \in DOMAIN lines : Yp(lines[i]) THEN Put(db, <<"nis">>, "on", FALSE) ELSE db

\* What a run with the options o makes of a database.
Loaded(db, lines, secure, o, overUid) == Flagged(Filled(db, lines, secure, o, overUid), lines)

Owns(db, o) ==
    LET name == <<"name", o.user>>
        uid == <<"uid", db[name].uid>>
    IN  o.user # "" /\ name \in DOMAIN db /\ uid \in DOMAIN db /\ db[uid].name = o.user

\* Mutant: the uid is never taken.
MutOwnsUid(o) == FALSE

\* -u may take the uid if it was that user's already.
OwnsUid(o) == Owns(files.pwd, o)

Old7(file) == [i \in DOMAIN file |-> IF Comment(file[i]) THEN file[i] ELSE [file[i] EXCEPT ![2] = "*"]]

-----------------------------------------------------------------------------
(* What the databases are to be *)

KeysOf(lines, n) ==
    {<<"name", lines[n][1]>>, <<"num", n>>, <<"uid", Entry(lines[n]).uid>>}
    \cup IF Yp(lines[n]) THEN {<<"yp", NisBefore(lines, n)>>} ELSE {}
Flag(lines) == IF \E i \in DOMAIN lines : Yp(lines[i]) THEN {<<"nis">>} ELSE {}
FirstWith(lines, key) == Min({n \in DOMAIN lines : key \in KeysOf(lines, n)})

\* For each key the first entry that has it
DbOf(lines, secure) ==
    [key \in UNION {KeysOf(lines, n) : n \in DOMAIN lines} \cup Flag(lines) |->
        IF key = <<"nis">> THEN "on" ELSE Secret(Entry(lines[FirstWith(lines, key)]), secure)]
Db(file, secure) == DbOf(Lines(file), secure)

-----------------------------------------------------------------------------
(* A run *)

\* cleanup(): whoever made what is there.
Cleanup(level) ==
    [pwd |-> None,
     spwd |-> IF level \in {"secure", "orig"} THEN None ELSE tmp.spwd,
     orig |-> IF level = "orig" THEN None ELSE tmp.orig]

Release(q) == IF holder = q THEN 0 ELSE holder
\* error() with what clean says then.
Fail(q, level) ==
    /\ pc' = [pc EXCEPT ![q] = "idle"]
    /\ clean' = [clean EXCEPT ![q] = level]
    /\ tmp' = Cleanup(level)
    /\ holder' = Release(q)
    /\ UNCHANGED <<case, opt, files, named, halfway>>

Goto(q, there) == pc' = [pc EXCEPT ![q] = there]

Open(q) ==
    /\ pc[q] = "ready"
    /\ \/ named /\ Goto(q, "lock") /\ UNCHANGED <<case, opt, clean, holder, tmp, files, named, halfway>>
       \/ ~named /\ Fail(q, clean[q])

\* The file has a name, its old one or master.passwd.
Lock(q) ==
    /\ pc[q] = "lock"
    /\ \/ /\ holder = 0 /\ holder' = q /\ Goto(q, "insecure")
          /\ UNCHANGED <<case, opt, clean, tmp, files, named, halfway>>
       \/ holder # 0 /\ opt[q].nblock /\ Fail(q, clean[q])

Fresh(q, db) == [by |-> q, has |-> IF opt[q].user = "" THEN NoDb ELSE db]

OpenInsecure(q) ==
    /\ pc[q] = "insecure"
    /\ \/ /\ tmp.pwd = None /\ tmp' = [tmp EXCEPT !.pwd = Fresh(q, files.pwd)] /\ Goto(q, "secure")
          /\ UNCHANGED <<case, opt, clean, holder, files, named, halfway>>
       \/ tmp.pwd # None /\ Fail(q, clean[q])

\* With -u it is marked for removal before it is there, otherwise after that.
OpenSecure(q) ==
    /\ pc[q] = "secure"
    /\ \/ /\ tmp.spwd = None /\ tmp' = [tmp EXCEPT !.spwd = Fresh(q, files.spwd)]
          /\ clean' = [clean EXCEPT ![q] = "secure"]
          /\ Goto(q, IF opt[q].makeold THEN "orig" ELSE "scan")
          /\ UNCHANGED <<case, opt, holder, files, named, halfway>>
       \/ tmp.spwd # None /\ Fail(q, IF opt[q].user # "" THEN "secure" ELSE clean[q])

OpenOrig(q) ==
    /\ pc[q] = "orig"
    /\ IF tmp.orig # None THEN Fail(q, clean[q])
       ELSE /\ tmp' = [tmp EXCEPT !.orig = [by |-> q, has |-> <<>>]]
            /\ clean' = [clean EXCEPT ![q] = "orig"] /\ Goto(q, "scan")
            /\ UNCHANGED <<case, opt, holder, files, named, halfway>>

\* What a run writes goes to the file it opened, even if the name is gone.
Written(t, q, has) == IF t.by = q THEN [t EXCEPT !.has = has] ELSE t
Made(t, q, lines, secure) ==
    Written(t, q, Loaded(t.has, lines, secure, opt[q], OwnsUid(opt[q])))

Readable(lines) == \A i \in DOMAIN lines : PwScan(lines[i])
Scan(q) ==
    /\ pc[q] = "scan" /\ Readable(Lines(case.new))
    /\ tmp' = [pwd |-> Made(tmp.pwd, q, Lines(case.new), FALSE),
               spwd |-> Made(tmp.spwd, q, Lines(case.new), TRUE),
               orig |-> Written(tmp.orig, q, Old7(case.new))]
    /\ Goto(q, "pwd")
    /\ UNCHANGED <<case, opt, clean, holder, files, named, halfway>>

FirstBad(lines) == lines[Min({i \in DOMAIN lines : ~PwScan(lines[i])})]
BadLine(q) ==
    /\ pc[q] = "scan" /\ ~Readable(Lines(case.new))
    /\ ~Deadly(FirstBad(Lines(case.new)))
    /\ Fail(q, clean[q])

-----------------------------------------------------------------------------
(* mv(): one file after the other, the password file last *)

After(q, f) == CASE f = "pwd" -> "spwd"
                 [] f = "spwd" /\ opt[q].makeold -> "passwd"
                 [] OTHER -> "master"
Install(q, f, t) ==
    /\ pc[q] = f
    /\ IF tmp[t] = None THEN Fail(q, clean[q])
       ELSE /\ files' = [files EXCEPT ![f] = tmp[t].has] /\ tmp' = [tmp EXCEPT ![t] = None]
            /\ Goto(q, After(q, f))
            /\ UNCHANGED <<case, opt, clean, holder, named, halfway>>

InstallMaster(q) ==
    /\ pc[q] = "master"
    /\ \/ /\ named /\ named' = FALSE
          /\ files' = [files EXCEPT !.master = case.new]
          /\ Goto(q, "idle") /\ holder' = 0
          /\ UNCHANGED <<case, opt, clean, tmp, halfway>>
       \/ ~named /\ Fail(q, clean[q])

\* The end without cleanup()
Installing(q) == pc[q] \in {"spwd", "passwd", "master"}
Killed(q) ==
    /\ \/ pc[q] \in {"insecure", "secure", "orig", "pwd", "spwd", "passwd", "master"}
       \/ pc[q] = "scan" /\ (~Readable(Lines(case.new)) => Deadly(FirstBad(Lines(case.new))))
    /\ Goto(q, "idle") /\ holder' = Release(q)
    /\ halfway' = (halfway \/ Installing(q))
    /\ UNCHANGED <<case, opt, clean, tmp, files, named>>

PwdInit ==
    /\ case \in Cases
    /\ opt \in [Runs -> {o \in Options : o.user \in case.users}]
    /\ pc = [q \in Runs |-> "ready"] /\ clean = [q \in Runs |-> "insecure"] /\ holder = 0
    /\ tmp = [pwd |-> None, spwd |-> None, orig |-> None]
    /\ files = [pwd |-> Db(case.old, FALSE), spwd |-> Db(case.old, TRUE), passwd |-> <<>>, master |-> case.old]
    /\ named = TRUE /\ halfway = FALSE

PwdNext ==
    \E q \in Runs :
        \/ Open(q) \/ Lock(q) \/ OpenInsecure(q) \/ OpenSecure(q) \/ OpenOrig(q)
        \/ Scan(q) \/ BadLine(q)
        \/ Install(q, "pwd", "pwd") \/ Install(q, "spwd", "spwd") \/ Install(q, "passwd", "orig")
        \/ InstallMaster(q) \/ Killed(q)

\* What the cases are: a file that can be read to its end, and whose databases differ from
\* the old ones by no more than the user of -u, becomes both of them in one run, whichever
\* of the two files the databases in place were made of.
CasesLoad ==
    /\ 0 \notin Runs
    /\ \A c \in Cases, o \in Options : o.user \in c.users /\ Readable(Lines(c.new)) =>
        \A v, w \in {c.old, c.new}, secure \in BOOLEAN :
            Loaded(IF o.user = "" THEN NoDb ELSE Db(w, secure), Lines(c.new), secure, o, Owns(Db(v, FALSE), o))
                = Db(c.new, secure)

-----------------------------------------------------------------------------
Agree(v) == files.pwd = Db(v, FALSE) /\ files.spwd = Db(v, TRUE)
\* In place is always a whole database, for what the password file held or for what it is
\* to hold; and both are for one of the two unless they are just being replaced.
DatabasesWhole ==
    /\ \E v \in {case.old, case.new} : files.pwd = Db(v, FALSE)
    /\ \E v \in {case.old, case.new} : files.spwd = Db(v, TRUE)
    /\ halfway \/ (\E q \in Runs : Installing(q)) \/ (Agree(case.old) /\ named) \/ Agree(case.new)
    /\ files.master = case.new => Agree(case.new)

=============================================================================
