------------------------------- MODULE Passwd -------------------------------
(***************************************************************************)
(* Changing the root password (closedbsd/passwd/passwd.c): the new entry   *)
(* goes to /etc/mpw.tmp, pwd_mkdb makes spwd.db from that file and moves   *)
(* it to master.passwd, and writetcnp archives /etc.                       *)
(*                                                                         *)
(* Only the entries of root are kept, as the sequence of their passwords:  *)
(* login uses the first, because pwd_mkdb does not overwrite.  The entries *)
(* of other users are copied as they are.  mpw.tmp is written when it is   *)
(* closed, so an interrupt leaves it as it was or complete.                *)
(***************************************************************************)
EXTENDS Integers, Sequences

CONSTANTS
    Password,   \* crypted passwords
    Default,    \* root's on the CD
    MaxEntries  \* bound: passwd is not run if it would leave more entries

ASSUME PasswordAssumption == Default \in Password

VARIABLES
    spwd,       \* password of root in /etc/spwd.db, the one login asks for
    master,     \* entries of root in /etc/master.passwd
    mpw,        \* entries of root in /etc/mpw.tmp; no file is no entries
    archive,    \* spwd, master and mpw in the archive; none is the CD's
    pc,         \* the next step of passwd
    typed,      \* what was typed at the prompt
    ok,         \* no command of this run failed, and it was not interrupted
    fresh,      \* there was no mpw.tmp when this run began
    said        \* "done" since the last run ended

files == <<spwd, master, mpw>>
vars == <<files, archive, pc, typed, ok, fresh, said>>

Files == [spwd |-> spwd, master |-> master, mpw |-> mpw]
Defaults == [spwd |-> Default, master |-> <<Default>>, mpw |-> <<>>]

-----------------------------------------------------------------------------
(* passwd *)

\* "New root password: "
Type(p) ==
    /\ pc = "idle"
    /\ Len(mpw) + Len(master) <= MaxEntries
    /\ typed' = p
    /\ pc' = "write"
    /\ ok' = TRUE /\ fresh' = (mpw = <<>>)
    /\ said' = FALSE
    /\ UNCHANGED <<files, archive>>

\* Mutant: the old entry of root is copied as well.
MutWrite ==
    /\ pc = "write"
    /\ mpw' = mpw \o master \o [i \in DOMAIN master |-> typed]
    /\ pc' = "mkdb"
    /\ UNCHANGED <<spwd, master, archive, typed, ok, fresh, said>>

\* Every entry of root is replaced, behind whatever mpw.tmp held already.
Write ==
    /\ pc = "write"
    /\ mpw' = mpw \o [i \in DOMAIN master |-> typed]
    /\ pc' = "mkdb"
    /\ UNCHANGED <<spwd, master, archive, typed, ok, fresh, said>>

\* pwd_mkdb fails before anything is installed.  passwd goes on, because its exit
\* status is not the -1 that system() returns when nothing was run.
MkdbFails ==
    /\ pc = "mkdb"
    /\ pc' = "ask"
    /\ ok' = FALSE
    /\ UNCHANGED <<files, archive, typed, fresh, said>>

\* It could not be run: "error making db".  The file unlinked then is /etc/mpw.
MkdbNotRun ==
    /\ pc = "mkdb"
    /\ pc' = "idle"
    /\ ok' = FALSE
    /\ UNCHANGED <<files, archive, typed, fresh, said>>

\* The new spwd.db is moved into place.
MoveSpwd ==
    /\ pc = "mkdb"
    /\ spwd' = Head(mpw)
    /\ pc' = "move"
    /\ UNCHANGED <<master, mpw, archive, typed, ok, fresh, said>>

\* Mutant: mpw.tmp is copied, and stays.
MutMoveMaster ==
    /\ pc = "move"
    /\ \/ master' = mpw /\ UNCHANGED <<mpw, ok>>
       \/ ok' = FALSE /\ UNCHANGED <<master, mpw>>
    /\ pc' = "ask"
    /\ UNCHANGED <<spwd, archive, typed, fresh, said>>

\* The master password file is moved last; its rename may fail too.
MoveMaster ==
    /\ pc = "move"
    /\ \/ master' = mpw /\ mpw' = <<>> /\ UNCHANGED ok
       \/ ok' = FALSE /\ UNCHANGED <<master, mpw>>
    /\ pc' = "ask"
    /\ UNCHANGED <<spwd, archive, typed, fresh, said>>

\* Mutant: what a failed write leaves is imported as it is.
MutWriteArchive ==
    /\ pc = "ask"
    /\ \/ archive' = Files /\ UNCHANGED ok
       \/ archive' = [Files EXCEPT !.spwd = "part"] /\ ok' = FALSE
    /\ pc' = "unlink"
    /\ UNCHANGED <<files, typed, fresh, said>>

\* "press a key": writetcnp archives /etc, or fails in its way, or there is no key.
WriteArchive ==
    /\ pc = "ask"
    /\ \/ archive' = Files /\ UNCHANGED ok
       \/ archive' \in {archive, Defaults} /\ ok' = FALSE
    /\ pc' = "unlink"
    /\ UNCHANGED <<files, typed, fresh, said>>

\* writetcnp could not be run: "error writing to floppy".
WriteNotRun ==
    /\ pc = "ask"
    /\ mpw' = <<>>
    /\ pc' = "idle"
    /\ ok' = FALSE
    /\ UNCHANGED <<spwd, master, archive, typed, fresh, said>>

\* "passwd: done"
Unlink ==
    /\ pc = "unlink"
    /\ mpw' = <<>>
    /\ pc' = "idle"
    /\ said' = TRUE
    /\ UNCHANGED <<spwd, master, archive, typed, ok, fresh>>

\* Control-C, which pwd_mkdb blocks, and system() ignores while it waits.
Interrupt ==
    /\ pc \in {"write", "mkdb", "ask", "unlink"}
    /\ pc' = "idle"
    /\ ok' = FALSE
    /\ UNCHANGED <<files, archive, typed, fresh, said>>

-----------------------------------------------------------------------------
(* The rest of the system *)

\* The main menu's Save, when it succeeds.
Save ==
    /\ pc = "idle"
    /\ archive' = Files
    /\ UNCHANGED <<files, pc, typed, ok, fresh, said>>

\* A reboot, at any time, with the files of the archive or those of the CD.
Boot(f) ==
    /\ spwd' = f.spwd /\ master' = f.master /\ mpw' = f.mpw
    /\ pc' = "idle" /\ typed' = Default
    /\ ok' = FALSE /\ fresh' = FALSE /\ said' = FALSE
    /\ UNCHANGED archive

Init ==
    /\ spwd = Defaults.spwd /\ master = Defaults.master /\ mpw = Defaults.mpw
    /\ archive = Defaults
    /\ pc = "idle"
    /\ typed = Default
    /\ ok = FALSE /\ fresh = FALSE /\ said = FALSE

Mkdb == MkdbFails \/ MkdbNotRun \/ MoveSpwd \/ MoveMaster

Next ==
    \/ \E p \in Password : Type(p)
    \/ Write \/ Mkdb \/ WriteArchive \/ WriteNotRun \/ Unlink
    \/ Interrupt
    \/ Save
    \/ \E f \in {archive, Defaults} : Boot(f)

Spec == Init /\ [][Next]_vars

-----------------------------------------------------------------------------
(* Properties *)

Etc == [spwd : Password, master : Seq(Password), mpw : Seq(Password)]

\* Type invariant.
TypeOK ==
    /\ Files \in Etc
    /\ archive \in Etc
    /\ pc \in {"idle", "write", "mkdb", "move", "ask", "unlink"}
    /\ typed \in Password
    /\ ok \in BOOLEAN /\ fresh \in BOOLEAN /\ said \in BOOLEAN

\* A run that finds no mpw.tmp and in which nothing fails puts the typed password in
\* force, leaves no mpw.tmp and no other password in master.passwd
\* (passwd.c:74-82, 101; pwd_mkdb.c:274).
CleanRunSets ==
    said /\ ok /\ fresh =>
        /\ spwd = typed
        /\ \A i \in DOMAIN master : master[i] = typed
        /\ mpw = <<>>

\* After such a run, importing the archive brings the new password back, whatever
\* has been saved since.
CleanRunArchived == said /\ ok /\ fresh => archive = Files

-----------------------------------------------------------------------------
(* What the program says of itself, and does not do *)

\* "New root password: " (passwd.c:69): if no command fails, that is what root's
\* password is afterwards.
NewPasswordInForce == said /\ ok => spwd = typed

=============================================================================
