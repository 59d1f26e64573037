---------------------------- MODULE PasswdProofs ----------------------------
(***************************************************************************)
(* Proofs about passwd: what a run in which nothing fails leaves in /etc   *)
(* and in the archive.  The invariant follows the run step by step.        *)
(***************************************************************************)
EXTENDS Passwd, SequenceTheorems, TLAPS

-----------------------------------------------------------------------------
(* The inductive invariant *)

\* Every entry of s is the password p.
Only(s, p) == \A i \in DOMAIN s : s[i] = p

\* There is always an entry of root to replace, in force or archived, and one to
\* install while pwd_mkdb runs.
Entries ==
    /\ master # <<>> /\ archive.master # <<>>
    /\ pc \in {"mkdb", "move"} => mpw # <<>>

\* Up to the rename, a run that found no mpw.tmp has only its own entries there.
Preparing ==
    /\ pc = "write" /\ fresh => mpw = <<>>
    /\ pc \in {"mkdb", "move"} /\ fresh => Only(mpw, typed)
    /\ pc = "move" => spwd = Head(mpw)

\* From the rename on, they are installed and mpw.tmp is gone.
Installed ==
    pc \in {"ask", "unlink"} /\ ok /\ fresh =>
        spwd = typed /\ Only(master, typed) /\ mpw = <<>>

\* And from the key press on, archived.
Archived == pc = "unlink" /\ ok => archive = Files

\* "done" is said at the end only.
SaidAtEnd == said => pc = "idle"

Inv == /\ TypeOK /\ Entries /\ Preparing /\ Installed /\ Archived /\ SaidAtEnd
       /\ CleanRunSets /\ CleanRunArchived

-----------------------------------------------------------------------------
(* Sequences *)

\* What Write appends: one entry of p per entry replaced.
LEMMA Replaced ==
    ASSUME NEW m \in Seq(Password), m # <<>>, NEW p \in Password,
           NEW s \in Seq(Password)
    PROVE  LET t == [i \in DOMAIN m |-> p]
           IN  /\ s \o t \in Seq(Password) /\ s \o t # <<>>
               /\ s = <<>> => Only(s \o t, p)
<1> DEFINE t == [i \in DOMAIN m |-> p]
<1>1. Len(m) \in Nat /\ Len(m) # 0 /\ DOMAIN m = 1..Len(m)
  OBVIOUS
<1>2. t \in Seq(Password) /\ Len(t) = Len(m)
  BY <1>1, IsASeq
<1>3. \A i \in DOMAIN t : t[i] = p
  OBVIOUS
<1>4. s \o t \in Seq(Password) /\ Len(s \o t) = Len(s) + Len(t)
  BY <1>2, ConcatProperties
<1>5. s \o t # <<>>
  <2>1. Len(s) \in Nat /\ Len(s \o t) # 0
    BY <1>1, <1>2, <1>4
  <2> HIDE DEF t
  <2> QED BY <2>1, Len(<<>>) = 0
<1>6. s = <<>> => s \o t = t
  BY <1>2, ConcatEmptySeq
<1> QED BY <1>3, <1>4, <1>5, <1>6 DEF Only

-----------------------------------------------------------------------------
(* The inductive step *)

\* The types of the variables, one by one.
LEMMA Types ==
    TypeOK <=> /\ spwd \in Password /\ master \in Seq(Password) /\ mpw \in Seq(Password)
               /\ archive \in Etc
               /\ pc \in {"idle", "write", "mkdb", "move", "ask", "unlink"}
               /\ typed \in Password
               /\ ok \in BOOLEAN /\ fresh \in BOOLEAN /\ said \in BOOLEAN
BY DEF TypeOK, Files, Etc

LEMMA InitInv == Init => Inv
<1> SUFFICES ASSUME Init PROVE Inv
  OBVIOUS
<1>1. /\ spwd = Default /\ master = <<Default>> /\ mpw = <<>>
      /\ archive = [spwd |-> Default, master |-> <<Default>>, mpw |-> <<>>]
      /\ pc = "idle" /\ typed = Default /\ ok = FALSE /\ fresh = FALSE /\ said = FALSE
  BY DEF Init, Defaults
<1>2. TypeOK
  <2>1. <<Default>> \in Seq(Password) /\ <<>> \in Seq(Password)
    BY PasswordAssumption
  <2>2. archive \in Etc
    BY <1>1, <2>1, PasswordAssumption DEF Etc
  <2> QED BY <1>1, <2>1, <2>2, PasswordAssumption, Types
<1>3. Entries
  BY <1>1 DEF Entries
<1>4. Preparing /\ Installed /\ Archived /\ SaidAtEnd /\ CleanRunSets /\ CleanRunArchived
  BY <1>1 DEF Preparing, Installed, Archived, SaidAtEnd, CleanRunSets, CleanRunArchived
<1> QED BY <1>2, <1>3, <1>4 DEF Inv

\* The two snapshots /etc may be restored from are of the right type.
LEMMA Snapshots ==
    ASSUME Inv, NEW f \in {archive, Defaults}
    PROVE  /\ f.spwd \in Password /\ f.master \in Seq(Password) /\ f.mpw \in Seq(Password)
           /\ f.master # <<>>
<1>1. CASE f = archive
  BY <1>1 DEF Inv, TypeOK, Etc, Entries
<1>2. CASE f = Defaults
  BY <1>2, PasswordAssumption DEF Defaults
<1> QED BY <1>1, <1>2

LEMMA StepInv == Inv /\ [Next]_vars => Inv'
<1> SUFFICES ASSUME Inv, [Next]_vars PROVE Inv'
  OBVIOUS
<1>0. /\ spwd \in Password /\ master \in Seq(Password) /\ mpw \in Seq(Password)
      /\ archive \in Etc /\ typed \in Password
      /\ pc \in {"idle", "write", "mkdb", "move", "ask", "unlink"}
      /\ ok \in BOOLEAN /\ fresh \in BOOLEAN /\ said \in BOOLEAN
  BY Types DEF Inv
<1>T. TypeOK' <=> /\ spwd' \in Password /\ master' \in Seq(Password) /\ mpw' \in Seq(Password)
                  /\ archive' \in Etc
                  /\ pc' \in {"idle", "write", "mkdb", "move", "ask", "unlink"}
                  /\ typed' \in Password
                  /\ ok' \in BOOLEAN /\ fresh' \in BOOLEAN /\ said' \in BOOLEAN
  BY DEF TypeOK, Files, Etc
<1>F. Files \in Etc /\ Files.master = master
  BY <1>0 DEF Files, Etc
<1>D. Defaults \in Etc /\ Defaults.master # <<>>
  BY PasswordAssumption DEF Defaults, Etc
<1>1. ASSUME NEW p \in Password, Type(p) PROVE Inv'
  <2>1. TypeOK'
    BY <1>0, <1>1, <1>T DEF Type, files
  <2>2. Entries' /\ Preparing'
    BY <1>1 DEF Inv, Type, files, Entries, Preparing
  <2>3. Installed' /\ Archived' /\ SaidAtEnd' /\ CleanRunSets' /\ CleanRunArchived'
    BY <1>1 DEF Type, Installed, Archived, SaidAtEnd, CleanRunSets, CleanRunArchived
  <2> QED BY <2>1, <2>2, <2>3 DEF Inv
<1>2. CASE Write
  <2>1. /\ mpw' \in Seq(Password) /\ mpw' # <<>>
        /\ mpw = <<>> => Only(mpw', typed)
    BY <1>0, <1>2, Replaced DEF Write, Inv, Entries
  <2>2. TypeOK'
    BY <1>0, <1>2, <1>T, <2>1 DEF Write
  <2>3. Entries' /\ Preparing'
    BY <1>2, <2>1 DEF Inv, Write, Entries, Preparing
  <2>4. Installed' /\ Archived' /\ SaidAtEnd' /\ CleanRunSets' /\ CleanRunArchived'
    BY <1>2 DEF Write, Inv, Installed, Archived, SaidAtEnd, CleanRunSets, CleanRunArchived
  <2> QED BY <2>2, <2>3, <2>4 DEF Inv
<1>3. CASE MkdbFails \/ MkdbNotRun \/ Interrupt
  <2>1. /\ UNCHANGED <<spwd, master, mpw, archive, typed, fresh, said>>
        /\ ok' = FALSE /\ pc # "idle"
        /\ pc' \in {"idle", "ask"}
    BY <1>3 DEF MkdbFails, MkdbNotRun, Interrupt, files
  <2>2. said' = FALSE
    BY <1>0, <2>1 DEF Inv, SaidAtEnd
  <2>3. TypeOK'
    BY <1>0, <1>T, <2>1
  <2>4. Entries' /\ Preparing'
    BY <2>1 DEF Inv, Entries, Preparing
  <2>5. Installed' /\ Archived' /\ SaidAtEnd' /\ CleanRunSets' /\ CleanRunArchived'
    BY <2>1, <2>2 DEF Installed, Archived, SaidAtEnd, CleanRunSets, CleanRunArchived
  <2> QED BY <2>3, <2>4, <2>5 DEF Inv
<1>4. CASE MoveSpwd
  <2>1. Head(mpw) \in Password /\ pc = "mkdb"
    BY <1>0, <1>4 DEF MoveSpwd, Inv, Entries
  <2>2. TypeOK'
    BY <1>0, <1>4, <1>T, <2>1 DEF MoveSpwd
  <2>3. Entries' /\ Preparing'
    BY <1>4 DEF Inv, MoveSpwd, Entries, Preparing
  <2>4. Installed' /\ Archived' /\ SaidAtEnd' /\ CleanRunSets' /\ CleanRunArchived'
    BY <1>4 DEF MoveSpwd, Inv, Installed, Archived, SaidAtEnd, CleanRunSets, CleanRunArchived
  <2> QED BY <2>2, <2>3, <2>4 DEF Inv
<1>5. CASE MoveMaster
  <2>1. /\ pc = "move" /\ pc' = "ask" /\ said' = FALSE
        /\ UNCHANGED <<spwd, archive, typed, fresh, said>>
        /\ \/ master' = mpw /\ mpw' = <<>> /\ ok' = ok
           \/ ok' = FALSE /\ UNCHANGED <<master, mpw>>
    BY <1>0, <1>5 DEF MoveMaster, Inv, SaidAtEnd
  <2>2. TypeOK'
    <3>1. CASE master' = mpw /\ mpw' = <<>> /\ ok' = ok
      BY <1>0, <1>T, <2>1, <3>1
    <3>2. CASE ok' = FALSE /\ UNCHANGED <<master, mpw>>
      BY <1>0, <1>T, <2>1, <3>2
    <3> QED BY <2>1, <3>1, <3>2
  <2>3. mpw # <<>> /\ spwd = Head(mpw) /\ (fresh => Only(mpw, typed))
    BY <2>1 DEF Inv, Entries, Preparing
  <2>4. fresh => spwd = typed
    <3>1. 1 \in DOMAIN mpw /\ Head(mpw) = mpw[1]
      BY <1>0, <2>3
    <3> QED BY <2>3, <3>1 DEF Only
  <2>5. Entries' /\ Preparing'
    BY <2>1, <2>3 DEF Inv, Entries, Preparing
  <2>6. Installed'
    BY <1>0, <2>1, <2>3, <2>4 DEF Installed
  <2>7. Archived' /\ SaidAtEnd' /\ CleanRunSets' /\ CleanRunArchived'
    BY <2>1 DEF Archived, SaidAtEnd, CleanRunSets, CleanRunArchived
  <2> QED BY <2>2, <2>5, <2>6, <2>7 DEF Inv
<1>6. CASE WriteArchive
  <2>1. /\ pc = "ask" /\ pc' = "unlink" /\ said' = FALSE
        /\ UNCHANGED <<spwd, master, mpw, typed, fresh>>
        /\ \/ archive' = Files /\ ok' = ok
           \/ archive' \in {archive, Defaults} /\ ok' = FALSE
    BY <1>0, <1>6 DEF WriteArchive, files, Inv, SaidAtEnd
  <2>2. archive' \in Etc /\ archive'.master # <<>>
    BY <1>0, <1>F, <1>D, <2>1 DEF Inv, Entries
  <2>3. TypeOK'
    BY <1>0, <1>T, <2>1, <2>2
  <2>4. Entries' /\ Preparing'
    BY <2>1, <2>2 DEF Inv, Entries, Preparing
  <2>5. Installed'
    BY <2>1 DEF Inv, Installed
  <2>6. Archived'
    BY <2>1 DEF Archived, Files
  <2>7. SaidAtEnd' /\ CleanRunSets' /\ CleanRunArchived'
    BY <2>1 DEF SaidAtEnd, CleanRunSets, CleanRunArchived
  <2> QED BY <2>3, <2>4, <2>5, <2>6, <2>7 DEF Inv
<1>7. CASE WriteNotRun
  <2>1. TypeOK'
    BY <1>0, <1>7, <1>T, FALSE \in BOOLEAN, <<>> \in Seq(Password) DEF WriteNotRun
  <2>2. Entries' /\ Preparing'
    BY <1>7 DEF Inv, WriteNotRun, Entries, Preparing
  <2>3. Installed' /\ Archived' /\ SaidAtEnd' /\ CleanRunSets' /\ CleanRunArchived'
    BY <1>7 DEF WriteNotRun, Inv, Installed, Archived, SaidAtEnd, CleanRunSets, CleanRunArchived
  <2> QED BY <2>1, <2>2, <2>3 DEF Inv
<1>8. CASE Unlink
  <2>1. /\ pc = "unlink" /\ pc' = "idle" /\ mpw' = <<>>
        /\ UNCHANGED <<spwd, master, archive, typed, ok, fresh>>
    BY <1>8 DEF Unlink
  <2>2. TypeOK'
    BY <1>0, <1>8, <1>T, TRUE \in BOOLEAN, <<>> \in Seq(Password) DEF Unlink
  <2>3. Entries' /\ Preparing' /\ Installed' /\ Archived' /\ SaidAtEnd'
    BY <2>1 DEF Inv, Entries, Preparing, Installed, Archived, SaidAtEnd
  <2>4. ok /\ fresh => spwd = typed /\ Only(master, typed) /\ mpw = <<>> /\ archive = Files
    BY <2>1 DEF Inv, Installed, Archived
  <2>5. CleanRunSets'
    BY <2>1, <2>4 DEF CleanRunSets, Only
  <2>6. CleanRunArchived'
    BY <2>1, <2>4 DEF CleanRunArchived, Files
  <2> QED BY <2>2, <2>3, <2>5, <2>6 DEF Inv
<1>9. CASE Save
  <2>1. pc = "idle" /\ archive' = Files /\ UNCHANGED <<spwd, master, mpw, pc, typed, ok, fresh, said>>
    BY <1>9 DEF Save, files
  <2>2. TypeOK'
    BY <1>0, <1>F, <1>T, <2>1
  <2>3. Entries'
    BY <1>F, <2>1 DEF Inv, Entries
  <2>4. Preparing' /\ Installed' /\ Archived' /\ SaidAtEnd' /\ CleanRunSets'
    BY <2>1 DEF Inv, Preparing, Installed, Archived, SaidAtEnd, CleanRunSets
  <2>5. CleanRunArchived'
    BY <2>1 DEF CleanRunArchived, Files
  <2> QED BY <2>2, <2>3, <2>4, <2>5 DEF Inv
<1>10. ASSUME NEW f \in {archive, Defaults}, Boot(f) PROVE Inv'
  <2>1. TypeOK'
    BY <1>0, <1>10, <1>T, Snapshots, PasswordAssumption DEF Boot
  <2>2. Entries' /\ Preparing'
    BY <1>10, Snapshots DEF Inv, Boot, Entries, Preparing
  <2>3. Installed' /\ Archived' /\ SaidAtEnd' /\ CleanRunSets' /\ CleanRunArchived'
    BY <1>10 DEF Boot, Installed, Archived, SaidAtEnd, CleanRunSets, CleanRunArchived
  <2> QED BY <2>1, <2>2, <2>3 DEF Inv
<1>11. CASE UNCHANGED vars
  <2>1. TypeOK'
    BY <1>0, <1>11, <1>T DEF vars, files
  <2>2. Entries' /\ Preparing' /\ Installed' /\ Archived' /\ SaidAtEnd'
    BY <1>11 DEF Inv, vars, files, Entries, Preparing, Installed, Archived, SaidAtEnd, Files
  <2>3. CleanRunSets' /\ CleanRunArchived'
    BY <1>11 DEF Inv, vars, files, CleanRunSets, CleanRunArchived, Files
  <2> QED BY <2>1, <2>2, <2>3 DEF Inv
<1> QED
  BY <1>1, <1>2, <1>3, <1>4, <1>5, <1>6, <1>7, <1>8, <1>9, <1>10, <1>11 DEF Next, Mkdb

-----------------------------------------------------------------------------
(* Theorems *)

\* The inductive invariant holds of every behaviour.
THEOREM Invariance == Spec => []Inv
<1> QED BY InitInv, StepInv, PTL DEF Spec

\* The files, the archive and the program counter of passwd keep their types, for
\* any passwords and any number of root entries.
THEOREM TypeCorrect == Spec => []TypeOK
<1>1. Inv => TypeOK
  BY DEF Inv
<1> QED BY <1>1, Invariance, PTL

\* A run that finds no mpw.tmp and in which nothing fails puts the typed password in
\* force, whatever runs before it failed or were interrupted (passwd.c:74-101).
THEOREM CleanRunInForce == Spec => []CleanRunSets
<1>1. Inv => CleanRunSets
  BY DEF Inv
<1> QED BY <1>1, Invariance, PTL

\* After such a run the archive holds what /etc holds, so importing it brings the
\* new password back (passwd.c:95).
THEOREM CleanRunSaved == Spec => []CleanRunArchived
<1>1. Inv => CleanRunArchived
  BY DEF Inv
<1> QED BY <1>1, Invariance, PTL

=============================================================================
