--------------------------- MODULE UserlandProofs ---------------------------
(***************************************************************************)
(* Proofs about programs of the CD, each for itself: that gzip keeps the   *)
(* texts of the disk whenever it is stopped, that ping counts the echoes   *)
(* of what it sent, that pwd_mkdb leaves whole databases of one file, that *)
(* ipfwconfig leaves the rules that were added and not deleted, that natd  *)
(* redirects the ports that were typed, and that route makes of the table  *)
(* what the manual says of a command.                                      *)
(***************************************************************************)
EXTENDS Userland, ConsoleProofs, FiniteSetTheorems, WellFoundedInduction, TLAPS

\* The registers under the names of the program whose part it is; opt and pc are those of
\* gzip, pwd_mkdb and ping.
opt == r1
pc == r2

args == r3
disk == r4
ifname == r5
ofname == r6
remove_ofname == r7
part == r8
out == r9
held == r10
agreed == r11
unread == r12
failed == r13

case == r3
clean == r4
holder == r5
tmp == r6
files == r7
named == r8
halfway == r9

preload == r3
ntransmitted == r4
nreceived == r5
nrepeats == r6
tried == r7
rcvd == r8
net == r9
almost_done == r10
finish_up == r11
noise == r12
answered == r13
late == r14
shown == r1
script == r2
inForce == r3
listed == r4
behind == r5
intended == r6

todo == r1
table == r3
dump == r4
was == r5
others == r6

USE DEF opt, pc, args, disk, ifname, ofname, remove_ofname, part, out, held, agreed, unread, failed,
        case, clean, holder, tmp, files, named, halfway,
        preload, ntransmitted, nreceived, nrepeats, tried, rcvd, net, almost_done, finish_up, noise, answered, late,
        shown, script, inForce, listed, behind, intended, todo, table, dump, was, others

-----------------------------------------------------------------------------
(* gzip: the invariant *)

FileNames == Bases \X {Gzip!NoSuffix, Gzip!Gz}
FileType == [kind : {"absent", "plain", "packed", "partial"}, parts : Seq(Parts), tail : BOOLEAN]

Choosing == {"name", "method", "check"}
Making == {"flag", "create"}
Filling == {"work", "member", "close"}
Closing == {"copy_stat", "unlink"}

GzipTypeOK ==
    /\ opt \in [decompress : BOOLEAN, to_stdout : BOOLEAN, force : BOOLEAN]
    /\ pc \in {"file", "next", "exit"} \cup Choosing \cup Making \cup Filling \cup Closing
    /\ args \in Seq(FileNames)
    /\ disk \in [FileNames -> FileType]
    /\ ifname \in FileNames \cup {Gzip!NoName} /\ ofname \in FileNames \cup {Gzip!NoName}
    /\ remove_ofname \in BOOLEAN /\ failed \in BOOLEAN
    /\ part \in Nat \ {0} /\ out \in Seq(Parts)
    /\ pc # "exit" => args # <<>>

\* The files at each step: the input is there, and the output is another.  A file that
\* is to be unpacked has a member.
FilesOK ==
    /\ \A n \in FileNames : disk[n].kind = "absent" => disk[n].parts = <<>>
    /\ opt.decompress => \A n \in FileNames : disk[n].kind = "packed" => disk[n].parts # <<>>
    /\ pc \in Choosing \cup Making \cup Filling \cup Closing => ifname \in FileNames
    /\ pc \in {"check"} \cup Making \cup Closing => ~opt.to_stdout
    /\ pc \in {"method", "check"} \cup Making \cup Filling \cup Closing /\ ~opt.to_stdout =>
            ofname \in FileNames /\ ofname # ifname
    /\ remove_ofname => ~opt.to_stdout /\ ofname \in FileNames
    /\ pc \in Choosing \cup Making => part = 1
    /\ pc = "work" /\ opt.decompress /\ disk[ifname].kind = "packed" => part <= Len(disk[ifname].parts)
    /\ pc = "member" => opt.decompress /\ disk[ifname].kind = "packed"

\* The texts that must be there, and that they are in complete files outside S.
Needed == held \ (agreed \cup unread)
Safe(d, texts, S) ==
    \A t \in texts : \E n \in FileNames \ S : Gzip!Whole(d[n]) /\ t \in Gzip!Texts(d[n])
SafeOutside(S) == Safe(disk, Needed, S)

\* What was made of the input so far
Done(n) == \A i \in 1..n : i \in DOMAIN disk[ifname].parts => disk[ifname].parts[i] \in Gzip!ToSet(out)
Progress ==
    /\ pc = "work" /\ opt.decompress /\ disk[ifname].kind = "packed" => Done(part - 1)
    /\ pc = "member" => Done(part)
    /\ pc \in {"close"} \cup Closing => Gzip!Texts(disk[ifname]) \subseteq Gzip!ToSet(out) \cup unread

\* As long as no output failed: the flag is up from create_outfile() to copy_stat(), while
\* the input still holds what the output is to hold.
GzipSafe ==
    ~failed =>
        /\ SafeOutside({})
        /\ pc \in Making => disk[ofname].kind = "absent"
        /\ pc \in {"create", "copy_stat"} \cup Filling /\ ~opt.to_stdout => remove_ofname
        /\ pc \in {"file", "flag", "unlink", "next"} \cup Choosing => ~remove_ofname
        /\ remove_ofname /\ pc # "exit" => SafeOutside({ofname})
        /\ Progress
        /\ pc \in Closing => Gzip!Whole(disk[ofname]) /\ disk[ofname].parts = out

GzipInv == GzipTypeOK /\ FilesOK /\ GzipSafe

-----------------------------------------------------------------------------
(* gzip: the files at each step *)

\* The next file, or the end
LEMMA SkipType ==
    ASSUME args \in Seq(FileNames), args # <<>>, Gzip!Skip
    PROVE  args' \in Seq(FileNames) /\ pc' \in {"file", "exit"} /\ (pc' # "exit" => args' # <<>>)
BY DEF Gzip!Skip, Gzip!NextFile

LEMMA NameTypes ==
    ASSUME NEW n \in FileNames
    PROVE  <<n[1], Gzip!NoSuffix>> \in FileNames /\ Gzip!Packed(n) \in FileNames
BY DEF FileNames, Gzip!Packed

\* What the program makes of a file
LEMMA DiskType ==
    ASSUME GzipTypeOK
    PROVE  /\ <<>> \in Seq(Parts)
           /\ Gzip!Absent \in FileType /\ Gzip!Partial \in FileType
           /\ \A n, file : file \in FileType => [disk EXCEPT ![n] = file] \in [FileNames -> FileType]
<1>1. <<>> \in Seq(Parts)
  OBVIOUS
<1> QED BY <1>1 DEF GzipTypeOK, FileType, Gzip!Absent, Gzip!Partial

LEMMA InType ==
    ASSUME GzipTypeOK, ifname \in FileNames
    PROVE  /\ Gzip!In.parts \in Seq(Parts) /\ Gzip!In.tail \in BOOLEAN
           /\ Gzip!In.kind \in {"absent", "plain", "packed", "partial"}
BY DEF GzipTypeOK, FileType, Gzip!In

LEMMA ClosedType ==
    ASSUME GzipTypeOK
    PROVE  [kind |-> IF opt.decompress THEN "plain" ELSE "packed", parts |-> out, tail |-> FALSE]
                \in FileType
BY DEF GzipTypeOK, FileType

LEMMA GzipTypeStep ==
    ASSUME GzipTypeOK, FilesOK, Gzip!GzipFileNext
    PROVE  GzipTypeOK'
<1> USE DEF Choosing, Making, Filling, Closing, Gzip!ghosts
<1>0. /\ pc \in Choosing \cup Making \cup Filling \cup Closing => ifname \in FileNames
      /\ pc \in {"method", "check"} \cup Making \cup Filling \cup Closing /\ ~opt.to_stdout =>
            ofname \in FileNames
      /\ pc \in {"check"} \cup Making \cup Closing => ~opt.to_stdout
      /\ opt.decompress => \A n \in FileNames : disk[n].kind = "packed" => disk[n].parts # <<>>
      /\ pc = "work" /\ opt.decompress /\ Gzip!In.kind = "packed" => part <= Len(Gzip!In.parts)
  BY DEF FilesOK, Gzip!In
<1>1. CASE Gzip!GetIstat
  BY <1>0, <1>1, SkipType DEF GzipTypeOK, Gzip!GetIstat, Gzip!Exists, Gzip!Packed
<1>2. CASE Gzip!MakeOfname
  BY <1>0, <1>2, SkipType, NameTypes DEF GzipTypeOK, Gzip!MakeOfname
<1>3. CASE Gzip!GetMethod
  BY <1>0, <1>3, SkipType DEF GzipTypeOK, Gzip!GetMethod
<1>4. CASE Gzip!CheckOfname
  BY <1>0, <1>4, SkipType, DiskType DEF GzipTypeOK, Gzip!CheckOfname
<1>5. CASE Gzip!SetFlag
  BY <1>0, <1>5 DEF GzipTypeOK, Gzip!SetFlag
<1>6. CASE Gzip!Create
  BY <1>0, <1>6, SkipType, DiskType DEF GzipTypeOK, Gzip!Create
<1>7. CASE Gzip!Abort
  BY <1>0, <1>7, DiskType DEF GzipTypeOK, Gzip!Abort, Gzip!Unfinished
<1>8. CASE Gzip!ZipInput
  BY <1>0, <1>8, InType, DiskType DEF GzipTypeOK, Gzip!ZipInput
<1>9. CASE Gzip!Unzip
  BY <1>0, <1>9, InType DEF GzipTypeOK, Gzip!Unzip
<1>10. CASE Gzip!Copy
  BY <1>0, <1>10, InType DEF GzipTypeOK, Gzip!Copy
<1>11. CASE Gzip!NextMember
  BY <1>0, <1>11 DEF GzipTypeOK, Gzip!NextMember
<1>12. CASE Gzip!GiveUp
  BY <1>0, <1>12, SkipType, DiskType DEF GzipTypeOK, Gzip!GiveUp
<1>13. CASE Gzip!Close
  BY <1>0, <1>13, SkipType, DiskType, ClosedType DEF GzipTypeOK, Gzip!Close
<1>14. CASE Gzip!CopyStat
  BY <1>0, <1>14 DEF GzipTypeOK, Gzip!CopyStat
<1>15. CASE Gzip!UnlinkInput
  BY <1>0, <1>15, DiskType DEF GzipTypeOK, Gzip!UnlinkInput
<1>16. CASE Gzip!TreatFile
  BY <1>0, <1>16, SkipType DEF GzipTypeOK, Gzip!TreatFile
<1> QED BY <1>1, <1>2, <1>3, <1>4, <1>5, <1>6, <1>7, <1>8, <1>9, <1>10, <1>11, <1>12, <1>13, <1>14, <1>15, <1>16 DEF Gzip!GzipFileNext

LEMMA NamesDiffer ==
    ASSUME NEW n \in FileNames
    PROVE  /\ n[2] = Gzip!Gz => <<n[1], Gzip!NoSuffix>> # n
           /\ n[2] # Gzip!Gz => Gzip!Packed(n) # n
<1>1. <<n[1], Gzip!NoSuffix>>[2] = "" /\ Gzip!Packed(n)[2] = "gz"
  BY DEF Gzip!Packed, Gzip!NoSuffix, Gzip!Gz
<1>2. "" # "gz"
  OBVIOUS
<1> QED BY <1>1, <1>2 DEF Gzip!Gz

LEMMA FilesStep ==
    ASSUME GzipTypeOK, FilesOK, Gzip!GzipFileNext
    PROVE  FilesOK'
<1> USE DEF Choosing, Making, Filling, Closing, Gzip!ghosts, GzipTypeOK
<1>1. CASE Gzip!GetIstat
  BY <1>1, SkipType DEF FilesOK, Gzip!GetIstat, Gzip!Exists, Gzip!Packed
<1>2. CASE Gzip!MakeOfname
  BY <1>2, SkipType, NameTypes, NamesDiffer DEF FilesOK, Gzip!MakeOfname
<1>3. CASE Gzip!GetMethod
  BY <1>3, SkipType DEF FilesOK, Gzip!GetMethod, Gzip!In
<1>4. CASE Gzip!CheckOfname
  BY <1>4, SkipType DEF FilesOK, Gzip!CheckOfname, Gzip!Absent, Gzip!Exists
<1>5. CASE Gzip!SetFlag
  BY <1>5 DEF FilesOK, Gzip!SetFlag
<1>6. CASE Gzip!Create
  BY <1>6, SkipType DEF FilesOK, Gzip!Create, Gzip!Partial
<1>7. CASE Gzip!Abort
  BY <1>7 DEF FilesOK, Gzip!Abort, Gzip!Unfinished, Gzip!Absent
<1>8. CASE Gzip!ZipInput
  BY <1>8 DEF FilesOK, Gzip!ZipInput
<1>9. CASE Gzip!Unzip
  BY <1>9 DEF FilesOK, Gzip!Unzip, Gzip!In, Gzip!MembersLeft
<1>10. CASE Gzip!Copy
  BY <1>10 DEF FilesOK, Gzip!Copy
<1>11. CASE Gzip!NextMember
  BY <1>11 DEF FilesOK, Gzip!NextMember, Gzip!In
<1>12. CASE Gzip!GiveUp
  <2>1. pc' \in {"file", "exit"} /\ UNCHANGED <<opt, ifname, ofname, remove_ofname>>
    BY <1>12, SkipType DEF Gzip!GiveUp
  <2>2. disk' = disk \/ disk' = [disk EXCEPT ![ofname] = Gzip!Absent]
    BY <1>12 DEF Gzip!GiveUp
  <2> QED BY <2>1, <2>2 DEF FilesOK, Gzip!Absent
<1>13. CASE Gzip!Close
  BY <1>13, SkipType DEF FilesOK, Gzip!Close
<1>14. CASE Gzip!CopyStat
  BY <1>14 DEF FilesOK, Gzip!CopyStat
<1>15. CASE Gzip!UnlinkInput
  BY <1>15 DEF FilesOK, Gzip!UnlinkInput, Gzip!Absent
<1>16. CASE Gzip!TreatFile
  BY <1>16, SkipType DEF FilesOK, Gzip!TreatFile
<1> QED BY <1>1, <1>2, <1>3, <1>4, <1>5, <1>6, <1>7, <1>8, <1>9, <1>10, <1>11, <1>12, <1>13, <1>14, <1>15, <1>16 DEF Gzip!GzipFileNext

LEMMA SafeUpdate ==
    ASSUME NEW d \in [FileNames -> FileType], NEW texts, NEW o, NEW file, Safe(d, texts, {o})
    PROVE  Safe([d EXCEPT ![o] = file], texts, {o}) /\ Safe([d EXCEPT ![o] = file], texts, {})
BY DEF Safe

\* A file that holds none of the texts is not missed.
LEMMA SafeWithout ==
    ASSUME NEW d, NEW texts, NEW o, Safe(d, texts, {}),
           ~Gzip!Whole(d[o]) \/ texts \cap Gzip!Texts(d[o]) = {}
    PROVE  Safe(d, texts, {o})
BY DEF Safe

\* The input goes when another file holds what it held.
LEMMA SafeMoved ==
    ASSUME NEW d \in [FileNames -> FileType], NEW texts, NEW i, NEW o \in FileNames, i # o,
           Safe(d, texts, {}), Gzip!Whole(d[o]), texts \cap Gzip!Texts(d[i]) \subseteq Gzip!Texts(d[o])
    PROVE  Safe([d EXCEPT ![i] = Gzip!Absent], texts, {})
<1> SUFFICES ASSUME NEW t \in texts
             PROVE  \E n \in FileNames : /\ Gzip!Whole([d EXCEPT ![i] = Gzip!Absent][n])
                                         /\ t \in Gzip!Texts([d EXCEPT ![i] = Gzip!Absent][n])
  BY DEF Safe
<1>1. PICK n \in FileNames : Gzip!Whole(d[n]) /\ t \in Gzip!Texts(d[n])
  BY DEF Safe
<1>2. CASE n = i
  <2>1. t \in Gzip!Texts(d[o]) /\ [d EXCEPT ![i] = Gzip!Absent][o] = d[o]
    BY <1>1, <1>2
  <2> QED BY <2>1
<1>3. CASE n # i
  <2>1. [d EXCEPT ![i] = Gzip!Absent][n] = d[n]
    BY <1>3
  <2> QED BY <1>1, <2>1
<1> QED BY <1>2, <1>3

LEMMA SafeFewer ==
    ASSUME NEW d, NEW texts, NEW fewer, NEW S, Safe(d, texts, S), fewer \subseteq texts
    PROVE  Safe(d, fewer, S)
BY DEF Safe

LEMMA AppendSet ==
    ASSUME NEW S, NEW q \in Seq(S), NEW x \in S
    PROVE  Gzip!ToSet(q) \subseteq Gzip!ToSet(Append(q, x)) /\ x \in Gzip!ToSet(Append(q, x))
<1>1. /\ Len(Append(q, x)) = Len(q) + 1 /\ Append(q, x)[Len(q) + 1] = x
      /\ \A i \in 1..Len(q) : Append(q, x)[i] = q[i]
      /\ DOMAIN Append(q, x) = 1..(Len(q) + 1)
  OBVIOUS
<1> QED BY <1>1 DEF Gzip!ToSet

\* What unzip() leaves of the input is unread.
LEMMA RestUnread ==
    ASSUME GzipTypeOK, ifname \in FileNames, part <= Len(Gzip!In.parts),
           NEW t \in Gzip!Texts(Gzip!In)
    PROVE  \/ \E i \in 1..part : t = Gzip!In.parts[i]
           \/ t \in Gzip!Texts([Gzip!In EXCEPT !.parts = SubSeq(@, part + 1, Len(@))])
<1> DEFINE q == Gzip!In.parts
           rest == SubSeq(q, part + 1, Len(q))
<1>1. q \in Seq(Parts) /\ part \in Nat \ {0}
  BY InType DEF GzipTypeOK
<1>2. PICK i \in 1..Len(q) : t = q[i]
  BY <1>1 DEF Gzip!Texts, Gzip!ToSet
<1>3. CASE i > part
  <2>1. rest \in Seq(Parts) /\ Len(rest) = Len(q) - part
    BY <1>1
  <2>2. i - part \in DOMAIN rest /\ rest[i - part] = q[i]
    BY <1>1, <1>3, <2>1
  <2>3. [Gzip!In EXCEPT !.parts = SubSeq(@, part + 1, Len(@))].parts = rest
    BY DEF GzipTypeOK, FileType, Gzip!In
  <2> QED BY <1>2, <2>2, <2>3 DEF Gzip!Texts, Gzip!ToSet
<1> QED BY <1>1, <1>2, <1>3

LEMMA GzipSafeStep ==
    ASSUME GzipInv, GzipTypeOK', FilesOK', Gzip!GzipFileNext
    PROVE  GzipSafe'
<1> USE DEF Choosing, Making, Filling, Closing, Gzip!ghosts
<1> SUFFICES ASSUME ~failed'
             PROVE  /\ SafeOutside({})'
                    /\ (pc \in Making => disk[ofname].kind = "absent")'
                    /\ (pc \in {"create", "copy_stat"} \cup Filling /\ ~opt.to_stdout => remove_ofname)'
                    /\ (pc \in {"file", "flag", "unlink", "next"} \cup Choosing => ~remove_ofname)'
                    /\ (remove_ofname /\ pc # "exit" => SafeOutside({ofname}))'
                    /\ Progress'
                    /\ (pc \in Closing => Gzip!Whole(disk[ofname]) /\ disk[ofname].parts = out)'
  BY DEF GzipSafe
<1> USE DEF SafeOutside
<1>0. /\ GzipTypeOK /\ FilesOK /\ held' = held /\ agreed \subseteq agreed' /\ unread \subseteq unread'
      /\ opt' = opt /\ (failed => failed')
  BY DEF GzipInv, Gzip!GzipFileNext, Gzip!GetIstat, Gzip!MakeOfname, Gzip!GetMethod, Gzip!CheckOfname,
     Gzip!SetFlag, Gzip!Create, Gzip!Abort, Gzip!ZipInput, Gzip!Unzip, Gzip!Copy, Gzip!NextMember,
     Gzip!GiveUp, Gzip!Close, Gzip!CopyStat, Gzip!UnlinkInput, Gzip!TreatFile
<1>1. /\ Safe(disk, Needed, {})
      /\ pc \in Making => disk[ofname].kind = "absent"
      /\ pc \in {"create", "copy_stat"} \cup Filling /\ ~opt.to_stdout => remove_ofname
      /\ pc \in {"file", "flag", "unlink", "next"} \cup Choosing => ~remove_ofname
      /\ remove_ofname /\ pc # "exit" => Safe(disk, Needed, {ofname})
      /\ Progress
      /\ pc \in Closing => Gzip!Whole(disk[ofname]) /\ disk[ofname].parts = out
  BY <1>0 DEF GzipInv, GzipSafe
<1>2. Needed' \subseteq Needed
  BY <1>0 DEF Needed
<1>3. disk' = disk => /\ Safe(disk', Needed', {})
                      /\ remove_ofname /\ pc # "exit" /\ ofname' = ofname => Safe(disk', Needed', {ofname'})
  BY <1>1, <1>2, SafeFewer
<1>4. disk \in [FileNames -> FileType] /\ args \in Seq(FileNames) /\ (pc # "exit" => args # <<>>)
  BY <1>0 DEF GzipTypeOK
<1>5. CASE Gzip!GetIstat
  BY <1>1, <1>3, <1>4, <1>5, SkipType DEF Gzip!GetIstat, Progress
<1>6. CASE Gzip!MakeOfname
  BY <1>0, <1>1, <1>3, <1>4, <1>6, SkipType DEF Gzip!MakeOfname, Progress
<1>7. CASE Gzip!GetMethod
  <2>1. part = 1 /\ part' = 1
    BY <1>0, <1>7 DEF FilesOK, Gzip!GetMethod
  <2>2. Done(0)'
    BY DEF Done
  <2> QED BY <1>0, <1>1, <1>3, <1>4, <1>7, <2>1, <2>2, SkipType DEF Gzip!GetMethod, Progress
<1>8. CASE Gzip!CheckOfname
  <2>0. /\ ofname \in FileNames /\ pc = "check" /\ ~remove_ofname
        /\ UNCHANGED <<ofname, remove_ofname>>
    BY <1>0, <1>1, <1>8 DEF FilesOK, Gzip!CheckOfname
  <2>1. CASE ~Gzip!Exists(ofname) /\ pc' = "flag" /\ UNCHANGED <<disk, args, agreed>>
    BY <1>3, <1>4, <2>0, <2>1 DEF Progress, Gzip!Exists
  <2>2. CASE /\ ofname # ifname /\ disk' = [disk EXCEPT ![ofname] = Gzip!Absent]
             /\ agreed' = agreed \cup Gzip!Texts(disk[ofname]) /\ pc' = "flag"
    <3>1. Safe(disk, Needed', {})
      BY <1>1, <1>2, SafeFewer
    <3>2. Needed' \cap Gzip!Texts(disk[ofname]) = {}
      BY <2>2 DEF Needed
    <3>3. Safe(disk', Needed', {})
      BY <1>4, <2>2, <3>1, <3>2, SafeWithout, SafeUpdate
    <3>4. disk'[ofname].kind = "absent"
      BY <1>4, <2>0, <2>2 DEF Gzip!Absent
    <3> QED BY <2>0, <2>2, <3>3, <3>4 DEF Progress
  <2>3. CASE Gzip!Skip /\ UNCHANGED <<disk, agreed>>
    BY <1>3, <1>4, <2>0, <2>3, SkipType DEF Progress
  <2> QED BY <1>8, <2>1, <2>2, <2>3 DEF Gzip!CheckOfname
<1>9. CASE Gzip!SetFlag
  <2>1. Safe(disk, Needed', {}) /\ ~Gzip!Whole(disk[ofname])
    BY <1>1, <1>2, <1>9, SafeFewer DEF Gzip!SetFlag, Gzip!Whole
  <2>2. Safe(disk, Needed', {ofname})
    BY <2>1, SafeWithout
  <2> QED BY <1>1, <1>9, <2>1, <2>2 DEF Gzip!SetFlag, Progress
<1>10. CASE Gzip!Create
  <2>1. /\ disk' = [disk EXCEPT ![ofname] = Gzip!Partial] /\ pc' = "work" /\ pc = "create"
        /\ UNCHANGED <<ofname, remove_ofname, part>>
    BY <1>10 DEF Gzip!Create
  <2>2. Safe(disk, Needed', {ofname}) /\ remove_ofname
    BY <1>0, <1>1, <1>2, <2>1, SafeFewer DEF FilesOK
  <2>3. Safe(disk', Needed', {ofname}) /\ Safe(disk', Needed', {})
    BY <1>4, <2>1, <2>2, SafeUpdate
  <2>4. part' = 1 /\ Done(0)'
    BY <1>0, <2>1 DEF FilesOK, Done
  <2> QED BY <2>1, <2>2, <2>3, <2>4 DEF Progress
<1>11. CASE Gzip!Abort
  <2>1. disk' = Gzip!Unfinished /\ pc # "exit" /\ pc' = "exit"
    BY <1>11 DEF Gzip!Abort
  <2>2. CASE remove_ofname
    <3>1. Safe(disk, Needed', {ofname})
      BY <1>1, <1>2, <2>1, <2>2, SafeFewer
    <3>2. disk' = [disk EXCEPT ![ofname] = Gzip!Absent]
      BY <2>1, <2>2 DEF Gzip!Unfinished
    <3>3. Safe(disk', Needed', {})
      BY <1>4, <3>1, <3>2, SafeUpdate
    <3> QED BY <2>1, <3>3 DEF Progress
  <2>3. CASE ~remove_ofname
    <3>1. disk' = disk
      BY <2>1, <2>3 DEF Gzip!Unfinished
    <3> QED BY <1>3, <2>1, <3>1 DEF Progress
  <2> QED BY <2>2, <2>3
<1>12. CASE Gzip!ZipInput
  <2>1. Gzip!Texts(disk[ifname])' \subseteq Gzip!ToSet(out') \cup unread'
    BY <1>12 DEF Gzip!ZipInput, Gzip!In, Gzip!Texts
  <2> QED BY <1>0, <1>1, <1>3, <1>12, <2>1 DEF Gzip!ZipInput, Progress
<1>13. CASE Gzip!Unzip
  <2> DEFINE q == Gzip!In.parts
  <2>1. /\ pc = "work" /\ opt.decompress /\ Gzip!In.kind = "packed" /\ ifname \in FileNames
        /\ part \in 1..Len(q) /\ q \in Seq(Parts) /\ out \in Seq(Parts)
    BY <1>0, <1>13, InType DEF Gzip!Unzip, FilesOK, GzipTypeOK, Gzip!In
  <2>2. out' = Append(out, q[part]) /\ UNCHANGED <<disk, ifname, ofname, remove_ofname, part>>
    BY <1>13 DEF Gzip!Unzip
  <2>3. Gzip!ToSet(out) \subseteq Gzip!ToSet(out') /\ q[part] \in Gzip!ToSet(out')
    BY <2>1, <2>2, AppendSet
  <2>4. Done(part - 1)
    BY <1>1, <2>1 DEF Progress, Gzip!In
  <2>5. \A i \in 1..part : q[i] \in Gzip!ToSet(out')
    BY <2>1, <2>3, <2>4 DEF Done, Gzip!In
  <2>6. CASE Gzip!MembersLeft /\ pc' = "member"
    <3>1. Done(part)'
      BY <2>2, <2>5 DEF Done, Gzip!In
    <3> QED BY <1>0, <1>1, <1>3, <2>1, <2>2, <2>6, <3>1 DEF Progress
  <2>7. CASE /\ pc' = "close"
             /\ unread' = unread \cup Gzip!Texts([Gzip!In EXCEPT !.parts = SubSeq(@, part + 1, Len(@))])
    <3>1. Gzip!Texts(Gzip!In) \subseteq Gzip!ToSet(out') \cup unread'
      <4>1. SUFFICES ASSUME NEW t \in Gzip!Texts(Gzip!In) PROVE t \in Gzip!ToSet(out') \cup unread'
        OBVIOUS
      <4>2. CASE \E i \in 1..part : t = q[i]
        BY <2>5, <4>2
      <4>3. CASE t \in Gzip!Texts([Gzip!In EXCEPT !.parts = SubSeq(@, part + 1, Len(@))])
        BY <2>7, <4>3
      <4>4. part <= Len(Gzip!In.parts)
        BY <2>1
      <4>5. \/ \E i \in 1..part : t = Gzip!In.parts[i]
            \/ t \in Gzip!Texts([Gzip!In EXCEPT !.parts = SubSeq(@, part + 1, Len(@))])
        BY <1>0, <2>1, <4>4, RestUnread
      <4> QED BY <4>2, <4>3, <4>5
    <3> QED BY <1>0, <1>1, <1>3, <2>1, <2>2, <2>7, <3>1 DEF Progress, Gzip!In
  <2> QED BY <1>13, <2>6, <2>7 DEF Gzip!Unzip
<1>14. CASE Gzip!Copy
  <2>1. Gzip!Texts(disk[ifname])' \subseteq Gzip!ToSet(out') \cup unread'
    BY <1>14 DEF Gzip!Copy, Gzip!In, Gzip!Texts
  <2> QED BY <1>0, <1>1, <1>3, <1>14, <2>1 DEF Gzip!Copy, Progress
<1>15. CASE Gzip!NextMember
  <2>1. /\ pc = "member" /\ ifname \in FileNames /\ Done(part) /\ part \in Nat \ {0}
        /\ disk[ifname].parts \in Seq(Parts)
        /\ UNCHANGED <<disk, ifname, ofname, remove_ofname, out, unread>>
    BY <1>0, <1>1, <1>15, InType DEF Gzip!NextMember, FilesOK, GzipTypeOK, Progress, Gzip!In
  <2>2. CASE part < Len(Gzip!In.parts) /\ part' = part + 1 /\ pc' = "work"
    <3>1. Done(part - 1)'
      BY <2>1, <2>2 DEF Done
    <3> QED BY <1>0, <1>1, <1>3, <2>1, <2>2, <3>1 DEF Progress
  <2>3. CASE ~(part < Len(Gzip!In.parts)) /\ pc' = "close"
    <3>1. Gzip!Texts(disk[ifname]) \subseteq Gzip!ToSet(out)
      BY <2>1, <2>3 DEF Done, Gzip!Texts, Gzip!ToSet, Gzip!In
    <3> QED BY <1>0, <1>1, <1>3, <2>1, <2>3, <3>1 DEF Progress
  <2> QED BY <1>15, <2>2, <2>3 DEF Gzip!NextMember
<1>16. CASE Gzip!GiveUp
  <2>1. opt.to_stdout /\ UNCHANGED disk
    BY <1>16 DEF Gzip!GiveUp
  <2>2. ~remove_ofname
    BY <1>0, <2>1 DEF FilesOK
  <2> QED BY <1>0, <1>3, <1>4, <1>16, <2>1, <2>2, SkipType DEF Gzip!GiveUp, Progress
<1>17. CASE Gzip!Close
  <2>1. CASE opt.to_stdout
    <3>1. ~remove_ofname
      BY <1>0, <2>1 DEF FilesOK
    <3> QED BY <1>0, <1>3, <1>4, <1>17, <2>1, <3>1, SkipType DEF Gzip!Close, Progress
  <2>2. CASE ~opt.to_stdout
    <3> DEFINE file == [kind |-> IF opt.decompress THEN "plain" ELSE "packed", parts |-> out, tail |-> FALSE]
    <3>1. /\ disk' = [disk EXCEPT ![ofname] = file] /\ pc' = "copy_stat" /\ pc = "close"
          /\ UNCHANGED <<ifname, ofname, remove_ofname, part, out, unread>>
      BY <1>17, <2>2 DEF Gzip!Close
    <3>2. ofname \in FileNames /\ ofname # ifname /\ ifname \in FileNames /\ remove_ofname
      BY <1>0, <1>1, <2>2, <3>1 DEF FilesOK
    <3>3. Safe(disk, Needed', {ofname})
      BY <1>1, <1>2, <3>1, <3>2, SafeFewer
    <3>4. Safe(disk', Needed', {ofname}) /\ Safe(disk', Needed', {})
      <4> HIDE DEF file
      <4> QED BY <1>4, <3>1, <3>3, SafeUpdate
    <3>5. Gzip!Whole(disk'[ofname]) /\ disk'[ofname].parts = out'
      BY <1>4, <3>1, <3>2 DEF Gzip!Whole
    <3>6. disk'[ifname] = disk[ifname]
      BY <1>4, <3>1, <3>2
    <3> QED BY <1>0, <1>1, <2>2, <3>1, <3>2, <3>4, <3>5, <3>6 DEF Progress
  <2> QED BY <2>1, <2>2
<1>18. CASE Gzip!CopyStat
  BY <1>0, <1>1, <1>3, <1>18 DEF Gzip!CopyStat, Progress
<1>19. CASE Gzip!UnlinkInput
  <2>1. /\ disk' = [disk EXCEPT ![ifname] = Gzip!Absent] /\ pc = "unlink" /\ pc' = "next"
        /\ UNCHANGED <<ofname, remove_ofname, unread>>
    BY <1>19 DEF Gzip!UnlinkInput
  <2>2. ofname \in FileNames /\ ofname # ifname
    BY <1>0, <2>1 DEF FilesOK
  <2>3. Safe(disk, Needed', {})
    BY <1>1, <1>2, SafeFewer
  <2>4. Needed' \cap Gzip!Texts(disk[ifname]) \subseteq Gzip!Texts(disk[ofname])
    BY <1>1, <2>1 DEF Progress, Needed, Gzip!Texts
  <2>5. Safe(disk', Needed', {})
    BY <1>1, <1>4, <2>1, <2>2, <2>3, <2>4, SafeMoved
  <2> QED BY <1>1, <2>1, <2>5 DEF Progress
<1>20. CASE Gzip!TreatFile
  BY <1>1, <1>3, <1>4, <1>20, SkipType DEF Gzip!TreatFile, Progress
<1> QED BY <1>5, <1>6, <1>7, <1>8, <1>9, <1>10, <1>11, <1>12, <1>13, <1>14, <1>15, <1>16, <1>17,
           <1>18, <1>19, <1>20 DEF Gzip!GzipFileNext

LEMMA GzipInit ==
    ASSUME Gzip!CommandLines(Bases, Parts), Gzip!GzipFileInit
    PROVE  GzipInv
<1> USE DEF Choosing, Making, Filling, Closing
<1>1. GzipTypeOK
  <2>1. disk \in [FileNames -> FileType]
    <3>1. disk \in [FileNames -> {file \in [kind : {"absent", "plain", "packed"}, parts : Seq(Parts), tail : BOOLEAN] :
                                    /\ file.kind = "absent" => file.parts = <<>>
                                    /\ file.kind = "packed" => file.parts # <<>>}]
      BY DEF Gzip!CommandLines, Gzip!GzipFileInit, FileNames
    <3>2. \A n \in FileNames : disk[n] \in FileType
      BY <3>1 DEF FileType
    <3> QED BY <3>1, <3>2
  <2>2. args \in Seq(FileNames) /\ args # <<>>
    BY DEF Gzip!CommandLines, Gzip!GzipFileInit, FileNames
  <2>3. <<>> \in Seq(Parts) /\ 1 \in Nat \ {0}
    OBVIOUS
  <2>4. opt \in [decompress : BOOLEAN, to_stdout : BOOLEAN, force : BOOLEAN]
    BY DEF Gzip!CommandLines, Gzip!GzipFileInit
  <2> QED BY <2>1, <2>2, <2>3, <2>4 DEF Gzip!GzipFileInit, GzipTypeOK
<1>2. FilesOK
  BY DEF Gzip!CommandLines, Gzip!GzipFileInit, FilesOK, FileNames
<1>3. SafeOutside({})
  <2>1. DOMAIN disk = FileNames /\ \A n \in FileNames : disk[n].kind = "absent" => disk[n].parts = <<>>
    BY <1>1, <1>2 DEF GzipTypeOK, FilesOK
  <2>2. SUFFICES ASSUME NEW t \in held
                 PROVE  \E n \in FileNames : Gzip!Whole(disk[n]) /\ t \in Gzip!Texts(disk[n])
    BY DEF SafeOutside, Safe, Needed
  <2>3. PICK n \in FileNames : t \in Gzip!Texts(disk[n])
    BY <2>1 DEF Gzip!GzipFileInit
  <2>4. disk[n].kind # "absent"
    BY <2>1, <2>3 DEF Gzip!Texts, Gzip!ToSet
  <2>5. disk[n].kind \in {"absent", "plain", "packed"}
    BY DEF Gzip!CommandLines, Gzip!GzipFileInit, FileNames
  <2> QED BY <2>3, <2>4, <2>5 DEF Gzip!Whole
<1>4. GzipSafe
  BY <1>3 DEF GzipSafe, Progress, Gzip!GzipFileInit
<1> QED BY <1>1, <1>2, <1>4 DEF GzipInv

LEMMA GzipStep ==
    ASSUME GzipInv, [Gzip!GzipFileNext]_(Gzip!gzipVars)
    PROVE  GzipInv'
<1>1. CASE Gzip!GzipFileNext
  BY <1>1, GzipTypeStep, FilesStep, GzipSafeStep DEF GzipInv
<1>2. CASE UNCHANGED Gzip!gzipVars
  BY <1>2 DEF Gzip!gzipVars, GzipInv, GzipTypeOK, FilesOK, GzipSafe, SafeOutside, Safe, Needed,
     Progress, Done, Gzip!Whole, Gzip!Texts
<1> QED BY <1>1, <1>2

-----------------------------------------------------------------------------
(* ping: the table of bits *)

PingTypeOK ==
    /\ opt \in [npackets : Nat, preload : Nat, flood : BOOLEAN]
    /\ pc \in {"preload", "loop", "flood", "done"}
    /\ preload \in Int /\ nreceived \in Nat /\ nrepeats \in Nat
    /\ ntransmitted \in Nat /\ tried \in {ntransmitted, ntransmitted + 1}
    /\ DOMAIN net \subseteq 0..(ntransmitted - 1)
    /\ answered \in [all : Nat, of : SUBSET (0..(ntransmitted - 1))] /\ IsFiniteSet(answered.of)
    /\ late \in BOOLEAN

\* As long as no answer came too late: of the last DupCheck numbers that were tried, the
\* bits tell which were answered, and there was no other answer to a first one.
BitsTell ==
    /\ \A e \in 0..(tried - 1) : tried <= e + DupCheck => (Ping!Bit(e) \in rcvd <=> e \in answered.of)
    /\ nreceived = Cardinality(answered.of) /\ nrepeats = answered.all - nreceived

\* -l counts down to below zero; then the number of -c is looked at.
SentOK ==
    /\ pc = "preload" => preload \in 0..opt.preload /\ ntransmitted <= opt.preload - preload
    /\ opt.npackets > 0 => ntransmitted <= Ping!Max2(opt.npackets, opt.preload + 1)

PingInv == PingTypeOK /\ SentOK /\ (~late => BitsTell)

-----------------------------------------------------------------------------
(* Remainders *)

LEMMA DivMod ==
    ASSUME NEW a \in Nat, NEW D \in Nat \ {0}
    PROVE  a = D * (a \div D) + (a % D) /\ a % D \in 0..(D - 1) /\ a \div D \in Nat
BY SMT

LEMMA Multiple ==
    ASSUME NEW D \in Nat \ {0}, NEW k \in Int, D * k > -D, D * k < D
    PROVE  k = 0
<1>1. CASE k >= 1
  <2>1. D * k = D * (k - 1) + D /\ D * (k - 1) >= 0
    BY <1>1
  <2> QED BY <2>1
<1>2. CASE k <= -1
  <2>1. D * k = - (D * (-k - 1)) - D /\ D * (-k - 1) >= 0
    BY <1>2
  <2> QED BY <2>1
<1> QED BY <1>1, <1>2

LEMMA OneRemainder ==
    ASSUME NEW D \in Nat \ {0}, NEW a \in Int, NEW b \in Int, NEW r \in 0..(D - 1), NEW s \in 0..(D - 1),
           D * a + r = D * b + s
    PROVE  r = s
<1>1. D * (a - b) = s - r
  OBVIOUS
<1>2. a - b = 0
  BY <1>1, Multiple
<1> QED BY <1>1, <1>2

\* The last bits of a number tell its remainder.
LEMMA RemainderOfRemainder ==
    ASSUME NEW n \in Nat, NEW D \in Nat \ {0}, NEW K \in Nat \ {0}
    PROVE  (n % (D * K)) % D = n % D
<1> DEFINE m == D * K
           r == n % m
<1>1. m \in Nat \ {0}
  OBVIOUS
<1>2. n = m * (n \div m) + r /\ r \in Nat /\ n \div m \in Nat
  <2> HIDE DEF m
  <2> QED BY <1>1, DivMod
<1>3. r = D * (r \div D) + (r % D) /\ r % D \in 0..(D-1) /\ r \div D \in Nat
  <2> HIDE DEF r
  <2> QED BY <1>2, DivMod
<1>4. n = D * (n \div D) + (n % D) /\ n % D \in 0..(D-1) /\ n \div D \in Nat
  BY DivMod
<1>5. ASSUME NEW a \in Nat, NEW b \in Nat, NEW c \in 0..(D - 1), NEW d \in 0..(D-1), NEW e \in Nat, n = m * a + r, r = D * b + c, n = D * e + d
      PROVE c = d
  <2>1. n = D * (K * a + b) + c
    <3>1. m * a = D * (K * a)
      OBVIOUS
    <3>2. \A x, y \in Nat : D * (x + y) = D * x + D * y
      OBVIOUS
    <3>3. K * a \in Nat
      OBVIOUS
    <3>4. D * (K * a + b) = D * (K * a) + D * b
      BY <3>2, <3>3
    <3>5. D * (K * a) \in Nat /\ D * b \in Nat /\ D * (K * a + b) \in Nat
      BY <3>3
    <3>6. n = D * (K * a) + (D * b + c)
      BY <1>5, <3>1
    <3>7. \A x, y, z \in Nat : x + (y + z) = (x + y) + z
      OBVIOUS
    <3>8. n = (D * (K * a) + D * b) + c
      BY <3>5, <3>6, <3>7
    <3>9. n = D * (K * a + b) + c
      <4> HIDE DEF r, m
      <4> QED BY <3>4, <3>8
    <3> QED BY <3>9
  <2>2. K * a + b \in Int
    OBVIOUS
  <2>3. D * (K * a + b) + c = D * e + d
    <3> HIDE DEF r, m
    <3> QED BY <2>1, <1>5
  <2> QED BY <2>2, <2>3, OneRemainder
<1> HIDE DEF r, m
<1>6. r % D = n % D
  BY <1>2, <1>3, <1>4, <1>5
<1> QED BY <1>6 DEF r, m

\* Less than D numbers apart, the remainders differ.
LEMMA RemaindersDiffer ==
    ASSUME NEW a \in Nat, NEW b \in Nat, NEW D \in Nat \ {0}, a < b, b < a + D
    PROVE  a % D # b % D
<1>1. ASSUME NEW o \in Nat, NEW q \in Nat, NEW r \in 0..(D - 1), a = D * o + r, b = D * q + r
      PROVE FALSE
  <2>1. D * (q - o) = b - a
    BY <1>1
  <2>2. q - o = 0
     BY <2>1, Multiple
  <2> QED BY <2>1, <2>2
<1>2. /\ a = D * (a \div D) + (a % D) /\ a % D \in 0..(D-1) /\ a \div D \in Nat
      /\ b = D * (b \div D) + (b % D) /\ b \div D \in Nat
  BY DivMod
<1> QED BY <1>1, <1>2

-----------------------------------------------------------------------------
(* ping: the steps *)

LEMMA BitIs ==
    ASSUME Ping!TableFits, NEW n \in Nat
    PROVE  Ping!Bit(n) = n % DupCheck /\ Ping!Bit(n) \in 0..(DupCheck - 1)
<1> DEFINE K == SeqNumbers \div DupCheck
<1>1. DupCheck \in Nat \ {0} /\ SeqNumbers \in Nat \ {0} /\ SeqNumbers % DupCheck = 0
  BY DEF Ping!TableFits
<1>2. SeqNumbers = DupCheck * K + 0 /\ K \in Nat
  BY <1>1, DivMod
<1> HIDE DEF K
<1>3. SeqNumbers = DupCheck * K /\ K \in Nat \ {0}
  BY <1>1, <1>2
<1>4. (n % SeqNumbers) % DupCheck = n % DupCheck
  BY <1>1, <1>3, RemainderOfRemainder
<1>5. n % DupCheck \in 0..(DupCheck - 1)
  BY <1>1, DivMod
<1> QED BY <1>4, <1>5 DEF Ping!Bit

LEMMA BitsDiffer ==
    ASSUME Ping!TableFits, NEW d \in Nat, NEW e \in Nat, d # e, d < e + DupCheck, e < d + DupCheck
    PROVE  Ping!Bit(d) # Ping!Bit(e)
<1>1. DupCheck \in Nat \ {0}
  BY DEF Ping!TableFits
<1>2. CASE d < e
  BY <1>1, <1>2, BitIs, RemaindersDiffer
<1>3. CASE e < d
  BY <1>1, <1>3, BitIs, RemaindersDiffer
<1> QED BY <1>2, <1>3

\* What pinger() does, whether the echo goes out or not
LEMMA SendsDo ==
    ASSUME PingTypeOK, Ping!Sends
    PROVE  /\ rcvd' = rcvd \ {Ping!Bit(ntransmitted)} /\ tried' = ntransmitted + 1
           /\ ntransmitted' \in {ntransmitted, ntransmitted + 1}
           /\ DOMAIN net' \subseteq 0..(ntransmitted' - 1)
BY DEF PingTypeOK, Ping!Sends, Ping!NoBuffer, Ping!Pinger

LEMMA SendsBits ==
    ASSUME Ping!TableFits, PingTypeOK, BitsTell, Ping!Sends, UNCHANGED <<answered, nreceived, nrepeats>>
    PROVE  BitsTell'
<1>1. rcvd' = rcvd \ {Ping!Bit(ntransmitted)} /\ tried' = ntransmitted + 1
  BY SendsDo
<1>2. /\ ntransmitted \in Nat /\ tried \in {ntransmitted, ntransmitted + 1}
      /\ answered.of \subseteq 0..(ntransmitted - 1) /\ DupCheck \in Nat \ {0}
  BY DEF PingTypeOK, Ping!TableFits
<1>3. SUFFICES ASSUME NEW e \in 0..ntransmitted, ntransmitted + 1 <= e + DupCheck
               PROVE  Ping!Bit(e) \in rcvd' <=> e \in answered.of
  <2>1. tried' - 1 = ntransmitted
    BY <1>1, <1>2
  <2> QED BY <1>1, <1>2, <2>1 DEF BitsTell, Ping!Bit
<1>4. CASE e = ntransmitted
  BY <1>1, <1>2, <1>4
<1>5. CASE e # ntransmitted
  <2>1. Ping!Bit(e) # Ping!Bit(ntransmitted)
    BY <1>2, <1>3, <1>5, BitsDiffer
  <2>2. Ping!Bit(e) \in rcvd <=> e \in answered.of
    BY <1>2, <1>3, <1>5 DEF BitsTell
  <2> QED BY <1>1, <2>1, <2>2
<1> QED BY <1>4, <1>5

\* SendOrWait
LEMMA SendOrWaitKeeps ==
    ASSUME Ping!TableFits, PingInv, pc # "preload", Ping!SendOrWait,
           UNCHANGED <<opt, preload, nreceived, nrepeats, answered, late>>
    PROVE  PingInv'
<1>1. CASE Ping!Sends /\ pc' = "loop" /\ (opt.npackets = 0 \/ ntransmitted < opt.npackets)
  <2>1. PingTypeOK'
    BY <1>1, SendsDo DEF PingInv, PingTypeOK
  <2>2. SentOK'
    BY <1>1, SendsDo DEF PingInv, PingTypeOK, SentOK, Ping!Max2
  <2>3. ~late' => BitsTell'
    BY SendsBits, <1>1 DEF PingInv
  <2> QED BY <2>1, <2>2, <2>3 DEF PingInv
<1>2. CASE pc' \in {"done", "loop"} /\ UNCHANGED <<ntransmitted, tried, rcvd, net>>
  BY <1>2 DEF PingInv, PingTypeOK, SentOK, BitsTell, Ping!Bit, Ping!Max2
<1> QED BY <1>1, <1>2 DEF Ping!SendOrWait

LEMMA PreloadKeeps ==
    ASSUME Ping!TableFits, PingInv, Ping!Preload
    PROVE  PingInv'
<1>1. /\ Ping!Sends /\ preload' = preload - 1 /\ pc = "preload"
      /\ pc' = IF preload = 0 THEN "loop" ELSE "preload"
      /\ UNCHANGED <<opt, nreceived, nrepeats, answered, late>>
  BY DEF Ping!Preload, Ping!counts
<1>2. PingTypeOK'
  BY <1>1, SendsDo DEF PingInv, PingTypeOK
<1>3. SentOK'
  BY <1>1, SendsDo DEF PingInv, PingTypeOK, SentOK, Ping!Max2
<1>4. ~late' => BitsTell'
  BY <1>1, SendsBits DEF PingInv
<1> QED BY <1>2, <1>3, <1>4 DEF PingInv

\* After a packet, only what is under way and where to go on may be others.
LEMMA AfterPacketDoes ==
    ASSUME NEW left, Ping!AfterPacket(left)
    PROVE  net' = left /\ pc' \in {"done", "flood", "loop"} /\ UNCHANGED <<ntransmitted, tried, almost_done>>
BY Zenon DEF Ping!AfterPacket

LEMMA TookLess ==
    ASSUME NEW e
    PROVE  DOMAIN Ping!Took(e) \subseteq DOMAIN net
BY DEF Ping!Took

\* An answer in time is to one of the last numbers, whose bit is its own.
LEMMA AnswerBits ==
    ASSUME Ping!TableFits, PingTypeOK, BitsTell, NEW e \in 0..(ntransmitted - 1), tried <= e + DupCheck,
           IF Ping!Bit(e) \in rcvd
           THEN nrepeats' = nrepeats + 1 /\ UNCHANGED <<nreceived, rcvd>>
           ELSE nreceived' = nreceived + 1 /\ rcvd' = rcvd \cup {Ping!Bit(e)} /\ UNCHANGED nrepeats,
           answered' = [all |-> answered.all + 1, of |-> answered.of \cup {e}], tried' = tried
    PROVE  BitsTell'
<1>1. /\ ntransmitted \in Nat /\ tried \in {ntransmitted, ntransmitted + 1} /\ DupCheck \in Nat \ {0}
      /\ IsFiniteSet(answered.of) /\ nreceived \in Nat /\ nrepeats \in Nat /\ answered.all \in Nat
  BY DEF PingTypeOK, Ping!TableFits
<1>2. e \in 0..(tried - 1) /\ (Ping!Bit(e) \in rcvd <=> e \in answered.of)
  BY <1>1 DEF BitsTell
<1>3. nreceived = Cardinality(answered.of) /\ nrepeats = answered.all - nreceived
  BY DEF BitsTell
<1>4. CASE e \in answered.of
  <2>1. answered'.of = answered.of /\ answered'.all = answered.all + 1
    BY <1>4
  <2>2. nrepeats' = nrepeats + 1 /\ UNCHANGED <<nreceived, rcvd>>
    BY <1>2, <1>4
  <2>3. nreceived' = Cardinality(answered'.of) /\ nrepeats' = answered'.all - nreceived'
    <3>1. nreceived' = nreceived /\ nrepeats' = nrepeats + 1
      BY <2>2
    <3>2. Cardinality(answered'.of) = Cardinality(answered.of)
      BY <2>1
    <3>3. answered'.all - nreceived' = answered.all - nreceived + 1
      BY <1>1, <2>1, <3>1
    <3> QED BY <1>3, <3>1, <3>2, <3>3
  <2> QED BY <2>1, <2>2, <2>3 DEF BitsTell, Ping!Bit
<1>5. CASE e \notin answered.of
  <2>1. nreceived' = nreceived + 1 /\ rcvd' = rcvd \cup {Ping!Bit(e)} /\ UNCHANGED nrepeats
    BY <1>2, <1>5
  <2>2. answered'.of = answered.of \cup {e} /\ answered'.all = answered.all + 1
    OBVIOUS
  <2>3. Cardinality(answered.of \cup {e}) = Cardinality(answered.of) + 1
    BY <1>1, <1>5, FS_AddElement
  <2>4. nreceived' = Cardinality(answered'.of) /\ nrepeats' = answered'.all - nreceived'
    BY <1>1, <1>3, <2>1, <2>2, <2>3
  <2>5. ASSUME NEW d \in 0..(tried - 1), tried <= d + DupCheck
        PROVE  Ping!Bit(d) \in rcvd' <=> d \in answered'.of
    <3>1. CASE d = e
      BY <2>1, <2>2, <3>1
    <3>2. CASE d # e
      <4>1. Ping!Bit(d) # Ping!Bit(e)
        BY <1>1, <1>2, <2>5, <3>2, BitsDiffer
      <4>2. Ping!Bit(d) \in rcvd <=> d \in answered.of
        BY <2>5 DEF BitsTell
      <4> QED BY <2>1, <2>2, <3>2, <4>1, <4>2
    <3> QED BY <3>1, <3>2
  <2> QED BY <2>4, <2>5 DEF BitsTell, Ping!Bit
<1> QED BY <1>4, <1>5

LEMMA AnswerKeeps ==
    ASSUME Ping!TableFits, PingInv, Ping!Answer
    PROVE  PingInv'
<1>1. PICK e \in DOMAIN net :
          /\ IF Ping!Bit(e) \in rcvd
             THEN nrepeats' = nrepeats + 1 /\ UNCHANGED <<nreceived, rcvd>>
             ELSE nreceived' = nreceived + 1 /\ rcvd' = rcvd \cup {Ping!Bit(e)} /\ UNCHANGED nrepeats
          /\ answered' = [all |-> answered.all + 1, of |-> answered.of \cup {e}]
          /\ late' = (late \/ tried > e + DupCheck)
          /\ Ping!AfterPacket(Ping!Took(e))
  BY DEF Ping!Answer
<1>2. /\ net' = Ping!Took(e) /\ pc' \in {"done", "flood", "loop"} /\ pc = "loop"
      /\ UNCHANGED <<opt, preload, ntransmitted, tried>>
  BY <1>1, AfterPacketDoes DEF Ping!Answer
<1>3. /\ e \in 0..(ntransmitted - 1) /\ DOMAIN net' \subseteq 0..(ntransmitted - 1)
      /\ IsFiniteSet(answered.of \cup {e}) /\ DupCheck \in Nat \ {0}
  BY <1>2, TookLess, FS_AddElement DEF PingInv, PingTypeOK, Ping!TableFits
<1>4. PingTypeOK'
  <2>1. answered' \in [all : Nat, of : SUBSET (0..(ntransmitted' - 1))] /\ IsFiniteSet(answered'.of)
    BY <1>1, <1>2, <1>3 DEF PingInv, PingTypeOK
  <2>2. nreceived' \in Nat /\ nrepeats' \in Nat /\ late' \in BOOLEAN
    <3>1. nreceived \in Nat /\ nrepeats \in Nat /\ late \in BOOLEAN
      BY DEF PingInv, PingTypeOK
    <3>2. nreceived' \in {nreceived, nreceived + 1} /\ nrepeats' \in {nrepeats, nrepeats + 1}
      BY <1>1
    <3>3. late' \in BOOLEAN
      BY <1>1, <3>1
    <3> QED BY <3>1, <3>2, <3>3
  <2> QED BY <1>2, <1>3, <2>1, <2>2 DEF PingInv, PingTypeOK
<1>5. SentOK'
  BY <1>2 DEF PingInv, SentOK, Ping!Max2
<1>6. ~late' => BitsTell'
  <2>1. SUFFICES ASSUME ~late' PROVE BitsTell'
    OBVIOUS
  <2>2. ~late /\ tried <= e + DupCheck
    <3>1. ~(late \/ tried > e + DupCheck)
      BY <1>1, <2>1
    <3>2. tried \in Int /\ e + DupCheck \in Int
      BY <1>3 DEF PingInv, PingTypeOK
    <3> QED BY <3>1, <3>2
  <2> QED BY <1>1, <1>2, <1>3, <2>2, AnswerBits DEF PingInv
<1> QED BY <1>4, <1>5, <1>6 DEF PingInv

LEMMA PingStep ==
    ASSUME Ping!TableFits, PingInv, [Ping!PingNext]_(Ping!vars)
    PROVE  PingInv'
<1> USE DEF Ping!counts, Ping!ends
<1>1. CASE Ping!Preload
  BY <1>1, PreloadKeeps
<1>2. CASE Ping!Timeout \/ Ping!Flood
  BY <1>2, SendOrWaitKeeps DEF Ping!Timeout, Ping!Flood
<1>3. CASE Ping!Answer
  BY <1>3, AnswerKeeps
<1>4. CASE Ping!Other
  <2>1. /\ net' = net /\ pc' \in {"done", "flood", "loop"} /\ pc = "loop"
        /\ UNCHANGED <<opt, preload, ntransmitted, tried, nreceived, nrepeats, rcvd, answered, late>>
    BY <1>4, AfterPacketDoes DEF Ping!Other
  <2> QED BY <2>1 DEF PingInv, PingTypeOK, SentOK, BitsTell, Ping!Bit, Ping!Max2
<1>5. CASE Ping!Lost
  <2>1. /\ DOMAIN net' \subseteq DOMAIN net
        /\ UNCHANGED <<opt, pc, preload, ntransmitted, tried, nreceived, nrepeats, rcvd, answered, late>>
    BY <1>5, TookLess DEF Ping!Lost
  <2> QED BY <2>1 DEF PingInv, PingTypeOK, SentOK, BitsTell, Ping!Bit, Ping!Max2
<1>6. CASE Ping!Stop \/ Ping!Finish \/ UNCHANGED Ping!vars
  <2>1. /\ UNCHANGED <<opt, preload, ntransmitted, tried, nreceived, nrepeats, rcvd, net, answered, late>>
        /\ pc' \in {pc, "done"}
    BY <1>6 DEF Ping!Stop, Ping!Finish, Ping!vars
  <2> QED BY <2>1 DEF PingInv, PingTypeOK, SentOK, BitsTell, Ping!Bit, Ping!Max2
<1> QED BY <1>1, <1>2, <1>3, <1>4, <1>5, <1>6 DEF Ping!PingNext

LEMMA PingStart ==
    ASSUME Ping!TableFits, Ping!PingInit
    PROVE  PingInv
<1>1. answered.of = {} /\ IsFiniteSet(answered.of) /\ Cardinality(answered.of) = 0 /\ answered.all = 0
  BY FS_EmptySet DEF Ping!PingInit
<1>2. DOMAIN net = {}
  BY DEF Ping!PingInit
<1>3. opt \in [npackets : Nat, preload : Nat, flood : BOOLEAN]
  BY DEF Ping!PingInit, Ping!TableFits
<1>4. PingTypeOK
  <2>1. answered \in [all : Nat, of : SUBSET (0..(ntransmitted - 1))]
    BY DEF Ping!PingInit
  <2>2. /\ pc \in {"preload", "loop", "flood", "done"} /\ late \in BOOLEAN
        /\ nreceived = 0 /\ nrepeats = 0 /\ ntransmitted = 0 /\ tried = 0
    BY DEF Ping!PingInit
  <2>3. preload \in Int
    BY <1>3 DEF Ping!PingInit
  <2> QED BY <1>1, <1>2, <1>3, <2>1, <2>2, <2>3 DEF PingTypeOK
<1>5. SentOK
  BY <1>3 DEF Ping!PingInit, SentOK, Ping!Max2
<1>6. BitsTell
  BY <1>1 DEF Ping!PingInit, BitsTell
<1> QED BY <1>4, <1>5, <1>6 DEF PingInv

LEMMA PingMeans == PingInv => Ping!PingCounts
<1>1. Ping!Cardinality(answered.of) = Cardinality(answered.of)
  BY DEF Ping!Cardinality, Cardinality
<1> QED BY <1>1 DEF PingInv, BitsTell, SentOK, Ping!PingCounts

-----------------------------------------------------------------------------
(* pwd_mkdb: the invariant *)

HasLock == {"insecure", "secure", "orig", "scan", "pwd", "spwd", "passwd", "master"}

\* What a run that opens a database begins with
Begin(q, db) == IF opt[q].user = "" THEN PwdMkdb!NoDb ELSE db
NewDb(secure) == PwdMkdb!Db(case.new, secure)
Whose(secure) == {PwdMkdb!Db(case.old, secure), NewDb(secure)}

PwdTypeOK ==
    /\ case \in PwdCases
    /\ opt \in [PwdRuns -> {o \in PwdCalls : o.user \in case.users}]
    /\ pc \in [PwdRuns -> HasLock \cup {"ready", "lock", "idle"}]
    /\ clean \in [PwdRuns -> {"insecure", "secure", "orig"}]
    /\ tmp = [pwd |-> tmp.pwd, spwd |-> tmp.spwd, orig |-> tmp.orig]
    /\ files = [pwd |-> files.pwd, spwd |-> files.spwd, passwd |-> files.passwd, master |-> files.master]

\* One run at a time has the lock, from the first database to the password file, and
\* whoever gives up without it removes no more than pwd.db.tmp.
LockOK ==
    /\ \A q \in PwdRuns : holder = q <=> pc[q] \in HasLock
    /\ \A q \in PwdRuns : pc[q] \in {"ready", "lock", "insecure", "secure"} => clean[q] = "insecure"

\* What is under the other names while a run has the lock: pwd.db.tmp may be gone.
TmpOK ==
    \A q \in PwdRuns :
        /\ pc[q] \in {"secure", "orig", "scan"} =>
                tmp.pwd \in {PwdMkdb!None, [by |-> q, has |-> Begin(q, files.pwd)]}
        /\ pc[q] \in {"orig", "scan"} => tmp.spwd = [by |-> q, has |-> Begin(q, files.spwd)]
        /\ pc[q] = "pwd" => tmp.pwd \in {PwdMkdb!None, [by |-> q, has |-> NewDb(FALSE)]}
        /\ pc[q] \in {"pwd", "spwd"} => tmp.spwd = [by |-> q, has |-> NewDb(TRUE)]

\* What is in place
InPlace ==
    /\ files.pwd \in Whose(FALSE) /\ files.spwd \in Whose(TRUE)
    /\ \A q \in PwdRuns : pc[q] \in {"spwd", "passwd", "master"} => files.pwd = NewDb(FALSE)
    /\ \A q \in PwdRuns : pc[q] \in {"passwd", "master"} => files.spwd = NewDb(TRUE)
    /\ halfway \/ (\E q \in PwdRuns : PwdMkdb!Installing(q)) \/ PwdMkdb!Agree(case.old) \/ PwdMkdb!Agree(case.new)
    /\ ~named \/ files.master = case.new => PwdMkdb!Agree(case.new)

PwdInv == PwdTypeOK /\ LockOK /\ TmpOK /\ InPlace

-----------------------------------------------------------------------------
(* pwd_mkdb: the steps *)

LEMMA PwdFacts ==
    ASSUME PwdMkdb!CasesLoad, PwdInv, NEW q \in PwdRuns
    PROVE  /\ q # 0 /\ [by |-> q, has |-> tmp.spwd.has] # PwdMkdb!None
           /\ pc[q] \in HasLock \cup {"ready", "lock", "idle"}
           /\ pc[q] \in HasLock => holder = q /\ \A r \in PwdRuns : r # q => pc[r] \notin HasLock
BY DEF PwdMkdb!CasesLoad, PwdInv, PwdTypeOK, LockOK, PwdMkdb!None

\* A run gives up: without the lock it removes pwd.db.tmp and nothing else, and between its
\* two moves it does not.
LEMMA FailKeeps ==
    ASSUME PwdMkdb!CasesLoad, PwdInv, NEW q \in PwdRuns, NEW level \in {"insecure", "secure", "orig"},
           PwdMkdb!Fail(q, level), pc[q] \in HasLock \/ level = "insecure", pc[q] \notin {"idle", "spwd"}
    PROVE  PwdInv'
<1>1. /\ pc' = [pc EXCEPT ![q] = "idle"] /\ clean' = [clean EXCEPT ![q] = level]
      /\ tmp' = PwdMkdb!Cleanup(level) /\ holder' = (IF holder = q THEN 0 ELSE holder)
      /\ UNCHANGED <<case, opt, files, named, halfway>>
  BY DEF PwdMkdb!Fail, PwdMkdb!Release
<1>2. /\ pc \in [PwdRuns -> HasLock \cup {"ready", "lock", "idle"}] /\ clean \in [PwdRuns -> {"insecure", "secure", "orig"}]
      /\ LockOK /\ TmpOK /\ InPlace /\ \A r \in PwdRuns : r # 0
  BY PwdFacts DEF PwdInv, PwdTypeOK
<1>3. PwdTypeOK'
  BY <1>1, <1>2 DEF PwdInv, PwdTypeOK, PwdMkdb!Cleanup
<1>4. LockOK'
  BY <1>1, <1>2 DEF LockOK, HasLock
<1>5. TmpOK'
  <2>1. SUFFICES ASSUME NEW r \in PwdRuns, pc'[r] \in {"secure", "orig", "scan", "pwd", "spwd"}
                 PROVE  /\ pc[r] = pc'[r] /\ tmp'.spwd = tmp.spwd
                        /\ tmp'.pwd \in {tmp.pwd, PwdMkdb!None}
    BY <1>1, <1>2 DEF TmpOK, Begin, NewDb
  <2>2. r # q /\ pc[r] = pc'[r]
    BY <1>1, <1>2, <2>1
  <2>3. pc[q] \notin HasLock
    BY <1>2, <2>1, <2>2 DEF LockOK, HasLock
  <2>4. level = "insecure"
    BY <2>3
  <2> QED BY <1>1, <2>2, <2>4 DEF PwdMkdb!Cleanup
<1>6. InPlace'
  <2>1. \A r \in PwdRuns : pc'[r] \in {"spwd", "passwd", "master"} => pc'[r] = pc[r]
    BY <1>1, <1>2
  <2>2. CASE PwdMkdb!Installing(q)
    <3>1. PwdMkdb!Agree(case.new)
      BY <1>2, <2>2 DEF InPlace, PwdMkdb!Installing, PwdMkdb!Agree, NewDb
    <3> QED BY <1>1, <1>2, <2>1, <3>1 DEF InPlace, Whose, NewDb, PwdMkdb!Agree
  <2>3. CASE ~PwdMkdb!Installing(q)
    <3>1. \A r \in PwdRuns : PwdMkdb!Installing(r) => PwdMkdb!Installing(r)'
      BY <1>1, <1>2, <2>3 DEF PwdMkdb!Installing
    <3> QED BY <1>1, <1>2, <2>1, <3>1 DEF InPlace, Whose, NewDb, PwdMkdb!Agree
  <2> QED BY <2>2, <2>3
<1> QED BY <1>3, <1>4, <1>5, <1>6 DEF PwdInv

\* A run goes on, and changes no more than its own files under the other names.
LEMMA HolderKeeps ==
    ASSUME PwdMkdb!CasesLoad, PwdInv, NEW q \in PwdRuns, NEW there \in {"secure", "orig", "scan", "pwd"},
           pc[q] \in {"insecure", "secure", "orig", "scan"}, pc' = [pc EXCEPT ![q] = there],
           UNCHANGED <<case, opt, holder, files, named, halfway>>,
           clean' \in [PwdRuns -> {"insecure", "secure", "orig"}], \A r \in PwdRuns \ {q} : clean'[r] = clean[r],
           there = "secure" => clean'[q] = "insecure",
           tmp' = [pwd |-> tmp'.pwd, spwd |-> tmp'.spwd, orig |-> tmp'.orig],
           there \in {"secure", "orig", "scan"} =>
                tmp'.pwd \in {PwdMkdb!None, [by |-> q, has |-> Begin(q, files.pwd)]},
           there \in {"orig", "scan"} => tmp'.spwd = [by |-> q, has |-> Begin(q, files.spwd)],
           there = "pwd" => /\ tmp'.pwd \in {PwdMkdb!None, [by |-> q, has |-> NewDb(FALSE)]}
                            /\ tmp'.spwd = [by |-> q, has |-> NewDb(TRUE)]
    PROVE  PwdInv'
<1>1. /\ pc \in [PwdRuns -> HasLock \cup {"ready", "lock", "idle"}] /\ LockOK /\ TmpOK /\ InPlace
      /\ \A r \in PwdRuns : r # q => pc[r] \notin HasLock
  BY PwdFacts DEF PwdInv, PwdTypeOK, HasLock
<1>2. PwdTypeOK'
  BY <1>1 DEF PwdInv, PwdTypeOK, HasLock
<1>3. LockOK'
  <2>1. ASSUME NEW r \in PwdRuns
        PROVE  holder' = r <=> pc'[r] \in HasLock
    <3>1. CASE r = q
      BY <1>1, <3>1 DEF LockOK, HasLock
    <3>2. CASE r # q
      BY <1>1, <3>2 DEF LockOK
    <3> QED BY <3>1, <3>2
  <2>2. ASSUME NEW r \in PwdRuns, pc'[r] \in {"ready", "lock", "insecure", "secure"}
        PROVE  clean'[r] = "insecure"
    <3>1. CASE r = q
      BY <1>1, <2>2, <3>1
    <3>2. CASE r # q
      BY <1>1, <2>2, <3>2 DEF LockOK
    <3> QED BY <3>1, <3>2
  <2> QED BY <2>1, <2>2 DEF LockOK
<1>4. TmpOK'
  <2>1. SUFFICES ASSUME NEW r \in PwdRuns, pc'[r] \in {"secure", "orig", "scan", "pwd", "spwd"}
                 PROVE  r = q
    BY <1>1, ZenonT(40) DEF TmpOK, Begin, NewDb
  <2> QED BY <1>1, <2>1 DEF HasLock
<1>5. InPlace'
  <2>1. \A r \in PwdRuns : pc'[r] \notin {"spwd", "passwd", "master"}
    BY <1>1 DEF HasLock
  <2>2. ~(\E r \in PwdRuns : PwdMkdb!Installing(r))
    BY <1>1 DEF HasLock, PwdMkdb!Installing
  <2> QED BY <1>1, <2>1, <2>2 DEF InPlace, Whose, NewDb, PwdMkdb!Agree
<1> QED BY <1>2, <1>3, <1>4, <1>5 DEF PwdInv

LEMMA OpenKeeps ==
    ASSUME PwdMkdb!CasesLoad, PwdInv, NEW q \in PwdRuns, PwdMkdb!Open(q) \/ PwdMkdb!Lock(q)
    PROVE  PwdInv'
<1>1. /\ pc[q] \in {"ready", "lock"} /\ clean[q] = "insecure" /\ pc[q] \notin HasLock
      /\ pc \in [PwdRuns -> HasLock \cup {"ready", "lock", "idle"}] /\ q # 0
  BY PwdFacts DEF PwdInv, PwdTypeOK, LockOK, HasLock, PwdMkdb!Open, PwdMkdb!Lock
<1>2. CASE PwdMkdb!Fail(q, clean[q])
  BY <1>1, <1>2, FailKeeps
<1>3. CASE /\ pc' = [pc EXCEPT ![q] = "lock"]
           /\ UNCHANGED <<case, opt, clean, holder, tmp, files, named, halfway>>
  BY <1>1, <1>3, ZenonT(40) DEF PwdInv, PwdTypeOK, LockOK, HasLock, TmpOK, Begin, NewDb, InPlace, Whose,
     PwdMkdb!Agree, PwdMkdb!Installing
<1>4. CASE /\ holder = 0 /\ holder' = q /\ pc' = [pc EXCEPT ![q] = "insecure"]
           /\ UNCHANGED <<case, opt, clean, tmp, files, named, halfway>>
  BY <1>1, <1>4, PwdFacts DEF PwdInv, PwdTypeOK, LockOK, HasLock, TmpOK, Begin, NewDb, InPlace, Whose,
     PwdMkdb!Agree, PwdMkdb!Installing
<1> QED BY <1>2, <1>3, <1>4 DEF PwdMkdb!Open, PwdMkdb!Lock, PwdMkdb!Goto

LEMMA OpenDbKeeps ==
    ASSUME PwdMkdb!CasesLoad, PwdInv, NEW q \in PwdRuns,
           PwdMkdb!OpenInsecure(q) \/ PwdMkdb!OpenSecure(q) \/ PwdMkdb!OpenOrig(q)
    PROVE  PwdInv'
<1>1. /\ pc[q] \in {"insecure", "secure", "orig"} /\ TmpOK /\ LockOK
      /\ clean \in [PwdRuns -> {"insecure", "secure", "orig"}]
      /\ tmp = [pwd |-> tmp.pwd, spwd |-> tmp.spwd, orig |-> tmp.orig]
  BY DEF PwdMkdb!OpenInsecure, PwdMkdb!OpenSecure, PwdMkdb!OpenOrig, PwdInv, PwdTypeOK
<1>2. ASSUME NEW level \in {"insecure", "secure", "orig"}, PwdMkdb!Fail(q, level)
      PROVE  PwdInv'
  BY <1>1, <1>2, FailKeeps DEF HasLock
<1>3. CASE PwdMkdb!OpenInsecure(q)
  <2>1. CASE PwdMkdb!Fail(q, clean[q])
    BY <1>1, <1>2, <2>1
  <2>2. CASE /\ tmp' = [tmp EXCEPT !.pwd = PwdMkdb!Fresh(q, files.pwd)] /\ pc' = [pc EXCEPT ![q] = "secure"]
             /\ UNCHANGED <<case, opt, clean, holder, files, named, halfway>>
    <3>1. /\ tmp'.pwd = [by |-> q, has |-> Begin(q, files.pwd)]
          /\ tmp' = [pwd |-> tmp'.pwd, spwd |-> tmp'.spwd, orig |-> tmp'.orig]
      BY <1>1, <2>2 DEF PwdMkdb!Fresh, Begin
    <3>2. clean[q] = "insecure"
      BY <1>1, <1>3 DEF PwdMkdb!OpenInsecure, LockOK
    <3> QED BY <1>1, <2>2, <3>1, <3>2, HolderKeeps
  <2> QED BY <1>3, <2>1, <2>2 DEF PwdMkdb!OpenInsecure, PwdMkdb!Goto
<1>4. CASE PwdMkdb!OpenSecure(q)
  <2>1. CASE PwdMkdb!Fail(q, IF opt[q].user # "" THEN "secure" ELSE clean[q])
    BY <1>1, <1>2, <2>1
  <2>2. CASE /\ tmp' = [tmp EXCEPT !.spwd = PwdMkdb!Fresh(q, files.spwd)]
             /\ clean' = [clean EXCEPT ![q] = "secure"]
             /\ pc' = [pc EXCEPT ![q] = IF opt[q].makeold THEN "orig" ELSE "scan"]
             /\ UNCHANGED <<case, opt, holder, files, named, halfway>>
    <3> DEFINE there == IF opt[q].makeold THEN "orig" ELSE "scan"
    <3>1. /\ tmp'.pwd = tmp.pwd /\ tmp'.spwd = [by |-> q, has |-> Begin(q, files.spwd)]
          /\ tmp' = [pwd |-> tmp'.pwd, spwd |-> tmp'.spwd, orig |-> tmp'.orig]
      BY <1>1, <2>2 DEF PwdMkdb!Fresh, Begin
    <3>2. pc[q] = "secure" /\ tmp.pwd \in {PwdMkdb!None, [by |-> q, has |-> Begin(q, files.pwd)]}
      BY <1>1, <1>4 DEF PwdMkdb!OpenSecure, TmpOK
    <3>3. /\ clean' \in [PwdRuns -> {"insecure", "secure", "orig"}]
          /\ \A r \in PwdRuns \ {q} : clean'[r] = clean[r]
      BY <1>1, <2>2
    <3>4. there \in {"orig", "scan"} /\ pc' = [pc EXCEPT ![q] = there]
      BY <2>2
    <3> HIDE DEF there
    <3> QED BY <2>2, <3>1, <3>2, <3>3, <3>4, HolderKeeps
  <2> QED BY <1>4, <2>1, <2>2 DEF PwdMkdb!OpenSecure, PwdMkdb!Goto
<1>5. CASE PwdMkdb!OpenOrig(q)
  <2>1. CASE PwdMkdb!Fail(q, clean[q])
    BY <1>1, <1>2, <2>1
  <2>2. CASE /\ tmp' = [tmp EXCEPT !.orig = [by |-> q, has |-> <<>>]]
             /\ clean' = [clean EXCEPT ![q] = "orig"] /\ pc' = [pc EXCEPT ![q] = "scan"]
             /\ UNCHANGED <<case, opt, holder, files, named, halfway>>
    <3>1. /\ tmp'.pwd = tmp.pwd /\ tmp'.spwd = tmp.spwd
          /\ tmp' = [pwd |-> tmp'.pwd, spwd |-> tmp'.spwd, orig |-> tmp'.orig]
      BY <1>1, <2>2
    <3>2. /\ pc[q] = "orig" /\ tmp.pwd \in {PwdMkdb!None, [by |-> q, has |-> Begin(q, files.pwd)]}
          /\ tmp.spwd = [by |-> q, has |-> Begin(q, files.spwd)]
      BY <1>1, <1>5 DEF PwdMkdb!OpenOrig, TmpOK
    <3>3. /\ clean' \in [PwdRuns -> {"insecure", "secure", "orig"}]
          /\ \A r \in PwdRuns \ {q} : clean'[r] = clean[r]
      BY <1>1, <2>2
    <3> QED BY <2>2, <3>1, <3>2, <3>3, HolderKeeps
  <2> QED BY <1>5, <2>1, <2>2 DEF PwdMkdb!OpenOrig, PwdMkdb!Goto
<1> QED BY <1>3, <1>4, <1>5

\* A run writes to a file of its own and to no other.
LEMMA OwnWritten ==
    ASSUME NEW q, NEW old, NEW has
    PROVE  PwdMkdb!Written([by |-> q, has |-> old], q, has) = [by |-> q, has |-> has]
BY DEF PwdMkdb!Written

LEMMA NotWritten ==
    ASSUME NEW q, q # 0, NEW has
    PROVE  PwdMkdb!Written(PwdMkdb!None, q, has) = PwdMkdb!None
BY DEF PwdMkdb!Written, PwdMkdb!None

\* The two databases are loaded from what the run began with.
LEMMA ScanKeeps ==
    ASSUME PwdMkdb!CasesLoad, PwdInv, NEW q \in PwdRuns, PwdMkdb!Scan(q) \/ PwdMkdb!BadLine(q)
    PROVE  PwdInv'
<1>1. /\ pc[q] = "scan" /\ TmpOK /\ InPlace /\ clean \in [PwdRuns -> {"insecure", "secure", "orig"}]
      /\ case \in PwdCases /\ opt[q] \in PwdCalls /\ opt[q].user \in case.users
  BY DEF PwdMkdb!Scan, PwdMkdb!BadLine, PwdInv, PwdTypeOK
<1>2. CASE PwdMkdb!BadLine(q)
  BY <1>1, <1>2, FailKeeps DEF PwdMkdb!BadLine, HasLock
<1>3. CASE PwdMkdb!Scan(q)
  <2> DEFINE lines == PwdMkdb!Lines(case.new)
             load(db, secure) == PwdMkdb!Loaded(db, lines, secure, opt[q], PwdMkdb!OwnsUid(opt[q]))
  <2>1. PICK v \in {case.old, case.new} : files.pwd = PwdMkdb!Db(v, FALSE)
    BY <1>1 DEF InPlace, Whose, NewDb
  <2>2. ASSUME NEW secure \in BOOLEAN, NEW db \in Whose(secure)
        PROVE  load(Begin(q, db), secure) = NewDb(secure)
    <3>1. PICK w \in {case.old, case.new} : db = PwdMkdb!Db(w, secure)
      BY <2>2 DEF Whose, NewDb
    <3>2. PwdMkdb!OwnsUid(opt[q]) = PwdMkdb!Owns(PwdMkdb!Db(v, FALSE), opt[q])
      BY <2>1 DEF PwdMkdb!OwnsUid
    <3>3. PwdMkdb!Loaded(IF opt[q].user = "" THEN PwdMkdb!NoDb ELSE PwdMkdb!Db(w, secure), lines, secure,
                         opt[q], PwdMkdb!Owns(PwdMkdb!Db(v, FALSE), opt[q])) = PwdMkdb!Db(case.new, secure)
      <4>1. PwdMkdb!Readable(lines)
        BY <1>3 DEF PwdMkdb!Scan
      <4>2. case \in PwdCases /\ opt[q] \in PwdCalls /\ opt[q].user \in case.users
        BY <1>1
      <4>3. \A x, y \in {case.old, case.new}, f \in BOOLEAN :
               PwdMkdb!Loaded(IF opt[q].user = "" THEN PwdMkdb!NoDb ELSE PwdMkdb!Db(y, f), lines, f,
                              opt[q], PwdMkdb!Owns(PwdMkdb!Db(x, FALSE), opt[q])) = PwdMkdb!Db(case.new, f)
        BY <4>1, <4>2 DEF PwdMkdb!CasesLoad
      <4> HIDE DEF lines
      <4> QED BY <4>3, Zenon
    <3> QED BY <3>1, <3>2, <3>3 DEF Begin, NewDb
  <2>3. /\ tmp' = [pwd |-> PwdMkdb!Written(tmp.pwd, q, load(tmp.pwd.has, FALSE)),
                   spwd |-> PwdMkdb!Written(tmp.spwd, q, load(tmp.spwd.has, TRUE)),
                   orig |-> tmp'.orig]
        /\ pc' = [pc EXCEPT ![q] = "pwd"]
        /\ UNCHANGED <<case, opt, clean, holder, files, named, halfway>>
    BY <1>3 DEF PwdMkdb!Scan, PwdMkdb!Made, PwdMkdb!Goto
  <2>a. /\ tmp'.pwd = PwdMkdb!Written(tmp.pwd, q, load(tmp.pwd.has, FALSE))
        /\ tmp'.spwd = PwdMkdb!Written(tmp.spwd, q, load(tmp.spwd.has, TRUE))
    BY <1>3 DEF PwdMkdb!Scan, PwdMkdb!Made
  <2> HIDE DEF load
  <2>4. /\ tmp.pwd \in {PwdMkdb!None, [by |-> q, has |-> Begin(q, files.pwd)]}
        /\ tmp.spwd = [by |-> q, has |-> Begin(q, files.spwd)]
        /\ files.pwd \in Whose(FALSE) /\ files.spwd \in Whose(TRUE) /\ q # 0
    BY <1>1, PwdFacts DEF TmpOK, InPlace
  <2>5. load(Begin(q, files.pwd), FALSE) = NewDb(FALSE) /\ load(Begin(q, files.spwd), TRUE) = NewDb(TRUE)
    BY <2>2, <2>4
  <2>6. tmp'.pwd \in {PwdMkdb!None, [by |-> q, has |-> NewDb(FALSE)]}
    <3>1. tmp'.pwd = PwdMkdb!Written(tmp.pwd, q, load(tmp.pwd.has, FALSE))
      BY <2>a
    <3>2. CASE tmp.pwd = PwdMkdb!None
      BY <2>4, <3>1, <3>2, NotWritten
    <3>3. CASE tmp.pwd = [by |-> q, has |-> Begin(q, files.pwd)]
      <4>1. tmp.pwd.has = Begin(q, files.pwd)
        BY <3>3
      <4>2. load(tmp.pwd.has, FALSE) = NewDb(FALSE)
        BY <2>5, <4>1
      <4>3. tmp'.pwd = PwdMkdb!Written([by |-> q, has |-> Begin(q, files.pwd)], q, NewDb(FALSE))
        BY Zenon, <3>1, <3>3, <4>2
      <4> QED BY Zenon, <4>3, OwnWritten
    <3> QED BY <2>4, <3>2, <3>3
  <2>7. tmp'.spwd = [by |-> q, has |-> NewDb(TRUE)]
    <3>1. tmp'.spwd = PwdMkdb!Written(tmp.spwd, q, load(tmp.spwd.has, TRUE))
      BY <2>a
    <3>2. tmp.spwd.has = Begin(q, files.spwd)
      BY <2>4
    <3>3. load(tmp.spwd.has, TRUE) = NewDb(TRUE)
      BY <2>5, <3>2
    <3>4. tmp'.spwd = PwdMkdb!Written([by |-> q, has |-> Begin(q, files.spwd)], q, NewDb(TRUE))
      BY Zenon, <2>4, <3>1, <3>3
    <3> QED BY Zenon, <3>4, OwnWritten
  <2>8. tmp' = [pwd |-> tmp'.pwd, spwd |-> tmp'.spwd, orig |-> tmp'.orig]
    BY <2>3
  <2> QED BY <1>1, <2>3, <2>6, <2>7, <2>8, HolderKeeps
<1> QED BY <1>2, <1>3

LEMMA AfterIs ==
    ASSUME NEW q
    PROVE  /\ PwdMkdb!After(q, "pwd") = "spwd" /\ PwdMkdb!After(q, "spwd") \in {"passwd", "master"}
           /\ PwdMkdb!After(q, "passwd") = "master"
<1>1. PwdMkdb!After(q, "pwd") = "spwd"
  BY Zenon DEF PwdMkdb!After
<1>2. PwdMkdb!After(q, "passwd") = "master"
  BY Zenon DEF PwdMkdb!After
<1>3. PwdMkdb!After(q, "spwd") \in {"passwd", "master"}
  <2>1. CASE opt[q].makeold
    BY Zenon, <2>1 DEF PwdMkdb!After
  <2>2. CASE ~opt[q].makeold
    BY Zenon, <2>2 DEF PwdMkdb!After
  <2> QED BY <2>1, <2>2
<1> QED BY <1>1, <1>2, <1>3

\* A run with the lock moves on, and where it is the others are not.
LEMMA MovedOn ==
    ASSUME PwdMkdb!CasesLoad, PwdInv, NEW q \in PwdRuns, pc[q] \in {"pwd", "spwd", "passwd"},
           NEW there \in {"spwd", "passwd", "master"}, pc' = [pc EXCEPT ![q] = there],
           UNCHANGED <<case, opt, clean, holder, named, halfway>>
    PROVE  /\ LockOK' /\ pc' \in [PwdRuns -> HasLock \cup {"ready", "lock", "idle"}]
           /\ PwdMkdb!Installing(q)'
           /\ \A r \in PwdRuns : pc'[r] \in HasLock => r = q
<1>1. /\ pc \in [PwdRuns -> HasLock \cup {"ready", "lock", "idle"}] /\ LockOK
      /\ \A r \in PwdRuns : r # q => pc[r] \notin HasLock
  BY PwdFacts DEF PwdInv, PwdTypeOK, HasLock
<1>2. pc' \in [PwdRuns -> HasLock \cup {"ready", "lock", "idle"}] /\ pc'[q] = there
      /\ \A r \in PwdRuns : r # q => pc'[r] = pc[r]
  BY <1>1 DEF HasLock
<1>3. ASSUME NEW r \in PwdRuns
      PROVE  /\ holder' = r <=> pc'[r] \in HasLock
             /\ pc'[r] \in {"ready", "lock", "insecure", "secure"} => clean'[r] = "insecure"
  <2>1. CASE r = q
    BY <1>1, <1>2, <2>1 DEF LockOK, HasLock
  <2>2. CASE r # q
    BY <1>1, <1>2, <2>2 DEF LockOK
  <2> QED BY <2>1, <2>2
<1>4. LockOK'
  BY <1>3 DEF LockOK
<1>5. PwdMkdb!Installing(q)'
  BY <1>2 DEF PwdMkdb!Installing
<1> QED BY <1>1, <1>2, <1>4, <1>5

\* What a run has opened is there.
LEMMA OwnIsThere ==
    ASSUME NEW q, q # 0, NEW has
    PROVE  [by |-> q, has |-> has] # PwdMkdb!None
BY DEF PwdMkdb!None

\* Of the three moves, the first and the second put a database in place.
LEMMA InstallKeeps ==
    ASSUME PwdMkdb!CasesLoad, PwdInv, NEW q \in PwdRuns,
           \/ PwdMkdb!Install(q, "pwd", "pwd") \/ PwdMkdb!Install(q, "spwd", "spwd")
           \/ PwdMkdb!Install(q, "passwd", "orig")
    PROVE  PwdInv'
<1>1. /\ TmpOK /\ InPlace /\ PwdTypeOK /\ clean[q] \in {"insecure", "secure", "orig"}
      /\ tmp = [pwd |-> tmp.pwd, spwd |-> tmp.spwd, orig |-> tmp.orig]
      /\ files = [pwd |-> files.pwd, spwd |-> files.spwd, passwd |-> files.passwd, master |-> files.master]
  BY DEF PwdInv, PwdTypeOK
<1>2. CASE PwdMkdb!Install(q, "pwd", "pwd")
  <2>1. CASE PwdMkdb!Fail(q, clean[q])
    BY <1>1, <1>2, <2>1, FailKeeps DEF PwdMkdb!Install, HasLock
  <2>2. CASE /\ files' = [files EXCEPT !.pwd = tmp.pwd.has] /\ tmp' = [tmp EXCEPT !.pwd = PwdMkdb!None]
             /\ pc' = [pc EXCEPT ![q] = "spwd"] /\ tmp.pwd # PwdMkdb!None
             /\ UNCHANGED <<case, opt, clean, holder, named, halfway>>
    <3>1. /\ pc[q] = "pwd" /\ tmp.pwd.has = NewDb(FALSE) /\ tmp.spwd = [by |-> q, has |-> NewDb(TRUE)]
      <4>1. pc[q] = "pwd"
        BY <1>2 DEF PwdMkdb!Install
      <4>2. /\ tmp.pwd \in {PwdMkdb!None, [by |-> q, has |-> NewDb(FALSE)]}
            /\ tmp.spwd = [by |-> q, has |-> NewDb(TRUE)]
        BY Zenon, <1>1, <4>1 DEF TmpOK
      <4>3. tmp.pwd = [by |-> q, has |-> NewDb(FALSE)]
        BY Zenon, <2>2, <4>2
      <4>4. tmp.pwd.has = NewDb(FALSE)
        BY <4>3
      <4> QED BY <4>1, <4>2, <4>4
    <3>2. /\ LockOK' /\ pc' \in [PwdRuns -> HasLock \cup {"ready", "lock", "idle"}]
          /\ PwdMkdb!Installing(q)'
          /\ \A r \in PwdRuns : pc'[r] \in HasLock => r = q
      BY <2>2, <3>1, MovedOn
    <3>3. /\ tmp'.spwd = tmp.spwd /\ tmp' = [pwd |-> tmp'.pwd, spwd |-> tmp'.spwd, orig |-> tmp'.orig]
      BY <1>1, <2>2
    <3>4. /\ files'.pwd = NewDb(FALSE) /\ files'.spwd = files.spwd /\ files'.master = files.master
          /\ files' = [pwd |-> files'.pwd, spwd |-> files'.spwd, passwd |-> files'.passwd, master |-> files'.master]
      BY <1>1, <2>2, <3>1
    <3>5. pc'[q] = "spwd" /\ \A r \in PwdRuns : r # q => pc'[r] \notin HasLock
      BY <1>1, <2>2, <3>2 DEF PwdTypeOK
    <3>6. PwdTypeOK'
      BY <1>1, <2>2, <3>2, <3>3, <3>4 DEF PwdTypeOK
    <3>7. TmpOK'
      BY <2>2, <3>1, <3>3, <3>5 DEF TmpOK, HasLock, NewDb, Begin
    <3>8. InPlace'
      BY <1>1, <2>2, <3>2, <3>4, <3>5 DEF InPlace, HasLock, Whose, NewDb, PwdMkdb!Agree
    <3> QED BY <3>2, <3>6, <3>7, <3>8 DEF PwdInv
  <2> QED BY <1>2, <2>1, <2>2, AfterIs DEF PwdMkdb!Install, PwdMkdb!Goto
<1>3. CASE PwdMkdb!Install(q, "spwd", "spwd")
  <2>1. pc[q] = "spwd" /\ tmp.spwd = [by |-> q, has |-> NewDb(TRUE)] /\ tmp.spwd # PwdMkdb!None
    <3>1. pc[q] = "spwd"
      BY <1>3 DEF PwdMkdb!Install
    <3>2. tmp.spwd = [by |-> q, has |-> NewDb(TRUE)]
      BY Zenon, <1>1, <3>1 DEF TmpOK
    <3>3. q # 0
      BY PwdFacts
    <3> QED BY Zenon, <3>1, <3>2, <3>3, OwnIsThere
  <2>2. PICK there \in {"passwd", "master"} : there = PwdMkdb!After(q, "spwd")
    BY AfterIs
  <2>3. /\ files' = [files EXCEPT !.spwd = tmp.spwd.has] /\ tmp' = [tmp EXCEPT !.spwd = PwdMkdb!None]
        /\ pc' = [pc EXCEPT ![q] = there]
        /\ UNCHANGED <<case, opt, clean, holder, named, halfway>>
    BY <1>3, <2>1, <2>2 DEF PwdMkdb!Install, PwdMkdb!Goto
  <2>4. /\ LockOK' /\ pc' \in [PwdRuns -> HasLock \cup {"ready", "lock", "idle"}]
        /\ PwdMkdb!Installing(q)'
        /\ \A r \in PwdRuns : pc'[r] \in HasLock => r = q
    BY <2>1, <2>3, MovedOn
  <2>5. tmp' = [pwd |-> tmp'.pwd, spwd |-> tmp'.spwd, orig |-> tmp'.orig]
    BY <1>1, <2>3
  <2>6. /\ files'.spwd = NewDb(TRUE) /\ files'.pwd = files.pwd /\ files'.master = files.master
        /\ files' = [pwd |-> files'.pwd, spwd |-> files'.spwd, passwd |-> files'.passwd, master |-> files'.master]
    <3>1. tmp.spwd.has = NewDb(TRUE)
      BY <2>1
    <3> QED BY <1>1, <2>3, <3>1
  <2>7. pc'[q] = there /\ \A r \in PwdRuns : r # q => pc'[r] \notin HasLock
    BY <1>1, <2>3, <2>4 DEF PwdTypeOK
  <2>8. files.pwd = NewDb(FALSE)
    BY <1>1, <2>1 DEF InPlace
  <2>9. PwdTypeOK'
    BY <1>1, <2>3, <2>4, <2>5, <2>6 DEF PwdTypeOK
  <2>10. TmpOK'
    BY <2>7 DEF TmpOK, HasLock
  <2>11. InPlace'
    BY <1>1, <2>3, <2>4, <2>6, <2>7, <2>8 DEF InPlace, HasLock, Whose, NewDb, PwdMkdb!Agree
  <2> QED BY <2>4, <2>9, <2>10, <2>11 DEF PwdInv
<1>4. CASE PwdMkdb!Install(q, "passwd", "orig")
  <2>1. CASE PwdMkdb!Fail(q, clean[q])
    BY <1>1, <1>4, <2>1, FailKeeps DEF PwdMkdb!Install, HasLock
  <2>2. CASE /\ files' = [files EXCEPT !.passwd = tmp.orig.has] /\ tmp' = [tmp EXCEPT !.orig = PwdMkdb!None]
             /\ pc' = [pc EXCEPT ![q] = "master"]
             /\ UNCHANGED <<case, opt, clean, holder, named, halfway>>
    <3>1. pc[q] = "passwd" /\ files.pwd = NewDb(FALSE) /\ files.spwd = NewDb(TRUE)
      BY <1>1, <1>4 DEF PwdMkdb!Install, InPlace
    <3>2. /\ LockOK' /\ pc' \in [PwdRuns -> HasLock \cup {"ready", "lock", "idle"}]
          /\ PwdMkdb!Installing(q)'
          /\ \A r \in PwdRuns : pc'[r] \in HasLock => r = q
      BY <2>2, <3>1, MovedOn
    <3>3. tmp' = [pwd |-> tmp'.pwd, spwd |-> tmp'.spwd, orig |-> tmp'.orig]
      BY <1>1, <2>2
    <3>4. /\ files'.pwd = files.pwd /\ files'.spwd = files.spwd /\ files'.master = files.master
          /\ files' = [pwd |-> files'.pwd, spwd |-> files'.spwd, passwd |-> files'.passwd, master |-> files'.master]
      BY <1>1, <2>2
    <3>5. pc'[q] = "master" /\ \A r \in PwdRuns : r # q => pc'[r] \notin HasLock
      BY <1>1, <2>2, <3>2 DEF PwdTypeOK
    <3>6. PwdTypeOK'
      BY <1>1, <2>2, <3>2, <3>3, <3>4 DEF PwdTypeOK
    <3>7. TmpOK'
      BY <3>5 DEF TmpOK, HasLock
    <3>8. InPlace'
      BY <1>1, <2>2, <3>1, <3>2, <3>4, <3>5 DEF InPlace, HasLock, Whose, NewDb, PwdMkdb!Agree
    <3> QED BY <3>2, <3>6, <3>7, <3>8 DEF PwdInv
  <2> QED BY <1>4, <2>1, <2>2, AfterIs DEF PwdMkdb!Install, PwdMkdb!Goto
<1> QED BY <1>2, <1>3, <1>4

\* The password file itself comes last, when both databases are in place.
LEMMA MasterKeeps ==
    ASSUME PwdMkdb!CasesLoad, PwdInv, NEW q \in PwdRuns, PwdMkdb!InstallMaster(q)
    PROVE  PwdInv'
<1>1. /\ LockOK /\ InPlace /\ PwdTypeOK /\ clean[q] \in {"insecure", "secure", "orig"} /\ pc[q] = "master"
      /\ files = [pwd |-> files.pwd, spwd |-> files.spwd, passwd |-> files.passwd, master |-> files.master]
  BY DEF PwdInv, PwdTypeOK, PwdMkdb!InstallMaster
<1>2. CASE PwdMkdb!Fail(q, clean[q])
  BY <1>1, <1>2, FailKeeps DEF HasLock
<1>3. CASE /\ named' = FALSE /\ files' = [files EXCEPT !.master = case.new]
           /\ pc' = [pc EXCEPT ![q] = "idle"] /\ holder' = 0
           /\ UNCHANGED <<case, opt, clean, tmp, halfway>>
  <2>1. \A r \in PwdRuns : r # 0 /\ (r # q => pc[r] \notin HasLock)
    BY <1>1, PwdFacts DEF HasLock
  <2>2. \A r \in PwdRuns : pc'[r] \notin HasLock /\ (pc'[r] = "idle" \/ pc'[r] = pc[r])
    BY <1>1, <1>3, <2>1 DEF PwdTypeOK, HasLock
  <2>3. files.pwd = NewDb(FALSE) /\ files.spwd = NewDb(TRUE)
    BY <1>1 DEF InPlace
  <2>4. /\ files'.pwd = files.pwd /\ files'.spwd = files.spwd
        /\ files' = [pwd |-> files'.pwd, spwd |-> files'.spwd, passwd |-> files'.passwd, master |-> files'.master]
    BY <1>1, <1>3
  <2>5. PwdTypeOK'
    BY <1>1, <1>3, <2>4 DEF PwdTypeOK
  <2>6. LockOK'
    BY <1>1, <1>3, <2>1, <2>2 DEF LockOK, HasLock
  <2>7. TmpOK'
    BY <2>2 DEF TmpOK, HasLock
  <2>8. InPlace'
    <3>1. PwdMkdb!Agree(case.new)'
      BY <1>3, <2>3, <2>4 DEF PwdMkdb!Agree, NewDb
    <3> QED BY <1>3, <2>2, <2>3, <2>4, <3>1 DEF InPlace, HasLock, Whose, NewDb
  <2> QED BY <2>5, <2>6, <2>7, <2>8 DEF PwdInv
<1> QED BY <1>2, <1>3 DEF PwdMkdb!InstallMaster, PwdMkdb!Goto

\* A run that is killed leaves everything as it is, and the lock to the next one.
LEMMA KilledKeeps ==
    ASSUME PwdMkdb!CasesLoad, PwdInv, NEW q \in PwdRuns, PwdMkdb!Killed(q)
    PROVE  PwdInv'
<1>1. /\ LockOK /\ InPlace /\ PwdTypeOK /\ TmpOK
      /\ pc' = [pc EXCEPT ![q] = "idle"] /\ holder' = (IF holder = q THEN 0 ELSE holder)
      /\ halfway' = (halfway \/ PwdMkdb!Installing(q))
      /\ UNCHANGED <<case, opt, clean, tmp, files, named>>
  BY DEF PwdInv, PwdMkdb!Killed, PwdMkdb!Goto, PwdMkdb!Release
<1>2. /\ \A r \in PwdRuns : r # 0 /\ (r # q => pc'[r] = pc[r])
      /\ pc'[q] = "idle" /\ pc' \in [PwdRuns -> HasLock \cup {"ready", "lock", "idle"}]
  BY <1>1, PwdFacts DEF PwdTypeOK, HasLock
<1>3. PwdTypeOK'
  BY <1>1, <1>2 DEF PwdTypeOK
<1>4. LockOK'
  <2>1. ASSUME NEW r \in PwdRuns
        PROVE  /\ holder' = r <=> pc'[r] \in HasLock
               /\ pc'[r] \in {"ready", "lock", "insecure", "secure"} => clean'[r] = "insecure"
    <3>1. CASE r = q
      BY <1>1, <1>2, <3>1 DEF HasLock
    <3>2. CASE r # q
      BY <1>1, <1>2, <3>2 DEF LockOK
    <3> QED BY <3>1, <3>2
  <2> QED BY <2>1 DEF LockOK
<1>5. TmpOK'
  <2>1. SUFFICES ASSUME NEW r \in PwdRuns, pc'[r] \in {"secure", "orig", "scan", "pwd", "spwd"}
                 PROVE  pc'[r] = pc[r]
    BY <1>1 DEF TmpOK, Begin, NewDb
  <2> QED BY <1>2, <2>1
<1>6. InPlace'
  <2>1. \A r \in PwdRuns : pc'[r] \in {"spwd", "passwd", "master"} => pc'[r] = pc[r]
    BY <1>2
  <2>2. halfway' \/ \A r \in PwdRuns : PwdMkdb!Installing(r) => PwdMkdb!Installing(r)'
    BY <1>1, <1>2 DEF PwdMkdb!Installing
  <2> QED BY <1>1, <2>1, <2>2 DEF InPlace, Whose, NewDb, PwdMkdb!Agree
<1> QED BY <1>3, <1>4, <1>5, <1>6 DEF PwdInv

LEMMA PwdStep ==
    ASSUME PwdMkdb!CasesLoad, PwdInv, [PwdMkdb!PwdNext]_PwdMkdb!vars
    PROVE  PwdInv'
<1>1. CASE UNCHANGED PwdMkdb!vars
  BY <1>1 DEF PwdMkdb!vars, PwdInv, PwdTypeOK, LockOK, TmpOK, Begin, NewDb, InPlace, Whose,
     PwdMkdb!Agree, PwdMkdb!Installing
<1>2. ASSUME NEW q \in PwdRuns, PwdMkdb!Open(q) \/ PwdMkdb!Lock(q)
      PROVE  PwdInv'
  BY <1>2, OpenKeeps
<1>3. ASSUME NEW q \in PwdRuns, PwdMkdb!OpenInsecure(q) \/ PwdMkdb!OpenSecure(q) \/ PwdMkdb!OpenOrig(q)
      PROVE  PwdInv'
  BY <1>3, OpenDbKeeps
<1>4. ASSUME NEW q \in PwdRuns, PwdMkdb!Scan(q) \/ PwdMkdb!BadLine(q)
      PROVE  PwdInv'
  BY <1>4, ScanKeeps
<1>5. ASSUME NEW q \in PwdRuns, \/ PwdMkdb!Install(q, "pwd", "pwd") \/ PwdMkdb!Install(q, "spwd", "spwd")
                             \/ PwdMkdb!Install(q, "passwd", "orig")
      PROVE  PwdInv'
  BY <1>5, InstallKeeps
<1>6. ASSUME NEW q \in PwdRuns, PwdMkdb!InstallMaster(q) \/ PwdMkdb!Killed(q)
      PROVE  PwdInv'
  BY <1>6, MasterKeeps, KilledKeeps
<1> QED BY <1>1, <1>2, <1>3, <1>4, <1>5, <1>6 DEF PwdMkdb!PwdNext

LEMMA PwdStart ==
    ASSUME PwdMkdb!CasesLoad, PwdMkdb!PwdInit
    PROVE  PwdInv
<1>1. PwdTypeOK
  BY DEF PwdMkdb!PwdInit, PwdTypeOK
<1>2. LockOK
  BY DEF PwdMkdb!PwdInit, PwdMkdb!CasesLoad, LockOK, HasLock
<1>3. TmpOK
  BY DEF PwdMkdb!PwdInit, TmpOK
<1>4. InPlace
  BY DEF PwdMkdb!PwdInit, InPlace, Whose, PwdMkdb!Agree
<1> QED BY <1>1, <1>2, <1>3, <1>4 DEF PwdInv

-----------------------------------------------------------------------------
(* ipfwconfig: its screens are those of the console *)

\* The two programs' copies of a screen are one screen.
LEMMA SameItems ==
    /\ RuleEditor!ActionItem = ActionItem /\ RuleEditor!ProtocolItem = ProtocolItem
    /\ RuleEditor!IfaceItem = IfaceItem /\ RuleEditor!TcpItem = TcpItem
    /\ RuleEditor!IpItem = IpItem /\ RuleEditor!IcmpItem = IcmpItem
    /\ RuleEditor!ForwardItem = ForwardItem /\ RuleEditor!EmptyText = <<>>
BY DEF RuleEditor!ActionItem, ActionItem, RuleEditor!ProtocolItem, ProtocolItem, RuleEditor!IfaceItem, IfaceItem,
   RuleEditor!TcpItem, TcpItem, RuleEditor!IpItem, IpItem, RuleEditor!IcmpItem, IcmpItem,
   RuleEditor!ForwardItem, ForwardItem, RuleEditor!EmptyText

LEMMA SameMarks ==
    \A b, r : RuleEditor!FilterScreen!Mark(b, r) = FilterScreen!Mark(b, r)
<1>1. \A items, v : RuleEditor!FilterScreen!At(items, v) = FilterScreen!At(items, v)
  BY DEF RuleEditor!FilterScreen!At, FilterScreen!At
<1>2. \A proto : RuleEditor!FilterScreen!OptionItem(proto) = FilterScreen!OptionItem(proto)
  BY SameItems DEF RuleEditor!FilterScreen!OptionItem, FilterScreen!OptionItem, RuleEditor!FilterScreen!UdpItem, FilterScreen!UdpItem
<1> QED BY <1>1, <1>2, SameItems DEF RuleEditor!FilterScreen!Mark, FilterScreen!Mark

LEMMA SameDrawing ==
    /\ \A bs, b, line, r : RuleEditor!FilterScreen!Draw(bs, b, line, r) = FilterScreen!Draw(bs, b, line, r)
    /\ \A q : RuleEditor!FilterScreen!Box(q) = FilterScreen!Box(q) /\ RuleEditor!FilterScreen!Line(q) = FilterScreen!Line(q)
    /\ RuleEditor!FilterScreen!Initial = FilterScreen!Initial
    /\ RuleEditor!FilterScreen!Opened = FilterScreen!Opened
    /\ RuleEditor!FilterScreen!Blanks = FilterScreen!Blanks
BY SameMarks, SameItems DEF RuleEditor!FilterScreen!Draw, FilterScreen!Draw, RuleEditor!FilterScreen!Box, FilterScreen!Box,
   RuleEditor!FilterScreen!Line, FilterScreen!Line, RuleEditor!FilterScreen!Initial, FilterScreen!Initial,
   RuleEditor!FilterScreen!Opened, FilterScreen!Opened, RuleEditor!FilterScreen!Blanks, FilterScreen!Blanks

LEMMA SameMoves ==
    /\ RuleEditor!FilterScreen!Down => FilterScreen!Down
    /\ RuleEditor!FilterScreen!Left => FilterScreen!Left
    /\ RuleEditor!FilterScreen!Right => FilterScreen!Right
    /\ RuleEditor!FilterScreen!Up => FilterScreen!Up
    /\ RuleEditor!FilterScreen!Tab => FilterScreen!Tab
    /\ RuleEditor!FilterScreen!Open => FilterScreen!Open
    /\ RuleEditor!FilterScreen!FormInit => FilterScreen!FormInit
<1>1. \A off, q : /\ RuleEditor!FilterScreen!Leave(off, q) <=> FilterScreen!Leave(off, q)
                  /\ RuleEditor!FilterScreen!EditFrom(off, q) <=> FilterScreen!EditFrom(off, q)
  BY SameDrawing DEF RuleEditor!FilterScreen!Leave, FilterScreen!Leave, RuleEditor!FilterScreen!EditFrom, FilterScreen!EditFrom
<1>2. \A q : RuleEditor!FilterScreen!Step(q) <=> FilterScreen!Step(q)
  BY SameDrawing DEF RuleEditor!FilterScreen!Step, FilterScreen!Step
<1>3. RuleEditor!FilterScreen!Down => FilterScreen!Down
  BY <1>1, <1>2, SameDrawing DEF RuleEditor!FilterScreen!Down, FilterScreen!Down
<1>4. /\ RuleEditor!FilterScreen!Left => FilterScreen!Left
      /\ RuleEditor!FilterScreen!Right => FilterScreen!Right
      /\ RuleEditor!FilterScreen!Up => FilterScreen!Up
  BY <1>1, <1>2 DEF RuleEditor!FilterScreen!Left, FilterScreen!Left, RuleEditor!FilterScreen!Right, FilterScreen!Right,
     RuleEditor!FilterScreen!Up, FilterScreen!Up
<1>5. RuleEditor!FilterScreen!Tab => FilterScreen!Tab
  BY <1>1, SameDrawing DEF RuleEditor!FilterScreen!Tab, FilterScreen!Tab
<1>6. /\ RuleEditor!FilterScreen!Open => FilterScreen!Open
      /\ RuleEditor!FilterScreen!FormInit => FilterScreen!FormInit
  BY SameDrawing DEF RuleEditor!FilterScreen!Open, FilterScreen!Open, RuleEditor!FilterScreen!FormInit, FilterScreen!FormInit
<1> QED BY <1>3, <1>4, <1>5, <1>6

LEMMA SameSpaceAndEdit ==
    /\ RuleEditor!FilterScreen!Space => FilterScreen!Space
    /\ \A field, t, up : RuleEditor!FilterScreen!Edit(field, t, up) => FilterScreen!Edit(field, t, up)
<1>1. RuleEditor!FilterScreen!Chosen = FilterScreen!Chosen
  <2>1. \A proto : RuleEditor!FilterScreen!OptionItem(proto) = FilterScreen!OptionItem(proto)
    BY SameItems DEF RuleEditor!FilterScreen!OptionItem, FilterScreen!OptionItem, RuleEditor!FilterScreen!UdpItem, FilterScreen!UdpItem
  <2> QED BY <2>1, SameDrawing, SameItems DEF RuleEditor!FilterScreen!Chosen, FilterScreen!Chosen
<1>2. RuleEditor!FilterScreen!Space => FilterScreen!Space
  BY <1>1, SameDrawing DEF RuleEditor!FilterScreen!Space, FilterScreen!Space
<1>3. \A field, t, up : RuleEditor!FilterScreen!Edit(field, t, up) => FilterScreen!Edit(field, t, up)
  <2>1. \A off, q : RuleEditor!FilterScreen!EditFrom(off, q) <=> FilterScreen!EditFrom(off, q)
    BY SameDrawing DEF RuleEditor!FilterScreen!EditFrom, FilterScreen!EditFrom
  <2>2. \A q : RuleEditor!FilterScreen!Step(q) <=> FilterScreen!Step(q)
    BY SameDrawing DEF RuleEditor!FilterScreen!Step, FilterScreen!Step
  <2> QED BY <2>1, <2>2 DEF RuleEditor!FilterScreen!Edit, FilterScreen!Edit
<1> QED BY <1>2, <1>3

LEMMA SameForward ==
    /\ RuleEditor!ForwardScreen!ForwardDown => ForwardScreen!ForwardDown
    /\ RuleEditor!ForwardScreen!ForwardRight => ForwardScreen!ForwardRight
    /\ RuleEditor!ForwardScreen!ForwardLeft => ForwardScreen!ForwardLeft
    /\ RuleEditor!ForwardScreen!ForwardUp => ForwardScreen!ForwardUp
    /\ RuleEditor!ForwardScreen!ForwardSpace => ForwardScreen!ForwardSpace
    /\ \A field, t, up : RuleEditor!ForwardScreen!ForwardEdit(field, t, up) => ForwardScreen!ForwardEdit(field, t, up)
    /\ RuleEditor!ForwardScreen!ForwardOpen => ForwardScreen!ForwardOpen
<1>1. /\ \A bs, line, r : RuleEditor!ForwardScreen!DrawForward(bs, line, r) = ForwardScreen!DrawForward(bs, line, r)
      /\ \A bs, line : RuleEditor!ForwardScreen!Buttons(bs, line) = ForwardScreen!Buttons(bs, line)
  BY SameItems DEF RuleEditor!ForwardScreen!DrawForward, ForwardScreen!DrawForward, RuleEditor!ForwardScreen!Buttons, ForwardScreen!Buttons
<1>2. \A q : RuleEditor!ForwardScreen!Item(q) = ForwardScreen!Item(q)
  BY <1>1 DEF RuleEditor!ForwardScreen!Item, ForwardScreen!Item
<1>3. /\ RuleEditor!ForwardScreen!ForwardDown => ForwardScreen!ForwardDown
      /\ RuleEditor!ForwardScreen!ForwardRight => ForwardScreen!ForwardRight
      /\ RuleEditor!ForwardScreen!ForwardLeft => ForwardScreen!ForwardLeft
      /\ RuleEditor!ForwardScreen!ForwardUp => ForwardScreen!ForwardUp
  BY <1>1, <1>2 DEF RuleEditor!ForwardScreen!ForwardDown, ForwardScreen!ForwardDown,
     RuleEditor!ForwardScreen!ForwardRight, ForwardScreen!ForwardRight,
     RuleEditor!ForwardScreen!ForwardLeft, ForwardScreen!ForwardLeft,
     RuleEditor!ForwardScreen!ForwardUp, ForwardScreen!ForwardUp
<1>4. RuleEditor!ForwardScreen!ForwardSpace => ForwardScreen!ForwardSpace
  BY <1>1, SameItems DEF RuleEditor!ForwardScreen!ForwardSpace, ForwardScreen!ForwardSpace
<1>5. RuleEditor!ForwardScreen!Field = ForwardScreen!Field
  BY DEF RuleEditor!ForwardScreen!Field, ForwardScreen!Field
<1>6. \A field, t, up : RuleEditor!ForwardScreen!ForwardEdit(field, t, up) => ForwardScreen!ForwardEdit(field, t, up)
  BY <1>1, <1>2, <1>5 DEF RuleEditor!ForwardScreen!ForwardEdit, ForwardScreen!ForwardEdit
<1>7. RuleEditor!ForwardScreen!ForwardOpen => ForwardScreen!ForwardOpen
  BY <1>1, <1>5, SameItems DEF RuleEditor!ForwardScreen!ForwardOpen, ForwardScreen!ForwardOpen,
     RuleEditor!ForwardScreen!InitialForward, ForwardScreen!InitialForward,
     RuleEditor!ForwardScreen!OpenedForward, ForwardScreen!OpenedForward,
     RuleEditor!ForwardScreen!BlankFields, ForwardScreen!BlankFields
<1> QED BY <1>3, <1>4, <1>6, <1>7

LEMMA SameMeaning ==
    /\ FilterScreen!FocusIsHighlighted => RuleEditor!FilterScreen!FocusIsHighlighted
    /\ FilterScreen!MarksShowRule => RuleEditor!FilterScreen!MarksShowRule
    /\ ForwardScreen!ForwardShowsFocus => RuleEditor!ForwardScreen!ForwardShowsFocus
<1>1. RuleEditor!FilterScreen!BoxName = FilterScreen!BoxName
  BY DEF RuleEditor!FilterScreen!BoxName, FilterScreen!BoxName
<1>2. FilterScreen!FocusIsHighlighted => RuleEditor!FilterScreen!FocusIsHighlighted
  BY <1>1, SameDrawing DEF RuleEditor!FilterScreen!FocusIsHighlighted, FilterScreen!FocusIsHighlighted
<1>3. FilterScreen!MarksShowRule => RuleEditor!FilterScreen!MarksShowRule
  BY <1>1, SameMarks DEF RuleEditor!FilterScreen!MarksShowRule, FilterScreen!MarksShowRule
<1>4. ForwardScreen!ForwardShowsFocus => RuleEditor!ForwardScreen!ForwardShowsFocus
  BY SameItems DEF RuleEditor!ForwardScreen!ForwardShowsFocus, ForwardScreen!ForwardShowsFocus
<1> QED BY <1>2, <1>3, <1>4


-----------------------------------------------------------------------------
(* ipfwconfig: what the lines of a script make *)

\* g gives the rules in force after each of the lines of s.
AfterLines(s, g) == g = [n \in 0..Len(s) |-> IF n = 0 THEN <<>> ELSE RuleEditor!Ipfw(g[n - 1], s[n])]

\* What is known of the lines of one script is known of those of another that begins with
\* them.
LEMMA LinesExtend ==
    ASSUME NEW S, NEW s \in Seq(S), NEW b \in S, NEW g, AfterLines(s, g)
    PROVE  LET n == Len(s)
               h == [i \in 0..(n + 1) |-> IF i = n + 1 THEN RuleEditor!Ipfw(g[n], b) ELSE g[i]]
           IN  AfterLines(Append(s, b), h)
<1> DEFINE n == Len(s)
           t == Append(s, b)
           h == [i \in 0..(n + 1) |-> IF i = n + 1 THEN RuleEditor!Ipfw(g[n], b) ELSE g[i]]
<1>1. /\ n \in Nat /\ Len(t) = n + 1 /\ t[n + 1] = b
      /\ \A i \in 1..n : t[i] = s[i]
  BY AppendProperties
<1>2. \A i \in 0..n : g[i] = IF i = 0 THEN <<>> ELSE RuleEditor!Ipfw(g[i - 1], s[i])
  BY DEF AfterLines
<1>3. ASSUME NEW i \in 0..(n + 1)
      PROVE  h[i] = IF i = 0 THEN <<>> ELSE RuleEditor!Ipfw(h[i - 1], t[i])
  <2>1. CASE i = n + 1
    BY <1>1, <2>1
  <2>2. CASE i # n + 1
    BY <1>1, <1>2, <2>2
  <2> QED BY <2>1, <2>2
<1>4. h = [i \in 0..Len(t) |-> IF i = 0 THEN <<>> ELSE RuleEditor!Ipfw(h[i - 1], t[i])]
  <2> DEFINE u == [i \in 0..Len(t) |-> IF i = 0 THEN <<>> ELSE RuleEditor!Ipfw(h[i - 1], t[i])]
  <2>1. DOMAIN h = DOMAIN u /\ \A i \in DOMAIN h : h[i] = u[i]
    BY <1>1, <1>3
  <2> QED BY <2>1
<1> QED BY <1>4 DEF AfterLines

LEMMA LinesExist == ASSUME NEW S PROVE \A s \in Seq(S) : \E g : AfterLines(s, g)
<1> DEFINE G == {n \in Nat : \A s \in Seq(S) : Len(s) = n => \E g : AfterLines(s, g)}
<1>1. 0 \in G
  <2> SUFFICES ASSUME NEW s \in Seq(S), Len(s) = 0
               PROVE  \E g : AfterLines(s, g)
    OBVIOUS
  <2> DEFINE g == [i \in 0..0 |-> <<>>]
  <2>1. g = [i \in 0..Len(s) |-> IF i = 0 THEN <<>> ELSE RuleEditor!Ipfw(g[i - 1], s[i])]
    OBVIOUS
  <2> QED BY <2>1 DEF AfterLines
<1>2. ASSUME NEW n \in Nat \ {0}, n - 1 \in G
      PROVE  n \in G
  <2> SUFFICES ASSUME NEW s \in Seq(S), Len(s) = n
               PROVE  \E g : AfterLines(s, g)
    OBVIOUS
  <2>1. PICK t \in Seq(S), b \in S : s = Append(t, b)
    BY SequenceEmptyOrAppend
  <2>2. Len(t) = n - 1
    BY <2>1, AppendProperties
  <2>3. PICK g : AfterLines(t, g)
    BY <1>2, <2>2
  <2> QED BY <2>1, <2>3, LinesExtend
<1>3. \A n \in Nat : n \in G
  <2> SUFFICES ASSUME NEW n \in Nat PROVE n \in G
    OBVIOUS
  <2>1. \A i \in 1..n : i - 1 \in G => i \in G
    BY <1>2
  <2> HIDE DEF G
  <2>2. \A i \in 0..n : i \in G
    BY <1>1, <2>1, InductionUpTo
  <2> QED BY <2>2
<1> QED BY <1>3

LEMMA LinesUnique ==
    ASSUME NEW S, NEW s \in Seq(S), NEW g, NEW h, AfterLines(s, g), AfterLines(s, h)
    PROVE  g = h
<1> DEFINE n == Len(s)
           G == {i \in 0..n : g[i] = h[i]}
<1>1. n \in Nat
  OBVIOUS
<1>2. /\ DOMAIN g = 0..n /\ DOMAIN h = 0..n
      /\ g = [i \in 0..n |-> g[i]] /\ h = [i \in 0..n |-> h[i]]
      /\ \A i \in 0..n : g[i] = IF i = 0 THEN <<>> ELSE RuleEditor!Ipfw(g[i - 1], s[i])
      /\ \A i \in 0..n : h[i] = IF i = 0 THEN <<>> ELSE RuleEditor!Ipfw(h[i - 1], s[i])
  BY DEF AfterLines
<1>3. 0 \in G
  BY <1>1, <1>2
<1>4. ASSUME NEW i \in 1..n, i - 1 \in G PROVE i \in G
  <2>1. i \in 0..n /\ i # 0 /\ g[i - 1] = h[i - 1]
    BY <1>1, <1>4
  <2>2. g[i] = RuleEditor!Ipfw(g[i - 1], s[i]) /\ h[i] = RuleEditor!Ipfw(h[i - 1], s[i])
    BY <1>2, <2>1
  <2> QED BY <2>1, <2>2
<1>5. \A i \in 0..n : i \in G
  <2> HIDE DEF G
  <2> QED BY <1>1, <1>3, <1>4, InductionUpTo
<1> QED BY <1>2, <1>5

LEMMA LinesReplayed ==
    ASSUME NEW S, NEW s \in Seq(S), NEW g, AfterLines(s, g)
    PROVE  RuleEditor!Replay(s) = g[Len(s)]
<1> DEFINE c == CHOOSE f : AfterLines(s, f)
<1>1. AfterLines(s, c)
  OBVIOUS
<1>2. c = g
  BY <1>1, LinesUnique
<1>3. RuleEditor!Replay(s) = c[Len(s)]
  BY DEF RuleEditor!Replay, AfterLines
<1> QED BY <1>2, <1>3

LEMMA NothingReplayed == RuleEditor!Replay(<<>>) = <<>>
<1> DEFINE g == [i \in 0..0 |-> <<>>]
<1>1. g = [i \in 0..Len(<<>>) |-> IF i = 0 THEN <<>> ELSE RuleEditor!Ipfw(g[i - 1], <<>>[i])]
  OBVIOUS
<1>2. AfterLines(<<>>, g)
  BY <1>1 DEF AfterLines
<1>3. <<>> \in Seq({})
  OBVIOUS
<1> QED BY <1>2, <1>3, LinesReplayed

\* One more line in the script is one more command.
LEMMA OneMoreReplayed ==
    ASSUME NEW S, NEW s \in Seq(S), NEW b \in S
    PROVE  RuleEditor!Replay(Append(s, b)) = RuleEditor!Ipfw(RuleEditor!Replay(s), b)
<1>1. PICK g : AfterLines(s, g)
  BY LinesExist
<1> DEFINE n == Len(s)
           h == [i \in 0..(n + 1) |-> IF i = n + 1 THEN RuleEditor!Ipfw(g[n], b) ELSE g[i]]
<1>2. AfterLines(Append(s, b), h)
  BY <1>1, LinesExtend
<1>3. Append(s, b) \in Seq(S) /\ Len(Append(s, b)) = n + 1 /\ n \in Nat
  BY AppendProperties
<1>4. RuleEditor!Replay(Append(s, b)) = h[n + 1]
  <2> HIDE DEF h
  <2> QED BY <1>2, <1>3, LinesReplayed
<1>5. RuleEditor!Replay(s) = g[n]
  BY <1>1, LinesReplayed
<1> QED BY <1>3, <1>4, <1>5

-----------------------------------------------------------------------------
(* ipfwconfig: lists *)

LEMMA TupleIsSeq ==
    ASSUME NEW s
    PROVE  /\ IsTuple(s) => s \in Seq({s[i] : i \in DOMAIN s})
           /\ \A S : s \in Seq(S) => IsTuple(s)
<1>1. ASSUME IsTuple(s) PROVE s \in Seq({s[i] : i \in DOMAIN s})
  <2> DEFINE S == {s[i] : i \in DOMAIN s}
  <2>1. PICK n \in Nat : DOMAIN s = 1..n /\ s = [i \in 1..n |-> s[i]]
    BY <1>1 DEF IsTuple
  <2>2. s \in [1..n -> S]
    BY <2>1
  <2> QED BY <2>2
<1>2. ASSUME NEW S, s \in Seq(S) PROVE IsTuple(s)
  <2>1. Len(s) \in Nat /\ s \in [1..Len(s) -> S]
    BY <1>2
  <2>2. DOMAIN s = 1..Len(s) /\ s = [i \in 1..Len(s) |-> s[i]]
    BY <2>1
  <2> QED BY <2>1, <2>2 DEF IsTuple
<1> QED BY <1>1, <1>2

\* A line is taken out; what it holds makes no difference.
LEMMA Removed ==
    ASSUME NEW s, IsTuple(s), NEW d \in DOMAIN s
    PROVE  /\ IsTuple(RuleEditor!RemoveAt(s, d))
           /\ DOMAIN RuleEditor!RemoveAt(s, d) = 1..(Len(s) - 1)
           /\ \A i \in 1..(Len(s) - 1) : RuleEditor!RemoveAt(s, d)[i] = IF i < d THEN s[i] ELSE s[i + 1]
<1> DEFINE S == {s[i] : i \in DOMAIN s}
           a == SubSeq(s, 1, d - 1)
           b == SubSeq(s, d + 1, Len(s))
<1>1. s \in Seq(S)
  BY TupleIsSeq
<1>2. d \in 1..Len(s) /\ Len(s) \in Nat
  BY <1>1
<1> HIDE DEF S
<1>3. /\ a \in Seq(S) /\ Len(a) = d - 1
      /\ \A i \in 1..(d - 1) : a[i] = s[i]
  BY <1>1, <1>2, SubSeqProperties
<1>4. /\ b \in Seq(S) /\ Len(b) = Len(s) - d
      /\ \A i \in 1..(Len(s) - d) : b[i] = s[d + i]
  BY <1>1, <1>2, SubSeqProperties
<1> HIDE DEF a, b
<1>5. /\ a \o b \in Seq(S) /\ Len(a \o b) = Len(s) - 1
      /\ \A i \in 1..(Len(s) - 1) : (a \o b)[i] = IF i <= d - 1 THEN a[i] ELSE b[i - (d - 1)]
  <2>1. /\ a \o b \in Seq(S) /\ Len(a \o b) = Len(a) + Len(b)
        /\ \A i \in 1..(Len(a) + Len(b)) : (a \o b)[i] = IF i <= Len(a) THEN a[i] ELSE b[i - Len(a)]
    BY <1>3, <1>4, ConcatProperties
  <2>2. Len(a) + Len(b) = Len(s) - 1
    BY <1>2, <1>3, <1>4
  <2> QED BY <1>3, <2>1, <2>2
<1>6. \A i \in 1..(Len(s) - 1) : (a \o b)[i] = IF i < d THEN s[i] ELSE s[i + 1]
  <2> TAKE i \in 1..(Len(s) - 1)
  <2>1. CASE i < d
    BY <1>2, <1>3, <1>5, <2>1
  <2>2. CASE ~(i < d)
    <3>1. i - (d - 1) \in 1..(Len(s) - d) /\ d + (i - (d - 1)) = i + 1
      BY <1>2, <2>2
    <3> DEFINE k == i - (d - 1)
    <3>2. b[k] = s[d + k]
      BY <1>4, <3>1
    <3>3. (a \o b)[i] = b[k]
      BY <1>2, <1>5, <2>2
    <3> QED BY <2>2, <3>1, <3>2, <3>3
  <2> QED BY <2>1, <2>2
<1>7. RuleEditor!RemoveAt(s, d) = a \o b
  BY DEF RuleEditor!RemoveAt, a, b
<1>8. DOMAIN (a \o b) = 1..(Len(s) - 1)
  BY <1>5
<1> QED BY <1>5, <1>6, <1>7, <1>8, TupleIsSeq

LEMMA RemovedSame ==
    ASSUME NEW s, IsTuple(s), NEW t, IsTuple(t), DOMAIN t = DOMAIN s, NEW d \in DOMAIN s,
           \A i \in DOMAIN s \ {d} : t[i] = s[i]
    PROVE  RuleEditor!RemoveAt(t, d) = RuleEditor!RemoveAt(s, d)
<1>1. Len(s) \in Nat /\ Len(t) \in Nat /\ DOMAIN s = 1..Len(s) /\ DOMAIN t = 1..Len(t)
  BY Appended
<1>2. Len(t) = Len(s)
  BY <1>1, SameLength
<1>3. ASSUME NEW i \in 1..(Len(s) - 1)
      PROVE  RuleEditor!RemoveAt(t, d)[i] = RuleEditor!RemoveAt(s, d)[i]
  <2>1. i \in DOMAIN s /\ i + 1 \in DOMAIN s /\ d \in Int
    BY <1>1
  <2>2. CASE i < d
    BY <1>2, <2>1, <2>2, Removed
  <2>3. CASE ~(i < d)
    BY <1>2, <2>1, <2>3, Removed
  <2> QED BY <2>2, <2>3
<1>4. /\ IsTuple(RuleEditor!RemoveAt(t, d)) /\ DOMAIN RuleEditor!RemoveAt(t, d) = 1..(Len(s) - 1)
      /\ IsTuple(RuleEditor!RemoveAt(s, d)) /\ DOMAIN RuleEditor!RemoveAt(s, d) = 1..(Len(s) - 1)
  BY <1>2, Removed
<1> QED BY <1>3, <1>4, SameTuple


-----------------------------------------------------------------------------
(* ipfwconfig: the invariant *)

\* What a list holds that knows the script
Titles(lines) == [i \in DOMAIN lines |-> RuleEditor!Title(lines[i])]

\* A list is behind or it shows the script, but for the words that are cut.
ListsTell ==
    /\ DOMAIN listed = Sessions /\ DOMAIN behind = Sessions
    /\ \A s \in Sessions : IsTuple(listed[s]) /\ (shown[s] = "delete" => behind[s] \/ listed[s] = Titles(script))

ScreenTells ==
    /\ shown[Editor] # "forward" => FilterInv
    /\ shown[Editor] = "forward" => ForwardInv

EditorInv ==
    /\ DOMAIN shown = Sessions
    /\ IsTuple(script) /\ inForce = RuleEditor!Replay(script) /\ intended = script
    /\ ListsTell
    /\ ScreenTells

LEMMA TitlesAreLines ==
    ASSUME NEW lines, IsTuple(lines)
    PROVE  IsTuple(Titles(lines)) /\ DOMAIN Titles(lines) = DOMAIN lines
BY DEF IsTuple, Titles

\* The screen stays as it is, or is opened or gone, when the rules are changed.
LEMMA ScreenStays ==
    ASSUME ScreenTells, UNCHANGED <<p, rule, boxes, text>>, shown'[Editor] = "forward" <=> shown[Editor] = "forward"
    PROVE  ScreenTells'
BY DEF ScreenTells, FilterInv, ForwardInv, FilterScreen!FocusIsHighlighted, FilterScreen!MarksShowRule,
       ForwardScreen!ForwardShowsFocus

\* After a change to the script by the session s, which has no list then.
LEMMA ListsStay ==
    ASSUME ListsTell, NEW s \in Sessions, RuleEditor!Changed(s), shown'[s] # "delete",
           \A t \in Sessions \ {s} : shown'[t] = shown[t] /\ listed'[t] = listed[t],
           DOMAIN listed' = Sessions, IsTuple(listed'[s])
    PROVE  ListsTell'
<1>1. DOMAIN behind' = Sessions /\ \A t \in Sessions : behind'[t] = (behind[t] \/ (t # s /\ shown[t] = "delete"))
  BY DEF RuleEditor!Changed
<1>2. ASSUME NEW t \in Sessions
      PROVE  IsTuple(listed'[t]) /\ (shown'[t] = "delete" => behind'[t] \/ listed'[t] = Titles(script'))
  BY <1>1 DEF ListsTell
<1> QED BY <1>1, <1>2 DEF ListsTell

\* Nothing but a screen changes.
LEMMA ListsKnow ==
    ASSUME ListsTell, UNCHANGED <<listed, behind, script>>,
           \A t \in Sessions : shown'[t] = "delete" => shown[t] = "delete"
    PROVE  ListsTell'
BY DEF ListsTell, Titles

LEMMA CommandsKeep ==
    ASSUME EditorInv, NEW s \in Sessions, NEW b, RuleEditor!RawAddRule(s, b) \/ RuleEditor!Flush(s)
    PROVE  EditorInv'
<1>1. /\ shown[s] = "menu" /\ UNCHANGED <<shown, listed, p, rule, boxes, text>> /\ RuleEditor!Changed(s)
      /\ inForce' = RuleEditor!Replay(script')
      /\ \/ script' = Append(script, b) /\ intended' = Append(intended, b)
         \/ script' = <<>> /\ intended' = <<>>
  BY NothingReplayed DEF RuleEditor!RawAddRule, RuleEditor!Flush, RuleEditor!Menu, RuleEditor!form
<1>2. IsTuple(script')
  <2>1. IsTuple(Append(script, b)) /\ IsTuple(<<>>)
    BY Appended, EmptyIsTuple DEF EditorInv
  <2> QED BY <1>1, <2>1
<1>3. ListsTell'
  BY <1>1, ListsStay DEF EditorInv, ListsTell
<1>4. ScreenTells'
  BY <1>1, ScreenStays DEF EditorInv
<1> QED BY <1>1, <1>2, <1>3, <1>4 DEF EditorInv

LEMMA DropKeeps ==
    ASSUME Editor \in Sessions, EditorInv, NEW s \in Sessions, NEW d, RuleEditor!DropRule(s, d)
    PROVE  EditorInv'
<1>1. /\ shown[s] = "delete" /\ d \in DOMAIN listed[s]
      /\ script' = RuleEditor!RemoveAt(listed[s], d) /\ inForce' = RuleEditor!Replay(script')
      /\ shown' = [shown EXCEPT ![s] = "menu"] /\ listed' = [listed EXCEPT ![s] = <<>>]
      /\ RuleEditor!Changed(s) /\ UNCHANGED <<p, rule, boxes, text>>
  BY DEF RuleEditor!DropRule, RuleEditor!GoTo, RuleEditor!form
<1>2. IsTuple(script')
  BY <1>1, Removed DEF EditorInv, ListsTell
<1>3. intended' = script'
  <2>1. CASE behind[s] \/ \E i \in DOMAIN script \ {d} : script[i] \in RawQuoted
    BY <2>1 DEF RuleEditor!DropRule
  <2>2. CASE ~(behind[s] \/ \E i \in DOMAIN script \ {d} : script[i] \in RawQuoted)
    <3>1. intended' = RuleEditor!RemoveAt(script, d)
      BY <2>2 DEF RuleEditor!DropRule, EditorInv
    <3>2. listed[s] = Titles(script) /\ IsTuple(script)
      BY <1>1, <2>2 DEF EditorInv, ListsTell
    <3>3. \A i \in DOMAIN script \ {d} : listed[s][i] = script[i]
      BY <2>2, <3>2 DEF Titles, RuleEditor!Title
    <3>4. IsTuple(listed[s]) /\ DOMAIN listed[s] = DOMAIN script
      BY <3>2, TitlesAreLines
    <3> QED BY <1>1, <3>1, <3>2, <3>3, <3>4, RemovedSame
  <2> QED BY <2>1, <2>2
<1>4. ListsTell'
  <2>1. DOMAIN listed' = Sessions /\ listed'[s] = <<>> /\ shown'[s] = "menu"
        /\ \A t \in Sessions \ {s} : shown'[t] = shown[t] /\ listed'[t] = listed[t]
    BY <1>1 DEF EditorInv, ListsTell
  <2>2. ListsTell /\ IsTuple(listed'[s]) /\ shown'[s] # "delete"
    BY <2>1, EmptyIsTuple DEF EditorInv
  <2> QED BY <1>1, <2>1, <2>2, ListsStay
<1>5. ScreenTells'
  <2>1. shown'[Editor] = "forward" <=> shown[Editor] = "forward"
    BY <1>1 DEF EditorInv
  <2> QED BY <1>1, <2>1, ScreenStays DEF EditorInv
<1> QED BY <1>1, <1>2, <1>3, <1>4, <1>5 DEF EditorInv

LEMMA ListKeeps ==
    ASSUME Editor \in Sessions, EditorInv, NEW s \in Sessions, RuleEditor!DeleteRule(s) \/ RuleEditor!CancelDelete(s)
    PROVE  EditorInv'
<1>1. /\ UNCHANGED <<script, inForce, intended, p, rule, boxes, text>>
      /\ behind' = [behind EXCEPT ![s] = FALSE]
      /\ \/ shown[s] = "menu" /\ shown' = [shown EXCEPT ![s] = "delete"] /\ listed' = [listed EXCEPT ![s] = Titles(script)]
         \/ shown[s] = "delete" /\ shown' = [shown EXCEPT ![s] = "menu"] /\ listed' = [listed EXCEPT ![s] = <<>>]
  BY DEF RuleEditor!DeleteRule, RuleEditor!CancelDelete, RuleEditor!Menu, RuleEditor!GoTo, RuleEditor!form, RuleEditor!files, Titles
<1>2. DOMAIN shown = Sessions /\ DOMAIN listed = Sessions /\ DOMAIN behind = Sessions /\ IsTuple(script)
  BY DEF EditorInv, ListsTell
<1>3. DOMAIN listed' = Sessions /\ DOMAIN behind' = Sessions /\ DOMAIN shown' = Sessions
  BY <1>1, <1>2
<1>4. ASSUME NEW t \in Sessions
      PROVE  IsTuple(listed'[t]) /\ (shown'[t] = "delete" => behind'[t] \/ listed'[t] = Titles(script'))
  <2>1. Titles(script') = Titles(script)
    BY <1>1
  <2>2. CASE t = s
    <3>1. \/ listed'[s] = Titles(script) /\ shown'[s] = "delete"
          \/ listed'[s] = <<>> /\ shown'[s] = "menu"
      BY <1>1, <1>2
    <3> QED BY <1>2, <2>1, <2>2, <3>1, TitlesAreLines, EmptyIsTuple
  <2>3. CASE t # s
    <3>1. listed'[t] = listed[t] /\ shown'[t] = shown[t] /\ behind'[t] = behind[t]
      BY <1>1, <1>2, <2>3
    <3> QED BY <2>1, <3>1 DEF EditorInv, ListsTell
  <2> QED BY <2>2, <2>3
<1>5. ScreenTells'
  <2>1. shown'[Editor] = "forward" <=> shown[Editor] = "forward"
    BY <1>1, <1>2
  <2> QED BY <1>1, <2>1, ScreenStays DEF EditorInv
<1> QED BY <1>1, <1>2, <1>3, <1>4, <1>5 DEF EditorInv, ListsTell

\* A screen is opened, worked or left, and the rules stay.
LEMMA ScreenKeeps ==
    ASSUME Editor \in Sessions, EditorInv,
           UNCHANGED <<script, inForce, intended, listed, behind>>,
           shown' = shown \/ \E what \in {"filter", "forward", "menu"} : shown' = [shown EXCEPT ![Editor] = what],
           ScreenTells'
    PROVE  EditorInv'
<1>1. DOMAIN shown' = Sessions /\ \A t \in Sessions : shown'[t] = "delete" => shown[t] = "delete"
  BY DEF EditorInv
<1>2. ListsTell'
  BY <1>1, ListsKnow DEF EditorInv
<1> QED BY <1>1, <1>2 DEF EditorInv

LEMMA KeysKeep ==
    ASSUME Editor \in Sessions, EditorInv,
           \/ RuleEditor!FilterDown \/ RuleEditor!FilterLeft \/ RuleEditor!FilterRight \/ RuleEditor!FilterUp
           \/ RuleEditor!FilterTab \/ RuleEditor!FilterSpace \/ RuleEditor!FilterEdit
           \/ RuleEditor!ForwardDown \/ RuleEditor!ForwardRight \/ RuleEditor!ForwardLeft \/ RuleEditor!ForwardUp
           \/ RuleEditor!ForwardSpace \/ RuleEditor!ForwardEdit
    PROVE  EditorInv'
<1>1. CASE \/ RuleEditor!FilterDown \/ RuleEditor!FilterLeft \/ RuleEditor!FilterRight \/ RuleEditor!FilterUp
           \/ RuleEditor!FilterTab \/ RuleEditor!FilterSpace \/ RuleEditor!FilterEdit
  <2>1. RuleEditor!FilterKey
    BY <1>1 DEF RuleEditor!FilterDown, RuleEditor!FilterLeft, RuleEditor!FilterRight, RuleEditor!FilterUp,
       RuleEditor!FilterTab, RuleEditor!FilterSpace, RuleEditor!FilterEdit
  <2>2. FilterScreen!Key
    BY <1>1, SameMoves, SameSpaceAndEdit DEF RuleEditor!FilterDown, RuleEditor!FilterLeft, RuleEditor!FilterRight, RuleEditor!FilterUp,
       RuleEditor!FilterTab, RuleEditor!FilterSpace, RuleEditor!FilterEdit, FilterScreen!Key
  <2>3. shown[Editor] = "filter" /\ UNCHANGED <<shown, script, inForce, intended, listed, behind>>
    BY <2>1 DEF RuleEditor!FilterKey, RuleEditor!files, RuleEditor!lists
  <2>4. ScreenTells'
    BY <2>2, <2>3, KeyKeeps DEF EditorInv, ScreenTells
  <2> QED BY <2>3, <2>4, ScreenKeeps
<1>2. CASE \/ RuleEditor!ForwardDown \/ RuleEditor!ForwardRight \/ RuleEditor!ForwardLeft \/ RuleEditor!ForwardUp
           \/ RuleEditor!ForwardSpace \/ RuleEditor!ForwardEdit
  <2>1. RuleEditor!ForwardKey
    BY <1>2 DEF RuleEditor!ForwardDown, RuleEditor!ForwardRight, RuleEditor!ForwardLeft, RuleEditor!ForwardUp,
       RuleEditor!ForwardSpace, RuleEditor!ForwardEdit
  <2>2. ForwardScreen!ForwardKey
    BY <1>2, SameForward DEF RuleEditor!ForwardDown, RuleEditor!ForwardRight, RuleEditor!ForwardLeft, RuleEditor!ForwardUp,
       RuleEditor!ForwardSpace, RuleEditor!ForwardEdit, ForwardScreen!ForwardKey
  <2>3. shown[Editor] = "forward" /\ UNCHANGED <<shown, script, inForce, intended, listed, behind>>
    BY <2>1 DEF RuleEditor!ForwardKey, RuleEditor!files, RuleEditor!lists
  <2>4. ScreenTells'
    BY <2>2, <2>3, ForwardKeyKeeps DEF EditorInv, ScreenTells
  <2> QED BY <2>3, <2>4, ScreenKeeps
<1> QED BY <1>1, <1>2

LEMMA OpensKeep ==
    ASSUME Editor \in Sessions, EditorInv, RuleEditor!ProtoFilter \/ RuleEditor!ProtoForward \/ RuleEditor!Cancel
    PROVE  EditorInv'
<1>1. DOMAIN shown = Sessions
  BY DEF EditorInv
<1>2. /\ UNCHANGED <<script, inForce, intended, listed, behind>>
      /\ \/ FilterScreen!Open /\ \E what \in {"filter", "menu"} : shown' = [shown EXCEPT ![Editor] = what]
         \/ ForwardScreen!ForwardOpen /\ shown' = [shown EXCEPT ![Editor] = "forward"]
  BY SameMoves, SameForward DEF RuleEditor!ProtoFilter, RuleEditor!ProtoForward, RuleEditor!Cancel, RuleEditor!Close, RuleEditor!GoTo,
     RuleEditor!files, RuleEditor!lists
<1>3. ScreenTells'
  BY <1>1, <1>2, FilterOpened, ForwardOpened DEF ScreenTells
<1> QED BY <1>2, <1>3, ScreenKeeps

LEMMA InsertKeeps ==
    ASSUME Editor \in Sessions, EditorInv, RuleEditor!FilterOK \/ RuleEditor!ForwardOK
    PROVE  EditorInv'
<1>1. /\ shown' = [shown EXCEPT ![Editor] = "menu"] /\ FilterScreen!Open /\ listed' = listed
      /\ UNCHANGED <<script, inForce, intended, behind>> \/ \E commands : RuleEditor!InsertRule(commands)
  BY SameMoves DEF RuleEditor!FilterOK, RuleEditor!ForwardOK, RuleEditor!Close, RuleEditor!GoTo
<1>2. DOMAIN shown = Sessions /\ shown'[Editor] = "menu"
  BY <1>1 DEF EditorInv
<1>3. ScreenTells'
  BY <1>1, <1>2, FilterOpened DEF ScreenTells
<1>4. CASE UNCHANGED <<script, inForce, intended, behind>>
  BY <1>1, <1>3, <1>4, ScreenKeeps
<1>5. ASSUME NEW commands, RuleEditor!InsertRule(commands)
      PROVE  EditorInv'
  <2>1. PICK b : /\ script' = Append(script, b) /\ intended' = Append(intended, b)
                 /\ inForce' = RuleEditor!Ipfw(inForce, b) /\ RuleEditor!Changed(Editor)
    BY <1>5 DEF RuleEditor!InsertRule
  <2>2. IsTuple(script) /\ IsTuple(script')
    BY <2>1, Appended DEF EditorInv
  <2>3. inForce' = RuleEditor!Replay(script')
    <3> DEFINE S == {script[i] : i \in DOMAIN script} \cup {b}
    <3>1. script \in Seq(S) /\ b \in S
      <4>1. script \in Seq({script[i] : i \in DOMAIN script})
        BY <2>2, TupleIsSeq
      <4> QED BY <4>1
    <3> HIDE DEF S
    <3> QED BY <2>1, <3>1, OneMoreReplayed DEF EditorInv
  <2>4. ListsTell'
    <3>1. DOMAIN listed' = Sessions /\ IsTuple(listed'[Editor]) /\ shown'[Editor] # "delete" /\ ListsTell
          /\ \A t \in Sessions \ {Editor} : shown'[t] = shown[t] /\ listed'[t] = listed[t]
      BY <1>1, <1>2 DEF EditorInv, ListsTell
    <3> QED BY <2>1, <3>1, ListsStay
  <2>5. DOMAIN shown' = Sessions
    BY <1>1, <1>2
  <2> QED BY <1>3, <2>1, <2>2, <2>3, <2>4, <2>5 DEF EditorInv
<1> QED BY <1>1, <1>4, <1>5

LEMMA EditorStep ==
    ASSUME Editor \in Sessions, EditorInv, [RuleEditor!EditorNext]_RuleEditor!vars
    PROVE  EditorInv'
<1>1. CASE UNCHANGED RuleEditor!vars
  <2>1. UNCHANGED <<script, inForce, intended, listed, behind, shown, p, rule, boxes, text>>
    BY <1>1 DEF RuleEditor!vars
  <2> QED BY <2>1, ScreenStays, ScreenKeeps DEF EditorInv
<1> QED BY <1>1, CommandsKeep, DropKeeps, ListKeeps, KeysKeep, OpensKeep, InsertKeeps DEF RuleEditor!EditorNext

LEMMA EditorStart ==
    ASSUME Editor \in Sessions, RuleEditor!EditorInit
    PROVE  EditorInv
<1>1. FilterScreen!FormInit
  BY SameMoves DEF RuleEditor!EditorInit
<1>2. ScreenTells
  BY <1>1, FilterOpened DEF RuleEditor!EditorInit, ScreenTells
<1>3. ListsTell
  BY EmptyIsTuple DEF RuleEditor!EditorInit, ListsTell
<1> QED BY <1>2, <1>3, EmptyIsTuple, NothingReplayed DEF RuleEditor!EditorInit, EditorInv

LEMMA EditorMeans == EditorInv => RuleEditor!KeepsRules
BY SameMeaning DEF EditorInv, ScreenTells, FilterInv, ForwardInv, RuleEditor!KeepsRules

-----------------------------------------------------------------------------
(* natd's options *)

\* The variables that natd's options set, with the links so far
Collects(s) ==
    {"ok", "links", "interface", "alias_address", "inPort", "outPort"} \subseteq DOMAIN s /\ IsTuple(s.links)

LEMMA RefusedKeeps ==
    ASSUME NEW s, Collects(s)
    PROVE  LET t == NatdOptions!Refused(s)
           IN  Collects(t) /\ ~t.ok /\ t.links = s.links
BY DEF Collects, NatdOptions!Refused

LEMMA FieldKeeps ==
    ASSUME NEW s, Collects(s), NEW f \in {"mode", "verbose", "dynamic", "log_denied", "inPort", "outPort", "inOutPort",
                                          "alias_address", "target_address", "interface"}, NEW v
    PROVE  LET t == [s EXCEPT ![f] = v]
           IN  Collects(t) /\ t.links = s.links
BY DEF Collects

LEMMA WithLinks ==
    ASSUME NEW s, Collects(s), NEW x, IsTuple(x)
    PROVE  LET t == [s EXCEPT !.links = @ \o x]
           IN  Collects(t) /\ t.links = s.links \o x
BY Joined DEF Collects

LEMMA SmallRemainder ==
    ASSUME NEW P \in Nat, P > 1, NEW a \in 0..(P - 1)
    PROVE  a % P = a /\ a \div P = 0
<1>0. a \in Nat /\ P \in Nat \ {0}
  OBVIOUS
<1>1. a = P * (a \div P) + (a % P) /\ a % P \in 0..(P - 1) /\ a \div P \in Nat
  BY <1>0, DivMod
<1> DEFINE k == a \div P
<1>2. P * k > -P /\ P * k < P
  <2> HIDE DEF k
  <2> QED BY <1>0, <1>1 DEF k
<1>3. k = 0
  <2> HIDE DEF k
  <2> QED BY <1>0, <1>1, <1>2, Multiple DEF k
<1> QED BY <1>1, <1>3

\* How many ports there are
P == NatdPorts
LEMMA PortsMany == P \in Nat /\ P > 1
BY NatdCommandLines DEF P

\* The ports t are those of the range r.
Span(t, r) ==
    /\ r.lo \in 0..(P - 1) /\ r.num \in 1..(P - 1)
    /\ IsTuple(t) /\ Len(t) = r.num
    /\ \A i \in 1..r.num : r.lo + (i - 1) \in 0..(P - 1) /\ t[i] = r.lo + (i - 1)

LEMMA OnePortTyped ==
    ASSUME NEW w, w[1] \in {"service", "port"}, w[2] \in 0..(P - 1)
    PROVE  Span(NatdOptions!Typed(w), NatdOptions!StrToPortRange(w))
<1> DEFINE r == NatdOptions!StrToPortRange(w)
<1>1. 1 % P = 1 /\ 1 \div P = 0
  BY PortsMany, SmallRemainder
<1>2. r = NatdOptions!PortRange(w[2], 1)
  BY DEF NatdOptions!StrToPortRange
<1>3. (w[2] + 0) % P = w[2]
  BY PortsMany, SmallRemainder
<1>4. r.lo = w[2] /\ r.num = 1
  BY <1>1, <1>2, <1>3 DEF NatdOptions!PortRange, P
<1>5. NatdOptions!Typed(w) = <<w[2]>>
  BY DEF NatdOptions!Typed
<1> HIDE DEF r
<1> QED BY <1>4, <1>5, PortsMany, ShortTuples DEF Span, r

LEMMA RangeTyped ==
    ASSUME NEW w, w[1] = "range", w[2] \in 0..(P - 1), w[3] \in 0..(P - 1), NatdOptions!StrToPortRange(w).ok
    PROVE  Span(NatdOptions!Typed(w), NatdOptions!StrToPortRange(w))
<1> DEFINE r == NatdOptions!StrToPortRange(w)
           n == w[3] - w[2] + 1
<1>1. w[2] % P = w[2] /\ w[3] % P = w[3]
  BY PortsMany, SmallRemainder
<1>2. w[2] <= w[3]
  <2> SUFFICES ASSUME ~(w[2] <= w[3]) PROVE FALSE
    OBVIOUS
  <2>1. r = NatdOptions!Unlinked
    BY <1>1, PortsMany DEF NatdOptions!StrToPortRange, P
  <2> QED BY <2>1 DEF NatdOptions!Unlinked
<1>3. r = NatdOptions!PortRange(w[2], n)
  BY <1>1, <1>2 DEF NatdOptions!StrToPortRange, P
<1>4. n \in 1..P
  BY <1>2, PortsMany
<1>5. n % P # 0
  <2> HIDE DEF n
  <2> DEFINE q == NatdOptions!PortRange(w[2], n)
  <2>1. q.ok <=> n % P # 0
    BY DEF NatdOptions!PortRange, P
  <2> HIDE DEF q
  <2>2. q.ok
    BY <1>3 DEF q
  <2> QED BY <2>1, <2>2
<1>6. n # P
  <2> HIDE DEF n
  <2>1. P % P = 0
    BY PortsMany
  <2> QED BY <2>1, <1>5
<1>7. n % P = n /\ n \div P = 0
  <2> HIDE DEF n
  <2>1. n \in 0..(P - 1)
    BY <1>4, <1>6, PortsMany
  <2> QED BY <2>1, PortsMany, SmallRemainder
<1>8. r.lo = w[2] /\ r.num = n
  <2> HIDE DEF n
  <2>1. (w[2] + 0) % P = w[2]
    BY <1>1
  <2> QED BY <1>3, <1>7, <2>1 DEF NatdOptions!PortRange, P
<1>9. NatdOptions!Typed(w) = [i \in 1..n |-> w[2] + i - 1]
  BY DEF NatdOptions!Typed
<1>10. IsTuple(NatdOptions!Typed(w)) /\ Len(NatdOptions!Typed(w)) = n
  <2> DEFINE t == [i \in 1..n |-> w[2] + i - 1]
  <2>1. n \in Nat /\ DOMAIN t = 1..n /\ t = [i \in 1..n |-> t[i]]
    BY <1>4
  <2> HIDE DEF t, n
  <2>2. IsTuple(t) /\ Len(t) = n
    BY <2>1, LengthOfTuple DEF IsTuple
  <2> QED BY <1>9, <2>2 DEF t
<1>11. \A i \in 1..n : w[2] + (i - 1) \in 0..(P - 1) /\ w[2] + (i - 1) = w[2] + i - 1
  BY PortsMany
<1> HIDE DEF r
<1>12. n \in 1..(P - 1)
  BY <1>4, <1>6, PortsMany
<1> HIDE DEF n
<1> QED BY <1>8, <1>9, <1>10, <1>11, <1>12 DEF Span, r

LEMMA SpanTyped ==
    ASSUME NEW w, NatdOptions!RedirectWord(w), NatdOptions!StrToPortRange(w).ok, NatdOptions!InRange(w)
    PROVE  Span(NatdOptions!Typed(w), NatdOptions!StrToPortRange(w))
<1>1. w[1] \in {"service", "port", "range"}
  <2> SUFFICES ASSUME ~(w[1] \in {"service", "port", "range"}) PROVE FALSE
    OBVIOUS
  <2>1. NatdOptions!StrToPortRange(w) = NatdOptions!Unlinked
    BY DEF NatdOptions!StrToPortRange
  <2> QED BY <2>1 DEF NatdOptions!Unlinked
<1>2. CASE w[1] \in {"service", "port"}
  <2>1. w = <<w[1], w[2]>>
    <3>1. w[1] # "at" /\ w[1] # "addr" /\ w[1] # "pool" /\ w[1] # "range"
      BY <1>2
    <3>2. NatdOptions!PortsWord(w)
      BY <3>1 DEF NatdOptions!RedirectWord, NatdOptions!AtWord
    <3>3. w # <<"bad">>
      BY <1>2
    <3> QED BY <3>1, <3>2, <3>3 DEF NatdOptions!PortsWord
  <2>2. w[2] \in 0..(P - 1)
    BY <2>1 DEF NatdOptions!InRange, P
  <2> QED BY <1>2, <2>2, OnePortTyped
<1>3. CASE w[1] = "range"
  <2>1. w = <<w[1], w[2], w[3]>>
    BY <1>3 DEF NatdOptions!RedirectWord, NatdOptions!PortsWord, NatdOptions!AtWord
  <2>2. Len(w) = 3
    BY <2>1
  <2>3. 2 \in 2..Len(w) /\ 3 \in 2..Len(w)
    BY <2>2
  <2>4. w[2] \in 0..(P - 1) /\ w[3] \in 0..(P - 1)
    BY <2>3 DEF NatdOptions!InRange, P
  <2> QED BY <1>3, <2>4, RangeTyped
<1>4. w[1] \in {"service", "port"} \/ w[1] = "range"
  BY <1>1
<1> QED BY <1>2, <1>3, <1>4

\* Only one port or more make a range.
LEMMA RangeTaken ==
    ASSUME NEW w, NatdOptions!PortsWord(w), NatdOptions!StrToPortRange(w).num = 1
    PROVE  NatdOptions!StrToPortRange(w).ok
<1> DEFINE r == NatdOptions!StrToPortRange(w)
<1>1. r # NatdOptions!Unlinked
  <2> HIDE DEF r
  <2> QED BY DEF NatdOptions!Unlinked, r
<1>2. \E lo, n : r = NatdOptions!PortRange(lo, n)
  BY <1>1 DEF NatdOptions!StrToPortRange
<1>3. PICK lo, n : r = NatdOptions!PortRange(lo, n)
  BY <1>2
<1> HIDE DEF r
<1>4. r.ok <=> n % P # 0
  BY <1>3 DEF NatdOptions!PortRange, P
<1>5. r.num = n % P
  BY <1>3 DEF NatdOptions!PortRange, P
<1> QED BY <1>4, <1>5 DEF r

LEMMA AtTyped ==
    ASSUME NEW w, NatdOptions!AtWord(w), NatdOptions!InRange(w[3]),
           NatdOptions!StrToAddrAndPortRange(w).range.ok
    PROVE  /\ NatdOptions!StrToAddrAndPortRange(w).addr = w[2]
           /\ Span(NatdOptions!TypedAt(w), NatdOptions!StrToAddrAndPortRange(w).range)
<1>1. /\ w[1] = "at" /\ NatdOptions!RedirectWord(w[3])
  BY DEF NatdOptions!AtWord, NatdOptions!RedirectWord
<1>2. /\ NatdOptions!StrToAddrAndPortRange(w).addr = w[2]
      /\ NatdOptions!StrToAddrAndPortRange(w).range = NatdOptions!StrToPortRange(w[3])
      /\ NatdOptions!TypedAt(w) = NatdOptions!Typed(w[3])
  BY <1>1 DEF NatdOptions!StrToAddrAndPortRange, NatdOptions!TypedAt
<1> QED BY <1>1, <1>2, SpanTyped

LEMMA NotAt ==
    ASSUME NEW w, w[1] # "at"
    PROVE  ~NatdOptions!StrToAddrAndPortRange(w).range.ok
<1>1. NatdOptions!StrToAddrAndPortRange(w).range = NatdOptions!Unlinked
  BY DEF NatdOptions!StrToAddrAndPortRange
<1> QED BY <1>1 DEF NatdOptions!Unlinked

LEMMA PublicTyped ==
    ASSUME NEW w, NatdOptions!RedirectWord(w), NatdOptions!PortsInRange(w), NatdOptions!PublicOf(w).range.ok
    PROVE  Span(NatdOptions!TypedAt(w), NatdOptions!PublicOf(w).range)
<1>1. CASE w[1] = "at"
  <2>1. NatdOptions!AtWord(w)
    BY <1>1 DEF NatdOptions!RedirectWord, NatdOptions!PortsWord
  <2>2. NatdOptions!PublicOf(w) = NatdOptions!StrToAddrAndPortRange(w) /\ NatdOptions!InRange(w[3])
    BY <1>1 DEF NatdOptions!PublicOf, NatdOptions!PortsInRange
  <2> QED BY <2>1, <2>2, AtTyped
<1>2. CASE w[1] # "at"
  <2>1. /\ NatdOptions!PublicOf(w).range = NatdOptions!StrToPortRange(w)
        /\ NatdOptions!TypedAt(w) = NatdOptions!Typed(w)
    BY <1>2 DEF NatdOptions!PublicOf, NatdOptions!TypedAt
  <2>2. w[1] \in {"service", "port", "range"}
    <3> SUFFICES ASSUME w[1] \notin {"service", "port", "range"} PROVE FALSE
      OBVIOUS
    <3>1. NatdOptions!StrToPortRange(w) = NatdOptions!Unlinked
      BY DEF NatdOptions!StrToPortRange
    <3> QED BY <2>1, <3>1 DEF NatdOptions!Unlinked
  <2>3. NatdOptions!InRange(w)
    BY <2>2 DEF NatdOptions!PortsInRange
  <2> QED BY <2>1, <2>3, SpanTyped
<1> QED BY <1>1, <1>2

LEMMA LocalTyped ==
    ASSUME NEW w, NatdOptions!RedirectWord(w), NatdOptions!PortsInRange(w), NatdOptions!LocalOf(w).range.ok
    PROVE  /\ w[1] \in {"at", "pool"}
           /\ w[1] = "at" => /\ NatdOptions!LocalOf(w).addr = w[2]
                             /\ Span(NatdOptions!TypedAt(w), NatdOptions!LocalOf(w).range)
           /\ w[1] = "pool" => NatdOptions!LocalOf(w).range.num = 1
<1>1. CASE w[1] = "pool"
  BY <1>1 DEF NatdOptions!LocalOf
<1>2. CASE w[1] # "pool"
  <2>1. NatdOptions!LocalOf(w) = NatdOptions!StrToAddrAndPortRange(w)
    BY <1>2 DEF NatdOptions!LocalOf
  <2>2. w[1] = "at"
    BY <2>1, NotAt
  <2>3. NatdOptions!AtWord(w) /\ NatdOptions!InRange(w[3])
    BY <2>2 DEF NatdOptions!RedirectWord, NatdOptions!PortsWord, NatdOptions!PortsInRange
  <2> QED BY <2>1, <2>2, <2>3, AtTyped
<1> QED BY <1>1, <1>2

RemotePorts(words) == Len(words) > 3 /\ words[4][1] = "at"
LEMMA RemoteTyped ==
    ASSUME NEW words, Len(words) \in Nat, \A i \in 2..Len(words) : NatdOptions!RedirectWord(words[i]),
           NatdOptions!AllInRange(words), NatdOptions!RemoteOf(words).range.ok
    PROVE  /\ RemotePorts(words) =>
                /\ Span(NatdOptions!TypedAt(words[4]), NatdOptions!RemoteOf(words).range)
                /\ NatdOptions!AllPorts(NatdOptions!RemoteOf(words).range) <=>
                     NatdOptions!TypedAt(words[4]) = <<0>>
           /\ ~RemotePorts(words) => NatdOptions!AllPorts(NatdOptions!RemoteOf(words).range)
<1> DEFINE r == NatdOptions!RemoteOf(words).range
           t == NatdOptions!TypedAt(words[4])
<1>1. ASSUME RemotePorts(words)
      PROVE  Span(t, r) /\ (NatdOptions!AllPorts(r) <=> t = <<0>>)
  <2>1. 4 \in 2..Len(words) /\ ~(Len(words) < 4) /\ Len(words) >= 4
    BY <1>1 DEF RemotePorts
  <2>2. NatdOptions!RemoteOf(words) = NatdOptions!StrToAddrAndPortRange(words[4])
    BY <1>1, <2>1 DEF NatdOptions!RemoteOf, RemotePorts
  <2>3. NatdOptions!AtWord(words[4]) /\ NatdOptions!InRange(words[4][3])
    BY <1>1, <2>1 DEF RemotePorts, NatdOptions!RedirectWord, NatdOptions!PortsWord, NatdOptions!AllInRange,
                      NatdOptions!PortsInRange
  <2>4. Span(t, r)
    BY <2>2, <2>3, AtTyped
  <2> HIDE DEF r, t
  <2>5. IsTuple(t) /\ Len(t) = r.num /\ r.lo \in Nat /\ r.num \in Nat /\ \A i \in 1..r.num : t[i] = r.lo + (i - 1)
    BY <2>4, PortsMany DEF Span
  <2>6. ASSUME NatdOptions!AllPorts(r) PROVE t = <<0>>
    <3>1. Len(t) = 1 /\ t[1] = 0
      BY <2>5, <2>6 DEF NatdOptions!AllPorts
    <3>2. DOMAIN t = 1..1
      BY <2>5, <3>1, LengthOfTuple DEF IsTuple
    <3>3. DOMAIN <<0>> = 1..1 /\ IsTuple(<<0>>) /\ <<0>>[1] = 0
      BY ShortTuples
    <3> QED BY <2>5, <3>1, <3>2, <3>3, SameTuple
  <2>7. ASSUME t = << 0 >> PROVE NatdOptions!AllPorts(r)
    <3>1. Len(t) = 1 /\ t[1] = 0
      BY <2>7
    <3> QED BY <2>5, <3>1 DEF NatdOptions!AllPorts
  <2> QED BY <2>4, <2>6, <2>7
<1>2. ASSUME ~RemotePorts(words)
      PROVE  NatdOptions!AllPorts(r)
  <2>1. r = [ok |-> TRUE, lo |-> 0, num |-> 1]
    BY <1>2 DEF RemotePorts, NatdOptions!RemoteOf
  <2> QED BY <2>1 DEF NatdOptions!AllPorts
<1> QED BY <1>1, <1>2

LEMMA LinkFields ==
    ASSUME NEW proto, NEW i, NEW l, NEW pu, NEW r
    PROVE  LET k == NatdOptions!LinkAt(proto, i, l, pu, r)
           IN  /\ k.proto = proto /\ k.local = l.addr /\ k.lport = (l.range.lo + i) % P
               /\ k.pport = (pu.range.lo + i) % P
               /\ k.rport = IF NatdOptions!AllPorts(r.range) THEN 0 ELSE (r.range.lo + i) % P
BY DEF NatdOptions!LinkAt, NatdOptions!Link, P

\* An array of links, and what a pool changes in it.
LEMMA LinksAreTuple ==
    ASSUME NEW proto, NEW l, NEW pu, NEW r, pu.range.num \in Nat, NEW pool
    PROVE  LET x == NatdOptions!LinksFrom(proto, l, pu, r)
               y == NatdOptions!Pooled(x, pool)
           IN  /\ IsTuple(x) /\ Len(x) = pu.range.num /\ DOMAIN x = 1..pu.range.num
               /\ \A i \in DOMAIN x : x[i] = NatdOptions!LinkAt(proto, i - 1, l, pu, r)
               /\ IsTuple(y) /\ Len(y) = pu.range.num /\ DOMAIN y = 1..pu.range.num
<1> DEFINE x == NatdOptions!LinksFrom(proto, l, pu, r)
           y == NatdOptions!Pooled(x, pool)
           n == pu.range.num
<1>1. x = [i \in 1..n |-> NatdOptions!LinkAt(proto, i - 1, l, pu, r)]
  BY DEF NatdOptions!LinksFrom
<1> HIDE DEF x
<1>2. DOMAIN x = 1..n /\ x = [i \in 1..n |-> x[i]]
  BY <1>1
<1>3. IsTuple(x) /\ Len(x) = n
  BY <1>2, LengthOfTuple DEF IsTuple
<1>4. DOMAIN y = 1..n /\ y = [i \in 1..n |-> y[i]]
  BY <1>2 DEF NatdOptions!Pooled
<1> HIDE DEF y
<1>5. IsTuple(y) /\ Len(y) = n
  BY <1>4, LengthOfTuple DEF IsTuple
<1> QED BY <1>1, <1>2, <1>3, <1>4, <1>5 DEF x, y

\* What is asked of the i-th of the links
Led(k, i, words) ==
    /\ k.proto = words[1] /\ k.pport = NatdOptions!TypedAt(words[3])[i]
    /\ words[2][1] = "at" => k.local = words[2][2] /\ k.lport = NatdOptions!TypedAt(words[2])[i]
    /\ k.rport = IF RemotePorts(words) /\ NatdOptions!TypedAt(words[4]) # <<0>>
                 THEN NatdOptions!TypedAt(words[4])[i] ELSE 0

LEMMA PairLeads ==
    ASSUME NEW words, Len(words) \in Nat, Len(words) >= 3,
           \A i \in 2..Len(words) : NatdOptions!RedirectWord(words[i]), NatdOptions!AllInRange(words),
           NEW l, NEW pu, NEW r, l = NatdOptions!LocalOf(words[2]), pu = NatdOptions!PublicOf(words[3]),
           r = NatdOptions!RemoteOf(words), NatdOptions!PairedPorts(l.range, pu.range, r.range)
    PROVE  /\ pu.range.num \in Nat /\ Len(NatdOptions!TypedAt(words[3])) = pu.range.num
           /\ words[2][1] \in {"at", "pool"} /\ (words[2][1] = "pool" => pu.range.num = 1)
           /\ \A i \in 1..pu.range.num : Led(NatdOptions!LinkAt(words[1], i - 1, l, pu, r), i, words)
<1>1. l.range.ok /\ pu.range.ok /\ r.range.ok /\ l.range.num = pu.range.num
      /\ (r.range.num = l.range.num \/ NatdOptions!AllPorts(r.range))
  BY DEF NatdOptions!PairedPorts
<1>2. 2 \in 2..Len(words) /\ 3 \in 2..Len(words)
  OBVIOUS
<1>3. Span(NatdOptions!TypedAt(words[3]), pu.range)
  BY <1>1, <1>2, PublicTyped DEF NatdOptions!AllInRange
<1>4. /\ words[2][1] \in {"at", "pool"}
      /\ words[2][1] = "at" => l.addr = words[2][2] /\ Span(NatdOptions!TypedAt(words[2]), l.range)
      /\ words[2][1] = "pool" => l.range.num = 1
  BY <1>1, <1>2, LocalTyped DEF NatdOptions!AllInRange
<1>5. /\ RemotePorts(words) =>
           /\ Span(NatdOptions!TypedAt(words[4]), r.range)
           /\ NatdOptions!AllPorts(r.range) <=> NatdOptions!TypedAt(words[4]) = <<0>>
      /\ ~RemotePorts(words) => NatdOptions!AllPorts(r.range)
  BY <1>1, RemoteTyped
<1>6. \A t, q, i : Span(t, q) /\ i \in 1..q.num => (q.lo + (i - 1)) % P = t[i]
  <2> SUFFICES ASSUME NEW t, NEW q, NEW i, Span(t, q), i \in 1..q.num
               PROVE  (q.lo + (i - 1)) % P = t[i]
    OBVIOUS
  <2> DEFINE a == q.lo + (i - 1)
  <2>1. a \in 0..(P - 1) /\ t[i] = a
    BY DEF Span
  <2> HIDE DEF a
  <2>2. a % P = a
    BY <2>1, PortsMany, SmallRemainder
  <2> QED BY <2>1, <2>2 DEF a
<1>7. ASSUME NEW i \in 1..pu.range.num
      PROVE  Led(NatdOptions!LinkAt(words[1], i - 1, l, pu, r), i, words)
  <2> DEFINE k == NatdOptions!LinkAt(words[1], i - 1, l, pu, r)
  <2>1. /\ k.proto = words[1] /\ k.local = l.addr /\ k.lport = (l.range.lo + (i - 1)) % P
        /\ k.pport = (pu.range.lo + (i - 1)) % P
        /\ k.rport = IF NatdOptions!AllPorts(r.range) THEN 0 ELSE (r.range.lo + (i - 1)) % P
    BY LinkFields
  <2> HIDE DEF k
  <2>2. k.pport = NatdOptions!TypedAt(words[3])[i]
    BY <1>3, <1>6, <2>1
  <2>3. words[2][1] = "at" => k.local = words[2][2] /\ k.lport = NatdOptions!TypedAt(words[2])[i]
    <3> SUFFICES ASSUME words[2][1] = "at"
                 PROVE  k.local = words[2][2] /\ k.lport = NatdOptions!TypedAt(words[2])[i]
      OBVIOUS
    <3>1. l.addr = words[2][2] /\ Span(NatdOptions!TypedAt(words[2]), l.range) /\ i \in 1..l.range.num
      BY <1>1, <1>4
    <3>2. (l.range.lo + (i - 1)) % P = NatdOptions!TypedAt(words[2])[i]
      BY <1>6, <3>1, ZenonT(40)
    <3> QED BY <2>1, <3>1, <3>2
  <2>4. k.rport = IF RemotePorts(words) /\ NatdOptions!TypedAt(words[4]) # <<0>>
                  THEN NatdOptions!TypedAt(words[4])[i] ELSE 0
    <3>1. CASE NatdOptions!AllPorts(r.range)
      BY <1>5, <2>1, <3>1
    <3>2. CASE ~NatdOptions!AllPorts(r.range)
      <4>1. RemotePorts(words) /\ NatdOptions!TypedAt(words[4]) # <<0>> /\ i \in 1..r.range.num
        BY <1>1, <1>5, <3>2
      <4> QED BY <1>5, <1>6, <2>1, <3>2, <4>1
    <3> QED BY <3>1, <3>2
  <2> QED BY <2>1, <2>2, <2>3, <2>4 DEF Led, k
<1>8. pu.range.num \in Nat /\ Len(NatdOptions!TypedAt(words[3])) = pu.range.num
  BY <1>3, PortsMany DEF Span
<1> QED BY <1>1, <1>4, <1>7, <1>8

\* A pool is for one link, which has the servers.
LEMMA PoolLeads ==
    ASSUME NEW words, NatdOptions!RedirectWord(words[2]), words[2][1] = "pool", NatdOptions!PortsInRange(words[2]),
           NatdOptions!PoolFits(words[2][2]), NEW x, DOMAIN x = 1..1, Len(x) = 1, "servers" \in DOMAIN x[1], Led(x[1], 1, words)
    PROVE  LET y == NatdOptions!Pooled(x, words[2][2])
           IN  /\ Led(y[1], 1, words)
               /\ y[1].servers = [k \in DOMAIN words[2][2] |->
                                     <<words[2][2][k][2], NatdOptions!TypedAt(words[2][2][k])[1]>>]
<1> DEFINE pool == words[2][2]
           v == [k \in DOMAIN pool |-> <<NatdOptions!ServerAt(pool[k]).addr, NatdOptions!ServerAt(pool[k]).range.lo>>]
           y == NatdOptions!Pooled(x, pool)
<1>1. ASSUME NEW k \in DOMAIN pool
      PROVE  /\ NatdOptions!ServerAt(pool[k]).addr = pool[k][2]
             /\ NatdOptions!ServerAt(pool[k]).range.lo = NatdOptions!TypedAt(pool[k])[1]
  <2> DEFINE q == NatdOptions!StrToAddrAndPortRange(pool[k]).range
  <2>1. NatdOptions!AtWord(pool[k]) /\ NatdOptions!InRange(pool[k][3])
    <3>1. ~NatdOptions!AtWord(words[2]) /\ ~NatdOptions!PortsWord(words[2])
      BY DEF NatdOptions!PortsWord, NatdOptions!AtWord
    <3>2. \A j \in DOMAIN pool : NatdOptions!AtWord(pool[j])
      BY <3>1 DEF NatdOptions!RedirectWord
    <3>3. \A j \in DOMAIN pool : NatdOptions!InRange(pool[j][3])
      BY DEF NatdOptions!PortsInRange
    <3> QED BY <1>1, <3>2, <3>3
  <2>2. q.num = 1
    BY <1>1 DEF NatdOptions!PoolFits, NatdOptions!ServerAt
  <2>3. q.ok
    <3>1. q = NatdOptions!StrToPortRange(pool[k][3])
      BY <2>1 DEF NatdOptions!StrToAddrAndPortRange, NatdOptions!AtWord
    <3> QED BY <2>1, <2>2, <3>1, RangeTaken DEF NatdOptions!AtWord
  <2>4. /\ NatdOptions!StrToAddrAndPortRange(pool[k]).addr = pool[k][2]
        /\ Span(NatdOptions!TypedAt(pool[k]), q)
    BY <2>1, <2>3, AtTyped
  <2> HIDE DEF q
  <2>5. NatdOptions!TypedAt(pool[k])[1] = q.lo
    BY <2>2, <2>4, PortsMany DEF Span
  <2> QED BY <2>4, <2>5 DEF q, NatdOptions!ServerAt
<1>2. v = [k \in DOMAIN pool |-> <<pool[k][2], NatdOptions!TypedAt(pool[k])[1]>>]
  BY <1>1
<1> HIDE DEF v
<1>3. y[1] = [x[1] EXCEPT !.servers = v]
  BY DEF NatdOptions!Pooled, v
<1> HIDE DEF y
<1>4. y[1].servers = v /\ Led(y[1], 1, words)
  BY <1>3 DEF Led
<1> QED BY <1>2, <1>4 DEF y

\* t has the links of s and others behind them.
Extends(t, s) == Collects(t) /\ \E x : IsTuple(x) /\ t.links = s.links \o x
RedirectWords(words) == IsTuple(words) /\ \A i \in 2..Len(words) : NatdOptions!RedirectWord(words[i])

LEMMA RefusedExtends ==
    ASSUME NEW s, Collects(s), NEW t, t = NatdOptions!Refused(s) \/ t = s
    PROVE  Extends(t, s)
<1>1. Collects(t) /\ t.links = s.links
  BY RefusedKeeps
<1>2. s.links \o <<>> = s.links /\ IsTuple(<<>>)
  BY JoinedNothing, ShortTuples DEF Collects
<1> QED BY <1>1, <1>2 DEF Extends

LEMMA AddedExtends ==
    ASSUME NEW s, Collects(s), NEW x, IsTuple(x)
    PROVE  Extends([s EXCEPT !.links = @ \o x], s)
BY WithLinks DEF Extends

LEMMA LinksLead ==
    ASSUME NEW words, RedirectWords(words), Len(words) >= 3, NatdOptions!AllInRange(words),
           NEW l, NEW pu, NEW r, l = NatdOptions!LocalOf(words[2]), pu = NatdOptions!PublicOf(words[3]),
           r = NatdOptions!RemoteOf(words), NatdOptions!PairedPorts(l.range, pu.range, r.range)
    PROVE  LET x == NatdOptions!LinksFrom(words[1], l, pu, r)
               y == NatdOptions!Pooled(x, words[2][2])
           IN  /\ words[2][1] # "pool" => NatdOptions!Leads(x, words)
               /\ words[2][1] = "pool" /\ NatdOptions!PoolFits(words[2][2]) => NatdOptions!Leads(y, words)
<1> DEFINE x == NatdOptions!LinksFrom(words[1], l, pu, r)
           y == NatdOptions!Pooled(x, words[2][2])
           n == pu.range.num
<1>1. Len(words) \in Nat /\ 2 \in 2..Len(words) /\ \A i \in 2..Len(words) : NatdOptions!RedirectWord(words[i])
  <2>1. Len(words) \in Nat
    BY Appended DEF RedirectWords
  <2> QED BY <2>1 DEF RedirectWords
<1>2. /\ n \in Nat /\ Len(NatdOptions!TypedAt(words[3])) = n
      /\ words[2][1] \in {"at", "pool"} /\ (words[2][1] = "pool" => n = 1)
      /\ \A i \in 1..n : Led(NatdOptions!LinkAt(words[1], i - 1, l, pu, r), i, words)
  BY <1>1, PairLeads
<1>3. /\ Len(x) = n /\ DOMAIN x = 1..n /\ Len(y) = n /\ DOMAIN y = 1..n
      /\ \A i \in DOMAIN x : x[i] = NatdOptions!LinkAt(words[1], i - 1, l, pu, r)
  BY <1>2, LinksAreTuple
<1>4. \A i \in 1..n : Led(x[i], i, words)
  BY <1>2, <1>3
<1>5. \A i \in 1..n : "servers" \in DOMAIN x[i]
  <2>1. \A i : "servers" \in DOMAIN NatdOptions!LinkAt(words[1], i - 1, l, pu, r)
    BY DEF NatdOptions!LinkAt, NatdOptions!Link
  <2> QED BY <1>3, <2>1
<1>6. ASSUME words[2][1] # "pool"
      PROVE  NatdOptions!Leads(x, words)
  <2> HIDE DEF x, n
  <2>1. words[2][1] = "at"
    BY <1>2, <1>6
  <2>2. Len(x) = Len(NatdOptions!TypedAt(words[3])) /\ \A i \in DOMAIN x : Led(x[i], i, words)
    BY <1>2, <1>3, <1>4
  <2> QED BY <2>1, <2>2 DEF NatdOptions!Leads, Led, RemotePorts
<1>7. ASSUME words[2][1] = "pool", NatdOptions!PoolFits(words[2][2])
      PROVE  NatdOptions!Leads(y, words)
  <2>1. n = 1 /\ NatdOptions!RedirectWord(words[2]) /\ NatdOptions!PortsInRange(words[2])
    BY <1>1, <1>2, <1>7 DEF NatdOptions!AllInRange
  <2>2. DOMAIN x = 1..1 /\ Len(x) = 1 /\ "servers" \in DOMAIN x[1] /\ Led(x[1], 1, words)
    BY <1>3, <1>4, <1>5, <2>1
  <2> HIDE DEF x
  <2>3. /\ Led(y[1], 1, words)
        /\ y[1].servers = [k \in DOMAIN words[2][2] |->
                              <<words[2][2][k][2], NatdOptions!TypedAt(words[2][2][k])[1]>>]
    BY <1>7, <2>1, <2>2, PoolLeads
  <2>4. Len(y) = Len(NatdOptions!TypedAt(words[3])) /\ DOMAIN y = 1..1
    BY <1>2, <1>3, <2>1
  <2> HIDE DEF y
  <2>5. \A i \in DOMAIN y : i = 1
    BY <2>4
  <2>6. words[2][1] # "at"
    BY <1>7
  <2> QED BY <2>3, <2>4, <2>5, <2>6 DEF NatdOptions!Leads, Led, RemotePorts
<1> QED BY <1>6, <1>7

\* How many ports a word stands for is a number, also when they are no ports.
LEMMA PublicNumber ==
    ASSUME NEW w, NatdOptions!RedirectWord(w)
    PROVE  NatdOptions!PublicOf(w).range.num \in Nat
<1>1. \A lo : \A n \in Int : NatdOptions!PortRange(lo, n).num \in Nat
  <2>1. \A n \in Int : n % P \in Nat
    BY PortsMany
  <2>2. \A lo, n : NatdOptions!PortRange(lo, n).num = n % P
    BY DEF NatdOptions!PortRange, P
  <2> QED BY <2>1, <2>2
<1>2. NatdOptions!Unlinked.num \in Nat
  BY DEF NatdOptions!Unlinked
<1>3. ASSUME NEW v, NatdOptions!PortsWord(v) \/ v[1] \notin {"service", "port", "range"}
      PROVE  NatdOptions!StrToPortRange(v).num \in Nat
  <2>1. CASE v[1] \in {"service", "port"}
    <3>1. NatdOptions!StrToPortRange(v) = NatdOptions!PortRange(v[2], 1)
      BY <2>1 DEF NatdOptions!StrToPortRange
    <3> QED BY <1>1, <3>1
  <2>2. CASE v[1] = "range" /\ v[2] % P <= v[3] % P
    <3> DEFINE n == (v[3] % P) - (v[2] % P) + 1
    <3>1. NatdOptions!StrToPortRange(v) = NatdOptions!PortRange(v[2] % P, n)
      BY <2>2 DEF NatdOptions!StrToPortRange, P
    <3>2. v[2] \in Nat /\ v[3] \in Nat
      BY <1>3, <2>2 DEF NatdOptions!PortsWord
    <3>3. n \in Int
      BY <3>2, PortsMany
    <3> HIDE DEF n
    <3> QED BY <1>1, <3>1, <3>3
  <2>3. CASE v[1] \notin {"service", "port"} /\ ~(v[1] = "range" /\ v[2] % P <= v[3] % P)
    BY <1>2, <2>3 DEF NatdOptions!StrToPortRange, P
  <2> QED BY <2>1, <2>2, <2>3
<1>4. CASE w[1] = "at"
  <2>1. NatdOptions!PublicOf(w).range = NatdOptions!StrToPortRange(w[3])
    BY <1>4 DEF NatdOptions!PublicOf, NatdOptions!StrToAddrAndPortRange
  <2>2. NatdOptions!PortsWord(w[3])
    BY <1>4 DEF NatdOptions!RedirectWord, NatdOptions!PortsWord, NatdOptions!AtWord
  <2> QED BY <1>3, <2>1, <2>2
<1>5. CASE w[1] # "at"
  <2>1. NatdOptions!PublicOf(w).range = NatdOptions!StrToPortRange(w)
    BY <1>5 DEF NatdOptions!PublicOf
  <2>2. NatdOptions!PortsWord(w) \/ w[1] \notin {"service", "port", "range"}
    BY <1>5 DEF NatdOptions!RedirectWord, NatdOptions!AtWord
  <2> QED BY <1>3, <2>1, <2>2
<1> QED BY <1>4, <1>5

\* SetupPortRedirect() adds links or refuses, and the links are those that were asked for.
LEMMA SetupLeads ==
    ASSUME NEW s, Collects(s), NEW words, RedirectWords(words)
    PROVE  LET t == NatdOptions!SetupPortRedirect(s, words)
           IN  /\ Collects(t)
               /\ \E x : /\ IsTuple(x) /\ t.links = s.links \o x
                         /\ t.ok /\ NatdOptions!AllInRange(words) => NatdOptions!Leads(x, words)
<1> DEFINE t == NatdOptions!SetupPortRedirect(s, words)
           l == NatdOptions!LocalOf(words[2])
           pu == NatdOptions!PublicOf(words[3])
           r == NatdOptions!RemoteOf(words)
           x == NatdOptions!LinksFrom(words[1], l, pu, r)
           y == NatdOptions!Pooled(x, words[2][2])
           paired == NatdOptions!PairedPorts(l.range, pu.range, r.range)
           fits == NatdOptions!PoolFits(words[2][2])
<1>1. Len(words) \in Nat
  BY Appended DEF RedirectWords
<1>2. ASSUME t = NatdOptions!Refused(s)
      PROVE  Collects(t) /\ ~t.ok /\ IsTuple(<<>>) /\ t.links = s.links \o <<>>
  <2>1. Collects(t) /\ t.links = s.links /\ ~t.ok
    BY <1>2, RefusedKeeps
  <2> QED BY <2>1, JoinedNothing, ShortTuples DEF Collects
<1>3. ASSUME NEW z, IsTuple(z), t = [s EXCEPT !.links = @ \o z]
      PROVE  Collects(t) /\ t.links = s.links \o z
  BY <1>3, WithLinks
<1>4. Len(words) >= 3 => pu.range.num \in Nat
  BY <1>1, PublicNumber DEF RedirectWords
<1>5. Len(words) >= 3 => IsTuple(x) /\ IsTuple(y)
  BY <1>4, LinksAreTuple
<1> HIDE DEF x, y, l, pu, r, paired, fits
<1>6. \/ t = NatdOptions!Refused(s)
      \/ Len(words) >= 3 /\ paired /\ words[2][1] = "pool" /\ fits /\ t = [s EXCEPT !.links = @ \o y]
      \/ Len(words) >= 3 /\ paired /\ words[2][1] # "pool" /\ t = [s EXCEPT !.links = @ \o x]
  <2>1. CASE Len(words) < 3 \/ words[1] \notin {"tcp", "udp"}
    BY <2>1 DEF NatdOptions!SetupPortRedirect
  <2>2. CASE Len(words) >= 3 /\ words[1] \in {"tcp", "udp"}
    <3>1. t = NatdOptions!Redirected(s, words, l, pu, r)
      BY <1>1, <2>2 DEF NatdOptions!SetupPortRedirect, l, pu, r
    <3>2. CASE ~paired
      BY <3>1, <3>2 DEF NatdOptions!Redirected, paired
    <3>3. CASE paired /\ words[2][1] = "pool" /\ ~fits
      BY <3>1, <3>3 DEF NatdOptions!Redirected, paired, fits
    <3>4. CASE paired /\ words[2][1] = "pool" /\ fits
      BY <2>2, <3>1, <3>4 DEF NatdOptions!Redirected, paired, fits, x, y
    <3>5. CASE paired /\ words[2][1] # "pool"
      BY <2>2, <3>1, <3>5 DEF NatdOptions!Redirected, paired, x
    <3> QED BY <3>2, <3>3, <3>4, <3>5
  <2> QED BY <1>1, <2>1, <2>2
<1>7. CASE t = NatdOptions!Refused(s)
  <2> HIDE DEF t
  <2> QED BY <1>2, <1>7 DEF t
<1>8. CASE Len(words) >= 3 /\ paired /\ words[2][1] = "pool" /\ fits /\ t = [s EXCEPT !.links = @ \o y]
  <2>1. Collects(t) /\ t.links = s.links \o y
    BY <1>3, <1>5, <1>8
  <2>2. NatdOptions!AllInRange(words) => NatdOptions!Leads(y, words)
    BY <1>8, LinksLead DEF x, y, l, pu, r, paired, fits
  <2> HIDE DEF t
  <2> QED BY <1>5, <1>8, <2>1, <2>2 DEF t
<1>9. CASE Len(words) >= 3 /\ paired /\ words[2][1] # "pool" /\ t = [s EXCEPT !.links = @ \o x]
  <2>1. Collects(t) /\ t.links = s.links \o x
    BY <1>3, <1>5, <1>9
  <2>2. NatdOptions!AllInRange(words) => NatdOptions!Leads(x, words)
    BY <1>9, LinksLead DEF x, l, pu, r, paired
  <2> HIDE DEF t
  <2> QED BY <1>5, <1>9, <2>1, <2>2 DEF t
<1> QED BY <1>6, <1>7, <1>8, <1>9

LEMMA OneLinkExtends ==
    ASSUME NEW s, Collects(s), NEW k
    PROVE  Extends([s EXCEPT !.links = Append(@, k)], s)
<1>1. Append(s.links, k) = s.links \o <<k>> /\ IsTuple(<<k>>)
  <2>1. s.links \in Seq({s.links[i] : i \in DOMAIN s.links})
    BY TupleIsSeq DEF Collects
  <2>2. Append(s.links, k) = s.links \o <<k>>
    <3> DEFINE S == {s.links[i] : i \in DOMAIN s.links}
    <3>1. s.links \in Seq(S \cup {k}) /\ k \in S \cup {k}
      BY <2>1
    <3> HIDE DEF S
    <3> QED BY <3>1, AppendIsConcat
  <2> QED BY <2>2, ShortTuples
<1>2. [s EXCEPT !.links = Append(@, k)] = [s EXCEPT !.links = @ \o <<k>>]
  BY <1>1
<1> QED BY <1>1, <1>2, AddedExtends

LEMMA SetupsExtend ==
    ASSUME NEW s, Collects(s), NEW words
    PROVE  /\ RedirectWords(words) => Extends(NatdOptions!SetupPortRedirect(s, words), s)
           /\ Len(words) \in Nat => /\ Extends(NatdOptions!SetupProtoRedirect(s, words), s)
                                    /\ Extends(NatdOptions!SetupAddressRedirect(s, words), s)
<1>1. RedirectWords(words) => Extends(NatdOptions!SetupPortRedirect(s, words), s)
  <2> DEFINE t == NatdOptions!SetupPortRedirect(s, words)
  <2> SUFFICES ASSUME RedirectWords(words) PROVE Extends(t, s)
    OBVIOUS
  <2>1. Collects(t) /\ \E x : /\ IsTuple(x) /\ t.links = s.links \o x
                              /\ t.ok /\ NatdOptions!AllInRange(words) => NatdOptions!Leads(x, words)
    BY SetupLeads
  <2> HIDE DEF t
  <2> QED BY <2>1 DEF Extends
<1>2. Extends(NatdOptions!SetupProtoRedirect(s, words), s)
  <2>1. CASE Len(words) < 2
    <3>1. NatdOptions!SetupProtoRedirect(s, words) = NatdOptions!Refused(s)
      BY <2>1 DEF NatdOptions!SetupProtoRedirect
    <3> QED BY <3>1, RefusedExtends
  <2>2. CASE ~(Len(words) < 2)
    <3>1. PICK k : NatdOptions!SetupProtoRedirect(s, words) = [s EXCEPT !.links = Append(@, k)]
      BY <2>2 DEF NatdOptions!SetupProtoRedirect
    <3> QED BY <3>1, OneLinkExtends
  <2> QED BY <2>1, <2>2
<1>3. ASSUME Len(words) \in Nat PROVE Extends(NatdOptions!SetupAddressRedirect(s, words), s)
  <2>1. CASE Len(words) < 2
    <3>1. NatdOptions!SetupAddressRedirect(s, words) = NatdOptions!Refused(s)
      BY <1>3, <2>1 DEF NatdOptions!SetupAddressRedirect
    <3> QED BY <3>1, RefusedExtends
  <2>2. CASE ~(Len(words) < 2)
    <3>1. PICK k : NatdOptions!SetupAddressRedirect(s, words) = [s EXCEPT !.links = Append(@, k)]
      <4>1. Len(words) >= 2
        BY <1>3, <2>2
      <4>2. CASE words[1][1] = "pool"
        BY <2>2, <4>1, <4>2 DEF NatdOptions!SetupAddressRedirect
      <4>3. CASE words[1][1] # "pool"
        BY <2>2, <4>1, <4>3 DEF NatdOptions!SetupAddressRedirect
      <4> QED BY <4>2, <4>3
    <3> QED BY <3>1, OneLinkExtends
  <2> QED BY <2>1, <2>2
<1> QED BY <1>1, <1>2, <1>3

\* The words of an option are some number of words; those of a redirection of ports are
\* such as SetupPortRedirect() reads.
OptionWords(o) ==
    /\ Len(o[2]) \in Nat
    /\ o[1] = "redirect_port" => RedirectWords(o[2])

LEMMA FieldExtends ==
    ASSUME NEW s, Collects(s), NEW f \in {"mode", "verbose", "dynamic", "log_denied", "inPort", "outPort", "inOutPort",
                                          "alias_address", "target_address", "interface"}, NEW v
    PROVE  Extends(NatdOptions!SetField(s, f, v), s)
<1> DEFINE t == NatdOptions!SetField(s, f, v)
<1>1. Collects(t) /\ t.links = s.links
  BY FieldKeeps DEF NatdOptions!SetField
<1> HIDE DEF t
<1>2. t.links = s.links \o <<>> /\ IsTuple(<<>>)
  BY <1>1, JoinedNothing, ShortTuples DEF Collects
<1> QED BY <1>1, <1>2 DEF Extends, t

LEMMA PlainExtends ==
    ASSUME NEW s, Collects(s), NEW option, NEW words, Len(words) \in Nat,
           option = "redirect_port" => RedirectWords(words)
    PROVE  /\ Extends(NatdOptions!Plain(s, option, words), s)
           /\ option = "redirect_port" =>
                \/ NatdOptions!Plain(s, option, words) = NatdOptions!SetupPortRedirect(s, words)
                \/ NatdOptions!Plain(s, option, words) = NatdOptions!Refused(s)
<1> DEFINE t == NatdOptions!Plain(s, option, words)
           two == option = "redirect_port" => t = NatdOptions!SetupPortRedirect(s, words) \/ t = NatdOptions!Refused(s)
<1> USE DEF NatdOptions!Modes
<1>1. CASE option \in NatdOptions!Modes
  <2>1. t = NatdOptions!Refused(s) \/ \E v : t = NatdOptions!SetField(s, "mode", v)
    <3>1. t = IF NatdOptions!YesNo(words) THEN NatdOptions!SetMode(s, option, NatdOptions!Yes(words))
              ELSE NatdOptions!Refused(s)
      BY <1>1 DEF NatdOptions!Plain, NatdOptions!Services
    <3>2. \E v : NatdOptions!SetMode(s, option, NatdOptions!Yes(words)) = NatdOptions!SetField(s, "mode", v)
      BY DEF NatdOptions!SetMode, NatdOptions!SetField
    <3> HIDE DEF t
    <3> QED BY <3>1, <3>2
  <2> HIDE DEF t
  <2>2. Extends(t, s)
    BY <2>1, RefusedExtends, FieldExtends
  <2> QED BY <1>1, <2>2 DEF t
<1>2. CASE option \in {"verbose", "dynamic", "log_denied"}
  <2>1. \/ t = NatdOptions!Refused(s)
        \/ t = NatdOptions!SetField(s, option, NatdOptions!Yes(words)) \/ t = NatdOptions!SetField(s, option, TRUE)
    <3>1. CASE option \in {"verbose", "dynamic"}
      BY <3>1 DEF NatdOptions!Plain, NatdOptions!Services
    <3>2. CASE option = "log_denied"
      BY <3>2 DEF NatdOptions!Plain, NatdOptions!Services
    <3> QED BY <1>2, <3>1, <3>2
  <2> HIDE DEF t
  <2>2. Extends(t, s)
    <3>1. \A v : Extends(NatdOptions!SetField(s, option, v), s)
      BY <1>2, FieldExtends
    <3> QED BY <2>1, <3>1, RefusedExtends
  <2> QED BY <1>2, <2>2 DEF t
<1>3. CASE words # <<>> /\ option \in {"in_port", "out_port", "port"}
  <2>1. DOMAIN NatdOptions!Services = {"in_port", "out_port", "port"}
    BY DEF NatdOptions!Services
  <2>2. t = NatdOptions!SetField(s, NatdOptions!Services[option], NatdOptions!StrToPort(words[1]))
    BY <1>3, <2>1 DEF NatdOptions!Plain
  <2>3. NatdOptions!Services[option] \in {"inPort", "outPort", "inOutPort"}
    BY <1>3 DEF NatdOptions!Services
  <2>4. \E f \in {"inPort", "outPort", "inOutPort"} : \E v : t = NatdOptions!SetField(s, f, v)
    BY <2>2, <2>3
  <2> HIDE DEF t
  <2>5. Extends(t, s)
    BY <2>4, FieldExtends
  <2> QED BY <1>3, <2>5 DEF t
<1>4. CASE words # <<>> /\ option \in {"alias_address", "target_address", "interface"}
  <2>1. \E v : t = NatdOptions!SetField(s, option, v)
    BY <1>4 DEF NatdOptions!Plain, NatdOptions!Services
  <2> HIDE DEF t
  <2>2. Extends(t, s)
    BY <1>4, <2>1, FieldExtends
  <2> QED BY <1>4, <2>2 DEF t
<1>5. CASE words # <<>> /\ option = "redirect_port"
  <2>1. t = NatdOptions!SetupPortRedirect(s, words)
    BY <1>5 DEF NatdOptions!Plain, NatdOptions!Services
  <2> HIDE DEF t
  <2> QED BY <1>5, <2>1, SetupsExtend DEF t
<1>6. CASE words # <<>> /\ option = "redirect_proto"
  <2>1. t = NatdOptions!SetupProtoRedirect(s, words)
    BY <1>6 DEF NatdOptions!Plain, NatdOptions!Services
  <2> HIDE DEF t
  <2> QED BY <1>6, <2>1, SetupsExtend DEF t
<1>7. CASE words # <<>> /\ option = "redirect_address"
  <2>1. t = NatdOptions!SetupAddressRedirect(s, words)
    BY <1>7 DEF NatdOptions!Plain, NatdOptions!Services
  <2> HIDE DEF t
  <2> QED BY <1>7, <2>1, SetupsExtend DEF t
<1>8. ASSUME option \notin NatdOptions!Modes, option \notin {"verbose", "dynamic", "log_denied"},
             ~(words # <<>> /\ option \in {"in_port", "out_port", "port"}),
             ~(words # <<>> /\ option \in {"alias_address", "target_address", "interface"}),
             ~(words # <<>> /\ option \in {"redirect_port", "redirect_proto", "redirect_address"})
      PROVE  Extends(t, s) /\ t = NatdOptions!Refused(s)
  <2>1. t = NatdOptions!Refused(s)
    BY <1>8 DEF NatdOptions!Plain, NatdOptions!Services
  <2> HIDE DEF t
  <2> QED BY <2>1, RefusedExtends
<1> HIDE DEF t
<1> QED BY <1>1, <1>2, <1>3, <1>4, <1>5, <1>6, <1>7, <1>8 DEF t

LEMMA ExtendsTwice ==
    ASSUME NEW s, NEW t, NEW u, Collects(s), Extends(t, s), Extends(u, t)
    PROVE  Extends(u, s)
<1>1. PICK x : IsTuple(x) /\ t.links = s.links \o x
  BY DEF Extends
<1>2. PICK y : IsTuple(y) /\ u.links = t.links \o y
  BY DEF Extends
<1> DEFINE a == s.links
           S == {a[i] : i \in DOMAIN a} \cup {x[i] : i \in DOMAIN x} \cup {y[i] : i \in DOMAIN y}
<1>3. a \in Seq(S) /\ x \in Seq(S) /\ y \in Seq(S)
  <2>1. /\ a \in Seq({a[i] : i \in DOMAIN a}) /\ x \in Seq({x[i] : i \in DOMAIN x})
        /\ y \in Seq({y[i] : i \in DOMAIN y})
    BY <1>1, <1>2, TupleIsSeq DEF Collects
  <2> QED BY <2>1
<1> HIDE DEF S
<1> HIDE DEF a
<1>4. (a \o x) \o y = a \o (x \o y)
  <2> SUFFICES ASSUME NEW T, a \in Seq(T), x \in Seq(T), y \in Seq(T) PROVE (a \o x) \o y = a \o (x \o y)
    BY <1>3
  <2> QED BY ConcatAssociative
<1>5. IsTuple(x \o y)
  BY <1>1, <1>2, Joined
<1> QED BY <1>1, <1>2, <1>4, <1>5 DEF Extends, a

FileLines(s, options, g) ==
    g = [n \in 0..Len(options) |-> IF n = 0 THEN s ELSE NatdOptions!AfterLine(g[n - 1], options[n])]

LEMMA LinesOfFile ==
    ASSUME NEW s, NEW options, Len(options) \in Nat
    PROVE  \E g : FileLines(s, options, g)
<1> DEFINE N == Len(options)
           F(n, g) == [i \in 0..n |-> IF i = 0 THEN s ELSE NatdOptions!AfterLine(g[i - 1], options[i])]
           G == {n \in 0..N : \E g : g = F(n, g)}
<1>1. 0 \in G
  <2> DEFINE g == [i \in 0..0 |-> s]
  <2>1. g = F(0, g)
    OBVIOUS
  <2> HIDE DEF g, F
  <2> QED BY <2>1
<1>2. ASSUME NEW n \in 1..N, n - 1 \in G PROVE n \in G
  <2>1. PICK g : g = F(n - 1, g)
    BY <1>2
  <2>2. \A i \in 0..(n - 1) : g[i] = IF i = 0 THEN s ELSE NatdOptions!AfterLine(g[i - 1], options[i])
    BY <2>1
  <2> DEFINE h == [i \in 0..n |-> IF i = n THEN NatdOptions!AfterLine(g[n - 1], options[n]) ELSE g[i]]
  <2>3. ASSUME NEW i \in 0..n
        PROVE  h[i] = IF i = 0 THEN s ELSE NatdOptions!AfterLine(h[i - 1], options[i])
    <3>1. CASE i = n
      BY <3>1
    <3>2. CASE i # n
      BY <2>2, <3>2
    <3> QED BY <3>1, <3>2
  <2>4. h = F(n, h)
    <3>1. DOMAIN h = DOMAIN F(n, h) /\ \A i \in DOMAIN h : h[i] = F(n, h)[i]
      BY <2>3
    <3> QED BY <3>1
  <2> HIDE DEF h, F
  <2> QED BY <2>4
<1>3. \A n \in 0..N : n \in G
  <2> HIDE DEF G
  <2> QED BY <1>1, <1>2, InductionUpTo
<1>4. PICK g : g = F(N, g)
  BY <1>3
<1> QED BY <1>4 DEF FileLines

LEMMA ArgumentsRead ==
    ASSUME NEW options, Len(options) \in Nat
    PROVE  \E g : g = [n \in 0..Len(options) |-> IF n = 0 THEN NatdOptions!Default ELSE NatdOptions!AfterArgument(g[n - 1], options[n])]
<1> DEFINE N == Len(options)
           F(n, g) == [i \in 0..n |-> IF i = 0 THEN NatdOptions!Default ELSE NatdOptions!AfterArgument(g[i - 1], options[i])]
           G == {n \in 0..N : \E g : g = F(n, g)}
<1>1. 0 \in G
  <2> DEFINE g == [i \in 0..0 |-> NatdOptions!Default]
  <2>1. g = F(0, g)
    OBVIOUS
  <2> HIDE DEF g, F
  <2> QED BY <2>1
<1>2. ASSUME NEW n \in 1..N, n - 1 \in G PROVE n \in G
  <2>1. PICK g : g = F(n - 1, g)
    BY <1>2
  <2>2. \A i \in 0..(n - 1) : g[i] = IF i = 0 THEN NatdOptions!Default ELSE NatdOptions!AfterArgument(g[i - 1], options[i])
    BY <2>1
  <2> DEFINE h == [i \in 0..n |-> IF i = n THEN NatdOptions!AfterArgument(g[n - 1], options[n]) ELSE g[i]]
  <2>3. ASSUME NEW i \in 0..n
        PROVE  h[i] = IF i = 0 THEN NatdOptions!Default ELSE NatdOptions!AfterArgument(h[i - 1], options[i])
    <3>1. CASE i = n
      BY <3>1
    <3>2. CASE i # n
      BY <2>2, <3>2
    <3> QED BY <3>1, <3>2
  <2>4. h = F(n, h)
    <3>1. DOMAIN h = DOMAIN F(n, h) /\ \A i \in DOMAIN h : h[i] = F(n, h)[i]
      BY <2>3
    <3> QED BY <3>1
  <2> HIDE DEF h, F
  <2> QED BY <2>4
<1>3. \A n \in 0..N : n \in G
  <2> HIDE DEF G
  <2> QED BY <1>1, <1>2, InductionUpTo
<1> QED BY <1>3

LEMMA LineExtends ==
    ASSUME NEW s, Collects(s), NEW o, OptionWords(o)
    PROVE  Extends(NatdOptions!AfterLine(s, o), s)
<1>1. CASE s.ok
  <2>1. NatdOptions!AfterLine(s, o) = NatdOptions!Plain(s, o[1], o[2])
    BY <1>1 DEF NatdOptions!AfterLine
  <2> QED BY <2>1, PlainExtends DEF OptionWords
<1>2. CASE ~s.ok
  <2>1. NatdOptions!AfterLine(s, o) = s
    BY <1>2 DEF NatdOptions!AfterLine
  <2> QED BY <2>1, RefusedExtends
<1> QED BY <1>1, <1>2

LEMMA FileExtends ==
    ASSUME NEW s, Collects(s), NEW options, Len(options) \in Nat,
           \A n \in 1..Len(options) : OptionWords(options[n])
    PROVE  Extends(NatdOptions!PlainFrom(s, options), s)
<1> DEFINE N == Len(options)
           g == CHOOSE f : FileLines(s, options, f)
           G == {n \in 0..N : Extends(g[n], s)}
<1>1. g = [n \in 0..N |-> IF n = 0 THEN s ELSE NatdOptions!AfterLine(g[n - 1], options[n])]
  <2>1. FileLines(s, options, g)
    BY LinesOfFile
  <2> QED BY <2>1 DEF FileLines
<1>2. NatdOptions!PlainFrom(s, options) = g[N]
  BY DEF NatdOptions!PlainFrom, FileLines
<1> HIDE DEF g
<1>3. \A n \in 0..N : g[n] = IF n = 0 THEN s ELSE NatdOptions!AfterLine(g[n - 1], options[n])
  BY <1>1
<1>4. 0 \in G
  <2>1. g[0] = s
    BY <1>3
  <2> QED BY <2>1, RefusedExtends
<1>5. ASSUME NEW n \in 1..N, n - 1 \in G PROVE n \in G
  <2>1. n \in 0..N /\ g[n] = NatdOptions!AfterLine(g[n - 1], options[n])
    BY <1>3
  <2>2. Extends(g[n - 1], s) /\ Collects(g[n - 1])
    BY <1>5 DEF Extends
  <2>3. Extends(g[n], g[n - 1])
    BY <2>1, <2>2, LineExtends
  <2> QED BY <2>1, <2>2, <2>3, ExtendsTwice
<1>6. \A n \in 0..N : n \in G
  <2> HIDE DEF G, N
  <2> QED BY <1>4, <1>5, InductionUpTo DEF N
<1> QED BY <1>2, <1>6

LEMMA LineOptions ==
    ASSUME NEW options, NatdOptions!CommandLine(options)
    PROVE  /\ IsTuple(options) /\ Len(options) \in Nat /\ DOMAIN options = 1..Len(options)
           /\ \A n \in 1..Len(options) : OptionWords(options[n])
<1>1. Len(options) \in Nat /\ options = [i \in 1..Len(options) |-> options[i]]
  BY DEF NatdOptions!CommandLine, NatdOptions!Tuple
<1>2. DOMAIN options = 1..Len(options)
  BY <1>1
<1>3. IsTuple(options)
  BY <1>1, <1>2 DEF IsTuple
<1>4. ASSUME NEW n \in 1..Len(options)
      PROVE  OptionWords(options[n])
  <2> DEFINE w == options[n][2]
  <2>1. /\ Len(w) \in Nat /\ w = [i \in 1..Len(w) |-> w[i]]
        /\ options[n][1] = "redirect_port" => \A i \in 2..Len(w) : NatdOptions!RedirectWord(w[i])
    BY <1>2 DEF NatdOptions!CommandLine, NatdOptions!Tuple
  <2> HIDE DEF w
  <2>2. DOMAIN w = 1..Len(w)
    BY <2>1
  <2>3. IsTuple(w)
    BY <2>1, <2>2 DEF IsTuple
  <2> QED BY <2>1, <2>3 DEF OptionWords, RedirectWords, w
<1> QED BY <1>1, <1>2, <1>3, <1>4

\* An argument adds links, and one that redirects ports those that were asked for.
LEMMA ArgumentExtends ==
    ASSUME NEW s, Collects(s), NEW o, OptionWords(o)
    PROVE  LET t == NatdOptions!AfterArgument(s, o)
           IN  /\ Extends(t, s) /\ (~s.ok => t = s)
               /\ o[1] = "redirect_port" =>
                    \E x : /\ IsTuple(x) /\ t.links = s.links \o x
                           /\ t.ok /\ NatdOptions!AllInRange(o[2]) => NatdOptions!Leads(x, o[2])
<1> DEFINE t == NatdOptions!AfterArgument(s, o)
           f == NatdOptions!ReadConfigFile(s, o[2][1])
           q == NatdOptions!Plain(s, o[1], o[2])
<1>1. CASE ~s.ok
  <2>1. t = s
    BY <1>1 DEF NatdOptions!AfterArgument
  <2> HIDE DEF t
  <2>2. Extends(t, s) /\ t.links = s.links \o <<>> /\ IsTuple(<<>>) /\ ~t.ok
    BY <1>1, <2>1, RefusedExtends, JoinedNothing, ShortTuples DEF Collects
  <2> QED BY <2>1, <2>2 DEF t
<1>2. CASE s.ok /\ o[1] = "config" /\ o[2] # <<>>
  <2>1. t = f
    BY <1>2 DEF NatdOptions!AfterArgument, NatdOptions!ParseOption
  <2>2. Extends(f, s)
    <3>1. CASE o[2][1] \in DOMAIN NatdFiles
      <4>1. f = NatdOptions!PlainFrom(s, NatdFiles[o[2][1]])
        BY <3>1 DEF NatdOptions!ReadConfigFile
      <4>2. NatdOptions!CommandLine(NatdFiles[o[2][1]])
        BY <3>1, NatdCommandLines
      <4> QED BY <4>1, <4>2, LineOptions, FileExtends
    <3>2. CASE o[2][1] \notin DOMAIN NatdFiles
      <4>1. f = NatdOptions!Refused(s)
        BY <3>2 DEF NatdOptions!ReadConfigFile
      <4> QED BY <4>1, RefusedExtends
    <3> QED BY <3>1, <3>2
  <2> HIDE DEF t, f
  <2> QED BY <1>2, <2>1, <2>2 DEF t
<1>3. CASE s.ok /\ ~(o[1] = "config" /\ o[2] # <<>>)
  <2>1. t = q
    BY <1>3 DEF NatdOptions!AfterArgument, NatdOptions!ParseOption
  <2>2. Extends(q, s)
    BY PlainExtends DEF OptionWords
  <2>3. ASSUME o[1] = "redirect_port"
        PROVE  \E x : /\ IsTuple(x) /\ q.links = s.links \o x
                      /\ q.ok /\ NatdOptions!AllInRange(o[2]) => NatdOptions!Leads(x, o[2])
    <3>1. RedirectWords(o[2])
      BY <2>3 DEF OptionWords
    <3>2. q = NatdOptions!SetupPortRedirect(s, o[2]) \/ q = NatdOptions!Refused(s)
      BY <2>3, PlainExtends DEF OptionWords
    <3> HIDE DEF q
    <3>3. CASE q = NatdOptions!SetupPortRedirect(s, o[2])
      BY <3>1, <3>3, SetupLeads
    <3>4. CASE q = NatdOptions!Refused(s)
      <4>1. q.links = s.links \o <<>> /\ IsTuple(<<>>) /\ ~q.ok
        BY <3>4, RefusedKeeps, JoinedNothing, ShortTuples DEF Collects
      <4> QED BY <4>1
    <3> QED BY <3>2, <3>3, <3>4
  <2> HIDE DEF t, q
  <2> QED BY <1>3, <2>1, <2>2, <2>3 DEF t
<1> QED BY <1>1, <1>2, <1>3

\* What is taken out of the middle
LEMMA MiddleOf ==
    ASSUME NEW a, NEW x, NEW y, IsTuple(a), IsTuple(x), IsTuple(y)
    PROVE  SubSeq((a \o x) \o y, Len(a) + 1, Len(a \o x)) = x
<1> DEFINE b == a \o x
           c == b \o y
           d == SubSeq(c, Len(a) + 1, Len(b))
           S == {c[i] : i \in DOMAIN c}
<1>1. /\ IsTuple(b) /\ Len(a) \in Nat /\ Len(x) \in Nat /\ Len(b) = Len(a) + Len(x) /\ Len(b) \in Nat
      /\ \A i \in 1..Len(x) : b[Len(a) + i] = x[i]
  BY Joined
<1> HIDE DEF b
<1>2. /\ IsTuple(c) /\ Len(y) \in Nat /\ Len(c) = Len(b) + Len(y)
      /\ \A i \in 1..Len(b) : c[i] = b[i]
  BY <1>1, Joined
<1>3. c \in Seq(S)
  <2> HIDE DEF c
  <2> QED BY <1>2, TupleIsSeq
<1> HIDE DEF c, S
<1>4. /\ d \in Seq(S) /\ Len(d) = Len(x)
      /\ \A i \in 1..Len(x) : d[i] = c[Len(a) + i]
  <2> DEFINE m == Len(a) + 1
             n == Len(b)
  <2>1. m \in Int /\ n \in Int /\ \A i \in m..n : i \in 1..Len(c)
    BY <1>1, <1>2
  <2>2. \A i \in m..n : c[i] \in S
    <3>1. DOMAIN c = 1..Len(c)
      BY <1>3
    <3> QED BY <2>1, <3>1 DEF S
  <2> HIDE DEF m, n
  <2>3. /\ d \in Seq(S) /\ Len(d) = IF m <= n THEN n - m + 1 ELSE 0
        /\ \A i \in 1..(n - m + 1) : d[i] = c[m + i - 1]
    BY <2>1, <2>2, SubSeqProperties DEF m, n
  <2>4. n - m + 1 = Len(x) /\ (~(m <= n) => Len(x) = 0)
    BY <1>1 DEF m, n
  <2>5. \A i \in 1..Len(x) : m + i - 1 = Len(a) + i
    BY <1>1 DEF m
  <2> QED BY <2>3, <2>4, <2>5
<1> HIDE DEF d
<1>5. IsTuple(d) /\ DOMAIN d = 1..Len(x) /\ DOMAIN x = 1..Len(x)
  BY <1>4, TupleIsSeq, Appended
<1>6. \A i \in 1..Len(x) : Len(a) + i \in 1..Len(b)
  BY <1>1
<1>7. \A i \in DOMAIN d : d[i] = x[i]
  BY <1>1, <1>2, <1>4, <1>5, <1>6
<1>8. d = x
  BY <1>5, <1>7, SameTuple
<1> QED BY <1>8 DEF b, c, d

\* What is known after each of the arguments
Reading(g, options) ==
    /\ \A n \in 0..Len(options) : Collects(g[n])
    /\ \A n \in 1..Len(options) : Extends(g[Len(options)], g[n]) /\ (g[Len(options)].ok => g[n].ok)
    /\ \A n \in 1..Len(options) : options[n][1] = "redirect_port" =>
            \E x : /\ IsTuple(x) /\ g[n].links = g[n - 1].links \o x
                   /\ g[n].ok /\ NatdOptions!AllInRange(options[n][2]) => NatdOptions!Leads(x, options[n][2])

LEMMA OptionsRead ==
    ASSUME NEW options, NatdOptions!CommandLine(options)
    PROVE  Reading(NatdOptions!ParseArgs(options), options)
<1> DEFINE N == Len(options)
           g == NatdOptions!ParseArgs(options)
<1>1. N \in Nat /\ \A n \in 1..N : OptionWords(options[n])
  BY LineOptions
<1>2. g = [n \in 0..N |-> IF n = 0 THEN NatdOptions!Default ELSE NatdOptions!AfterArgument(g[n - 1], options[n])]
  <2> DEFINE c == CHOOSE f : f = [n \in 0..N |-> IF n = 0 THEN NatdOptions!Default
                                                   ELSE NatdOptions!AfterArgument(f[n - 1], options[n])]
  <2>1. c = [n \in 0..N |-> IF n = 0 THEN NatdOptions!Default ELSE NatdOptions!AfterArgument(c[n - 1], options[n])]
    <3> HIDE DEF c
    <3> QED BY <1>1, ArgumentsRead DEF c
  <2>2. g = c
    BY DEF NatdOptions!ParseArgs
  <2> HIDE DEF c, g
  <2> QED BY <2>1, <2>2
<1> HIDE DEF g
<1>3. \A n \in 0..N : g[n] = IF n = 0 THEN NatdOptions!Default ELSE NatdOptions!AfterArgument(g[n - 1], options[n])
  BY <1>2
<1>4. \A n \in 0..N : Collects(g[n])
  <2> DEFINE G == {n \in 0..N : Collects(g[n])}
  <2>1. 0 \in G
    <3>1. g[0] = NatdOptions!Default
      BY <1>1, <1>3
    <3>2. Collects(NatdOptions!Default)
      BY ShortTuples DEF Collects, NatdOptions!Default
    <3> QED BY <1>1, <3>1, <3>2
  <2>2. ASSUME NEW n \in 1..N, n - 1 \in G PROVE n \in G
    <3>1. n \in 0..N /\ g[n] = NatdOptions!AfterArgument(g[n - 1], options[n])
      BY <1>1, <1>3
    <3>2. Extends(g[n], g[n - 1])
      BY <1>1, <2>2, <3>1, ArgumentExtends
    <3> QED BY <3>1, <3>2 DEF Extends
  <2> HIDE DEF G, N
  <2>3. \A n \in 0..N : n \in G
    BY <1>1, <2>1, <2>2, InductionUpTo
  <2> QED BY <2>3 DEF G
<1>5. ASSUME NEW n \in 1..N
      PROVE  /\ Extends(g[n], g[n - 1]) /\ (~g[n - 1].ok => g[n] = g[n - 1])
             /\ options[n][1] = "redirect_port" =>
                  \E x : /\ IsTuple(x) /\ g[n].links = g[n - 1].links \o x
                         /\ g[n].ok /\ NatdOptions!AllInRange(options[n][2]) => NatdOptions!Leads(x, options[n][2])
  <2>1. g[n] = NatdOptions!AfterArgument(g[n - 1], options[n]) /\ Collects(g[n - 1]) /\ OptionWords(options[n])
    BY <1>1, <1>3, <1>4
  <2> DEFINE s == g[n - 1]
             o == options[n]
             t == NatdOptions!AfterArgument(s, o)
  <2>2. /\ Extends(t, s) /\ (~s.ok => t = s)
        /\ o[1] = "redirect_port" =>
             \E x : /\ IsTuple(x) /\ t.links = s.links \o x
                    /\ t.ok /\ NatdOptions!AllInRange(o[2]) => NatdOptions!Leads(x, o[2])
    <3>1. Collects(s) /\ OptionWords(o)
      BY <2>1
    <3> HIDE DEF s, o
    <3> QED BY <3>1, ArgumentExtends
  <2>3. g[n] = t
    BY <2>1
  <2> HIDE DEF t
  <2> QED BY <2>2, <2>3
<1>6. ASSUME NEW n \in 1..N
      PROVE  Extends(g[N], g[n]) /\ (g[N].ok => g[n].ok)
  <2> DEFINE G == {k \in 0..(N - n) : Extends(g[n + k], g[n]) /\ (~g[n].ok => g[n + k] = g[n])}
  <2>1. 0 \in G
    <3>1. n + 0 = n /\ n \in 0..N /\ 0 \in 0..(N - n)
      BY <1>1
    <3>2. Extends(g[n], g[n])
      BY <1>4, <3>1, RefusedExtends
    <3> QED BY <3>1, <3>2
  <2>2. ASSUME NEW k \in 1..(N - n), k - 1 \in G PROVE k \in G
    <3>1. k \in 0..(N - n) /\ n + k \in 1..N /\ (n + k) - 1 = n + (k - 1) /\ n \in 0..N
      BY <1>1
    <3>2. Extends(g[n + (k - 1)], g[n]) /\ (~g[n].ok => g[n + (k - 1)] = g[n])
      BY <2>2
    <3>3. Extends(g[n + k], g[n + (k - 1)]) /\ (~g[n + (k - 1)].ok => g[n + k] = g[n + (k - 1)])
      BY <1>5, <3>1
    <3>4. Extends(g[n + k], g[n])
      BY <1>4, <3>1, <3>2, <3>3, ExtendsTwice
    <3>5. ~g[n].ok => g[n + k] = g[n]
      BY <3>2, <3>3
    <3> QED BY <3>1, <3>4, <3>5
  <2>3. N - n \in Nat /\ n + (N - n) = N
    BY <1>1
  <2>4. \A k \in 0..(N - n) : k \in G
    <3> HIDE DEF G, N
    <3> QED BY <2>1, <2>2, <2>3, InductionUpTo
  <2>5. N - n \in G
    BY <2>3, <2>4
  <2>6. Extends(g[N], g[n]) /\ (~g[n].ok => g[N] = g[n])
    BY <2>3, <2>5
  <2> QED BY <2>6
<1>7. \A n \in 1..N : options[n][1] = "redirect_port" =>
            \E x : /\ IsTuple(x) /\ g[n].links = g[n - 1].links \o x
                   /\ g[n].ok /\ NatdOptions!AllInRange(options[n][2]) => NatdOptions!Leads(x, options[n][2])
  BY <1>5
<1> QED BY <1>4, <1>6, <1>7 DEF Reading, g

LEMMA CheckedKeeps ==
    ASSUME NEW s, Collects(s), NatdOptions!Checked(s).ok
    PROVE  /\ s.ok /\ NatdOptions!Checked(s).links = s.links
           /\ NatdOptions!OneAddress(NatdOptions!Checked(s)) /\ NatdOptions!BothPorts(NatdOptions!Checked(s))
<1> DEFINE t == NatdOptions!Checked(s)
           right == s.ok /\ NatdOptions!OneAddress(s) /\ NatdOptions!BothPorts(s)
           none == s.inPort = 0 /\ s.outPort = 0 /\ s.inOutPort = 0
           u == [s EXCEPT !.inOutPort = NatdService]
<1>1. CASE ~right
  <2>1. t = NatdOptions!Refused(s)
    BY <1>1 DEF NatdOptions!Checked, NatdOptions!BothPorts
  <2> HIDE DEF t
  <2>2. ~t.ok
    BY <2>1, RefusedKeeps
  <2> QED BY <2>2 DEF t
<1>2. CASE right /\ none
  <2>1. t = u
    BY <1>2 DEF NatdOptions!Checked
  <2>2. u.links = s.links /\ u.interface = s.interface /\ u.alias_address = s.alias_address
        /\ u.inPort = s.inPort /\ u.outPort = s.outPort
    BY DEF Collects
  <2> HIDE DEF t, u
  <2>3. NatdOptions!OneAddress(t) /\ NatdOptions!BothPorts(t)
    BY <1>2, <2>1, <2>2 DEF NatdOptions!OneAddress, NatdOptions!BothPorts
  <2> QED BY <1>2, <2>1, <2>2, <2>3 DEF t
<1>3. CASE right /\ ~none
  <2>1. t = s
    BY <1>3 DEF NatdOptions!Checked
  <2> HIDE DEF t
  <2> QED BY <1>3, <2>1 DEF t
<1> QED BY <1>1, <1>2, <1>3

LEMMA NatdRedirects ==
    ASSUME NEW options, NatdOptions!CommandLine(options)
    PROVE  NatdOptions!Redirects(options)
<1> DEFINE N == Len(options)
           g == NatdOptions!ParseArgs(options)
           s == NatdOptions!Started(options)
<1>1. N \in Nat /\ DOMAIN options = 1..N /\ Reading(g, options)
  BY LineOptions, OptionsRead
<1>2. s = NatdOptions!Checked(g[N])
  BY DEF NatdOptions!Started
<1>3. Collects(g[N])
  BY <1>1 DEF Reading
<1> HIDE DEF g, s
<1>4. s.ok => /\ g[N].ok /\ s.links = g[N].links
              /\ NatdOptions!OneAddress(s) /\ NatdOptions!BothPorts(s)
  BY <1>2, <1>3, CheckedKeeps
<1>5. ASSUME s.ok, NEW n \in 1..N, options[n][1] = "redirect_port", NatdOptions!AllInRange(options[n][2])
      PROVE  NatdOptions!Leads(SubSeq(s.links, Len(g[n - 1].links) + 1, Len(g[n].links)), options[n][2])
  <2>1. PICK x : IsTuple(x) /\ g[n].links = g[n - 1].links \o x
                 /\ (g[n].ok /\ NatdOptions!AllInRange(options[n][2]) => NatdOptions!Leads(x, options[n][2]))
    BY <1>1, <1>5 DEF Reading
  <2>2. g[n].ok /\ Extends(g[N], g[n])
    BY <1>1, <1>4, <1>5 DEF Reading
  <2>3. PICK y : IsTuple(y) /\ g[N].links = g[n].links \o y
    BY <2>2 DEF Extends
  <2>4. IsTuple(g[n - 1].links)
    <3>1. n - 1 \in 0..N
      BY <1>1
    <3> QED BY <1>1, <3>1 DEF Reading, Collects
  <2>5. SubSeq(s.links, Len(g[n - 1].links) + 1, Len(g[n].links)) = x
    <3> DEFINE a == g[n - 1].links
    <3>1. s.links = (a \o x) \o y /\ g[n].links = a \o x
      BY <1>4, <1>5, <2>1, <2>3
    <3>2. SubSeq((a \o x) \o y, Len(a) + 1, Len(a \o x)) = x
      <4> HIDE DEF a
      <4> QED BY <2>1, <2>3, <2>4, MiddleOf DEF a
    <3> QED BY <3>1, <3>2
  <2> QED BY <1>5, <2>1, <2>2, <2>5
<1>6. NatdOptions!LeadsAsTyped(options)
  BY <1>1, <1>5 DEF NatdOptions!LeadsAsTyped, g, s
<1>7. NatdOptions!StartsWhole(options)
  BY <1>4 DEF NatdOptions!StartsWhole, s
<1> QED BY <1>6, <1>7 DEF NatdOptions!Redirects

-----------------------------------------------------------------------------
(* route: what is left of a flush *)

\* During a flush and behind it: the routes that are still to be looked at were all in the
\* table before, and are in it unless they are not to be flushed or another program was ahead.
FlushInv ==
    /\ dump \subseteq was /\ Route!IsTable(was)
    /\ others = [ahead |-> others.ahead, deleted |-> others.deleted, added |-> others.added]
    /\ others.ahead = {} => \A r \in dump : Route!ToFlush(r) => r \in table
    /\ others.ahead = {} => \A r \in (was \cap table) \ others.added : Route!ToFlush(r) => r \in dump
    /\ Route!OthersLeft

Flushing == pc \in {"flush", "done"} /\ Route!Current.cmd = "flush"

RouteInv ==
    /\ Route!IsTable(table)
    /\ pc = "flush" => Route!Current.cmd = "flush"
    /\ pc = "done" /\ Route!Current.cmd = "flush" => dump = {}
    /\ Flushing => FlushInv

\* A part of a table is one.
LEMMA TablePart ==
    ASSUME NEW t, NEW u \in SUBSET t, Route!IsTable(t)
    PROVE  Route!IsTable(u)
BY DEF Route!IsTable

\* A route of another key, or of the same instead of the one that was there
LEMMA TableWith ==
    ASSUME NEW t, NEW e, Route!IsTable(t), e = Route!With(e, e.gate),
           \A r \in t : ~(r.family = e.family /\ r.key = e.key)
    PROVE  Route!IsTable(t \cup {e})
BY DEF Route!IsTable

LEMMA ChangedIs ==
    ASSUME NEW r, r = Route!With(r, r.gate), NEW gates, NEW inits, NEW locks
    PROVE  LET c == Route!Changed(r, gates, inits, locks)
           IN  c = Route!With(c, c.gate) /\ c.family = r.family /\ c.key = r.key
<1> DEFINE set == {m[1] : m \in inits}
           g == IF gates = <<>> THEN r.gate ELSE gates[1]
           i == {m \in r.inits : m[1] \notin set} \cup inits
           l == (r.locks \ set) \cup (locks \cap set)
           c == [r EXCEPT !.gate = g, !.inits = i, !.locks = l]
<1>1. Route!Changed(r, gates, inits, locks) = c
  BY DEF Route!Changed
<1> HIDE DEF g, i, l
<1>2. c = [family |-> r.family, key |-> r.key, gate |-> g, flags |-> r.flags, inits |-> i, locks |-> l]
  <2>1. r = [family |-> r.family, key |-> r.key, gate |-> r.gate, flags |-> r.flags, inits |-> r.inits, locks |-> r.locks]
    BY DEF Route!With
  <2> DEFINE c1 == [r EXCEPT !.gate = g]
             c2 == [c1 EXCEPT !.inits = i]
  <2>2. c1 = [family |-> r.family, key |-> r.key, gate |-> g, flags |-> r.flags, inits |-> r.inits, locks |-> r.locks]
    BY <2>1
  <2>3. c2 = [family |-> r.family, key |-> r.key, gate |-> g, flags |-> r.flags, inits |-> i, locks |-> r.locks]
    <3> HIDE DEF c1
    <3> QED BY <2>2
  <2>4. [c2 EXCEPT !.locks = l] = [family |-> r.family, key |-> r.key, gate |-> g, flags |-> r.flags, inits |-> i, locks |-> l]
    <3> HIDE DEF c2
    <3> QED BY <2>3
  <2> QED BY <2>4
<1> HIDE DEF c
<1>3. c = Route!With(c, c.gate) /\ c.family = r.family /\ c.key = r.key
  BY <1>2 DEF Route!With
<1> QED BY <1>1, <1>3

\* What the kernel makes of a message leaves one route of a key.
LEMMA RequestedTable ==
    ASSUME NEW t, Route!IsTable(t), NEW cmd, NEW s, NEW gate
    PROVE  Route!IsTable(Route!Requested(t, cmd, s, gate))
<1> DEFINE old == Route!Same(t, Route!Key(s))
           e == Route!Entry(s, gate)
<1>1. CASE Route!Errno(t, cmd, s, gate) # "done"
  <2>1. Route!Requested(t, cmd, s, gate) = t
    BY <1>1 DEF Route!Requested
  <2> QED BY <2>1
<1>2. CASE Route!Errno(t, cmd, s, gate) = "done" /\ cmd = "add"
  <2>1. old = {}
    BY <1>2 DEF Route!Errno
  <2>2. e = Route!With(e, e.gate) /\ e.family = "inet" /\ e.key = Route!Key(s)
    BY DEF Route!Entry, Route!With
  <2>3. \A r \in t : ~(r.family = e.family /\ r.key = e.key)
    BY <2>1, <2>2 DEF Route!Same
  <2>4. Route!IsTable(t \cup {e})
    <3> HIDE DEF e
    <3> QED BY <2>2, <2>3, TableWith
  <2> QED BY <1>2, <2>4 DEF Route!Requested
<1>3. CASE Route!Errno(t, cmd, s, gate) = "done" /\ cmd = "delete"
  <2>1. Route!Requested(t, cmd, s, gate) = t \ old
    BY <1>3 DEF Route!Requested
  <2> QED BY <2>1, TablePart
<1>4. CASE Route!Errno(t, cmd, s, gate) = "done" /\ cmd \notin {"add", "delete"}
  <2> DEFINE gates == IF "gateway" \in s.addrs THEN <<gate>> ELSE <<>>
             C(r) == Route!Changed(r, gates, s.inits, s.locks)
  <2>1. Route!Requested(t, cmd, s, gate) = (t \ old) \cup {C(r) : r \in old}
    BY <1>4 DEF Route!Requested
  <2>2. \A r \in old : C(r) = Route!With(C(r), C(r).gate) /\ C(r).family = r.family /\ C(r).key = r.key
    BY ChangedIs DEF Route!Same, Route!IsTable
  <2>3. \A r, q \in old : r = q
    BY DEF Route!Same, Route!IsTable
  <2>4. \A r \in old, q \in t \ old : ~(r.family = q.family /\ r.key = q.key)
    BY DEF Route!Same
  <2> HIDE DEF old, C
  <2> QED BY <2>1, <2>2, <2>3, <2>4 DEF Route!IsTable
<1> QED BY <1>1, <1>2, <1>3, <1>4

LEMMA NewRouteKeeps == RouteInv /\ Route!NewRoute => RouteInv'
<1> SUFFICES ASSUME RouteInv, Route!NewRoute PROVE RouteInv'
  OBVIOUS
<1>1. Route!IsTable(table')
  BY RequestedTable DEF RouteInv, Route!NewRoute
<1>2. ~Flushing' /\ pc' = "done" /\ Route!Current' = Route!Current /\ Route!Current.cmd # "flush"
  BY DEF Route!NewRoute, Flushing, Route!Current
<1> QED BY <1>1, <1>2 DEF RouteInv, Route!IsTable, Route!With

LEMMA FlushStarts == RouteInv /\ Route!FlushRoutes => RouteInv'
BY DEF RouteInv, Flushing, FlushInv, Route!FlushRoutes, Route!Untouched, Route!IsTable, Route!With, Route!OthersLeft,
   Route!ToFlush, Route!Current

\* A route of the list: it is not to be flushed, it is deleted with no other of the list, or it
\* is not there any more because another program was ahead.
LEMMA FlushOneKeeps == RouteInv /\ Route!FlushOne => RouteInv'
<1> SUFFICES ASSUME RouteInv, Route!FlushOne PROVE RouteInv'
  OBVIOUS
<1>1. pc = "flush" /\ pc' = "flush" /\ todo' = todo /\ was' = was /\ others' = others
  BY DEF Route!FlushOne
<1>2. Route!Current.cmd = "flush" /\ Route!Current' = Route!Current /\ FlushInv
  BY <1>1 DEF RouteInv, Flushing, Route!Current
<1>3. \A r : Route!ToFlush(r)' <=> Route!ToFlush(r)
  BY <1>2 DEF Route!ToFlush
<1>4. PICK r \in dump :
        IF ~Route!Flushed(r) THEN dump' = dump \ {r} /\ UNCHANGED table
        ELSE \E there \in {{q \in table : q.family = r.family /\ q.key = r.key}} :
                /\ table' = table \ there
                /\ dump' = IF there = {} THEN {} ELSE dump \ {r}
  BY DEF Route!FlushOne
<1>5. CASE ~Route!Flushed(r)
  <2>1. dump' = dump \ {r} /\ table' = table /\ ~Route!ToFlush(r)
    BY <1>4, <1>5 DEF Route!Flushed, Route!ToFlush
  <2>2. FlushInv'
    BY <1>1, <1>2, <1>3, <2>1 DEF FlushInv, Route!OthersLeft, Route!IsTable, Route!With
  <2> QED BY <1>1, <1>2, <2>1, <2>2 DEF RouteInv, Route!IsTable, Route!With
<1>6. CASE Route!Flushed(r)
  <2> DEFINE there == {q \in table : q.family = r.family /\ q.key = r.key}
  <2>1. table' = table \ there /\ dump' = IF there = {} THEN {} ELSE dump \ {r}
    BY <1>4, <1>6
  <2>2. Route!ToFlush(r) /\ r \in was
    BY <1>2, <1>6 DEF Route!Flushed, Route!ToFlush, FlushInv
  <2>3. \A q \in was : q \in there => q = r
    BY <1>2, <2>2 DEF FlushInv, Route!IsTable
  <2>4. others.ahead = {} => r \in there
    BY <1>2, <2>2 DEF FlushInv
  <2> HIDE DEF there
  <2>5. dump' \subseteq dump /\ r \notin table' /\ table' \subseteq table
    BY <2>1 DEF there
  <2>6. others.ahead = {} => dump' = dump \ {r}
    BY <2>1, <2>4
  <2>7. Route!OthersLeft'
    BY <1>1, <1>2, <1>3, <2>1, <2>2, <2>3 DEF FlushInv, Route!OthersLeft
  <2>8. others.ahead = {} => \A q \in dump' : Route!ToFlush(q) => q \in table'
    BY <1>2, <2>1, <2>3, <2>6 DEF FlushInv
  <2>9. others.ahead = {} => \A q \in (was \cap table') \ others.added : Route!ToFlush(q) => q \in dump'
    BY <1>2, <2>5, <2>6 DEF FlushInv
  <2>10. FlushInv'
    BY <1>1, <1>2, <1>3, <2>5, <2>7, <2>8, <2>9 DEF FlushInv, Route!IsTable, Route!With
  <2>11. Route!IsTable(table)'
    BY <2>5 DEF RouteInv, Route!IsTable, Route!With
  <2> QED BY <1>1, <1>2, <2>10, <2>11 DEF RouteInv
<1> QED BY <1>5, <1>6

\* Another program is ahead, or it is on record what it did.
LEMMA OtherKeeps ==
    ASSUME Route!RoutesAreUnique, RouteInv, Route!Other
    PROVE  RouteInv'
<1>1. pc = "flush" /\ pc' = "flush" /\ todo' = todo /\ was' = was /\ dump' = dump
  BY DEF Route!Other
<1>2. Route!Current.cmd = "flush" /\ Route!Current' = Route!Current /\ FlushInv
  BY <1>1 DEF RouteInv, Flushing, Route!Current
<1>3. \A r : Route!ToFlush(r)' <=> Route!ToFlush(r)
  BY <1>2 DEF Route!ToFlush
<1> DEFINE there(r) == Route!Same(table, r.key)
<1>4. PICK r \in RouteOthers :
        IF there(r) = {}
        THEN table' = table \cup {r} /\ others' = [others EXCEPT !.added = @ \cup {r}]
        ELSE /\ table' = table \ there(r)
             /\ others' = [others EXCEPT !.deleted = @ \cup there(r), !.ahead = @ \cup Route!Same(dump, r.key)]
  BY DEF Route!Other
<1> HIDE DEF there
<1>5. CASE there(r) = {}
  <2>1. /\ table' = table \cup {r} /\ others'.ahead = others.ahead /\ others'.deleted = others.deleted
        /\ others'.added = others.added \cup {r}
        /\ others' = [ahead |-> others'.ahead, deleted |-> others'.deleted, added |-> others'.added]
    BY <1>2, <1>4, <1>5 DEF FlushInv
  <2>2. r = Route!With(r, r.gate) /\ \A q \in table : ~(q.family = r.family /\ q.key = r.key)
    BY <1>5 DEF Route!RoutesAreUnique, Route!Same, there
  <2>3. Route!IsTable(table')
    BY <2>1, <2>2, TableWith DEF RouteInv
  <2>4. FlushInv'
    BY <1>1, <1>2, <1>3, <2>1 DEF FlushInv, Route!IsTable, Route!With, Route!OthersLeft
  <2> QED BY <1>1, <1>2, <2>3, <2>4 DEF RouteInv, Route!IsTable, Route!With
<1>6. CASE there(r) # {}
  <2> DEFINE first == Route!Same(dump, r.key)
  <2>1. /\ table' = table \ there(r) /\ others'.ahead = others.ahead \cup first
        /\ others'.deleted = others.deleted \cup there(r) /\ others'.added = others.added
        /\ others' = [ahead |-> others'.ahead, deleted |-> others'.deleted, added |-> others'.added]
    BY <1>2, <1>4, <1>6 DEF FlushInv
  <2>2. \A q \in dump : q \in there(r) => q \in first
    BY DEF Route!Same, there
  <2> HIDE DEF first
  <2>3. Route!IsTable(table')
    BY <2>1, TablePart DEF RouteInv
  <2>4. Route!OthersLeft'
    BY <1>1, <1>2, <1>3, <2>1 DEF FlushInv, Route!OthersLeft
  <2>5. others'.ahead = {} => others.ahead = {} /\ \A q \in dump : q \notin there(r)
    BY <2>1, <2>2
  <2>6. FlushInv'
    BY <1>1, <1>2, <1>3, <2>1, <2>4, <2>5 DEF FlushInv, Route!IsTable, Route!With
  <2> QED BY <1>1, <1>2, <2>3, <2>6 DEF RouteInv, Route!IsTable, Route!With
<1> QED BY <1>5, <1>6

LEMMA RouteStep ==
    ASSUME Route!RoutesAreUnique, RouteInv, [Route!Next]_(Route!vars)
    PROVE  RouteInv'
<1>1. CASE Route!FlushEnds
  <2>1. pc = "flush" /\ pc' = "done" /\ dump = {} /\ todo' = todo /\ UNCHANGED <<table, dump, was, others>>
    BY <1>1 DEF Route!FlushEnds
  <2> QED BY <2>1 DEF RouteInv, Flushing, FlushInv, Route!IsTable, Route!With, Route!OthersLeft, Route!ToFlush, Route!Current
<1>2. CASE Route!NextCommand
  <2>1. pc' = "main" /\ table' = table
    BY <1>2 DEF Route!NextCommand
  <2> QED BY <2>1 DEF RouteInv, Flushing, Route!IsTable, Route!With
<1>3. CASE UNCHANGED Route!vars
  <2>1. UNCHANGED <<pc, todo, table, dump, was, others>>
    BY <1>3 DEF Route!vars
  <2> QED BY <2>1 DEF RouteInv, Flushing, FlushInv, Route!IsTable, Route!With, Route!OthersLeft, Route!ToFlush, Route!Current
<1> QED BY <1>1, <1>2, <1>3, NewRouteKeeps, FlushStarts, FlushOneKeeps, OtherKeeps DEF Route!Next

LEMMA RouteStart ==
    ASSUME Route!RoutesAreUnique, Route!Init
    PROVE  RouteInv
BY DEF Route!RoutesAreUnique, Route!Init, RouteInv, Flushing

LEMMA RouteMeans == RouteInv => Route!Flushes
BY DEF RouteInv, Flushing, FlushInv, Route!Flushes, Route!NoGatewayLeft

-----------------------------------------------------------------------------
(* route: an add, a change or a delete *)

\* What is kept while a command is read
ReadFields ==
    {"ok", "addrs", "dst", "gate", "mask", "inet", "iflag", "forcehost", "forcenet", "ishost", "flags",
     "hp", "typed", "locking", "lockrest", "inits", "locks"}

SameAddresses(s, t) ==
    /\ t.ok = s.ok /\ t.addrs = s.addrs /\ t.dst = s.dst /\ t.gate = s.gate /\ t.mask = s.mask
    /\ t.ishost = s.ishost /\ t.hp = s.hp /\ t.typed = s.typed

SameOptions(s, t) ==
    /\ t.iflag = s.iflag /\ t.forcehost = s.forcehost /\ t.flags = s.flags /\ t.inits = s.inits
    /\ t.locks = s.locks /\ t.locking = s.locking /\ t.lockrest = s.lockrest

\* What an option does that is no address
OptionsAfter(s, x, t) ==
    /\ t.iflag <=> s.iflag \/ x[1] \in {"-iface", "-interface"}
    /\ t.forcehost <=> s.forcehost \/ x[1] = "-host"
    /\ t.lockrest <=> s.lockrest \/ x[1] = "-lockrest"
    /\ t.locking <=> x[1] \notin Route!Metrics /\ (s.locking \/ x[1] = "-lock")
    /\ t.flags = IF x[1] = "-nostatic" THEN s.flags \ {"-static"}
                 ELSE IF x[1] \in Route!RouteFlags THEN s.flags \cup {x[1]} ELSE s.flags
    /\ t.inits = IF x[1] \in Route!Metrics THEN {m \in s.inits : m[1] # x[1]} \cup {x} ELSE s.inits
    /\ t.locks = IF x[1] \in Route!Metrics /\ (s.lockrest \/ s.locking) THEN s.locks \cup {x[1]} ELSE s.locks

LEMMA SwitchItem ==
    ASSUME NEW s, DOMAIN s = ReadFields, s.ok = TRUE,
           NEW x, Route!Understood(x), x[1] \notin {"arg", "-netmask"},
           x[1] \in Route!Metrics => x = <<x[1], x[2]>>,
           NEW t, t = Route!ReadItem(s, x)
    PROVE  /\ DOMAIN t = ReadFields /\ SameAddresses(s, t) /\ OptionsAfter(s, x, t)
           /\ t.forcenet <=> s.forcenet \/ x[1] = "-net"
<1> USE DEF Route!Metrics, Route!RouteFlags
<1>1. CASE x[1] = "-inet"
  <2>1. t = [s EXCEPT !.inet = TRUE]
    BY <1>1 DEF Route!ReadItem
  <2> QED BY <1>1, <2>1 DEF ReadFields, SameAddresses, OptionsAfter
<1>2. CASE x[1] \in {"-iface", "-interface"}
  <2>1. t = [s EXCEPT !.iflag = TRUE]
    BY <1>2 DEF Route!ReadItem
  <2> QED BY <1>2, <2>1 DEF ReadFields, SameAddresses, OptionsAfter
<1>3. CASE x[1] = "-nostatic"
  <2>1. t = [s EXCEPT !.flags = @ \ {"-static"}]
    BY <1>3 DEF Route!ReadItem
  <2> QED BY <1>3, <2>1 DEF ReadFields, SameAddresses, OptionsAfter
<1>4. CASE x[1] \in Route!RouteFlags
  <2>1. t = [s EXCEPT !.flags = @ \cup {x[1]}]
    BY <1>4 DEF Route!ReadItem
  <2> QED BY <1>4, <2>1 DEF ReadFields, SameAddresses, OptionsAfter
<1>5. CASE x[1] = "-lock"
  <2>1. t = [s EXCEPT !.locking = TRUE]
    BY <1>5 DEF Route!ReadItem
  <2> QED BY <1>5, <2>1 DEF ReadFields, SameAddresses, OptionsAfter
<1>6. CASE x[1] = "-lockrest"
  <2>1. t = [s EXCEPT !.lockrest = TRUE]
    BY <1>6 DEF Route!ReadItem
  <2> QED BY <1>6, <2>1 DEF ReadFields, SameAddresses, OptionsAfter
<1>7. CASE x[1] = "-host"
  <2>1. t = [s EXCEPT !.forcehost = TRUE]
    BY <1>7 DEF Route!ReadItem
  <2> QED BY <1>7, <2>1 DEF ReadFields, SameAddresses, OptionsAfter
<1>8. CASE x[1] = "-net"
  <2>1. t = [s EXCEPT !.forcenet = TRUE]
    BY <1>8 DEF Route!ReadItem
  <2> QED BY <1>8, <2>1 DEF ReadFields, SameAddresses, OptionsAfter
<1>9. CASE x[1] \in Route!Metrics
  <2>1. Len(x) = 2 /\ x = <<x[1], x[2]>>
    BY <1>9 DEF Route!Understood, Route!Switches
  <2>2. t = Route!SetMetric(s, x[1], x[2])
    BY <1>9, <2>1 DEF Route!ReadItem
  <2> DEFINE inits == {m \in s.inits : m[1] # x[1]} \cup {<<x[1], x[2]>>}
             locks == IF s.lockrest \/ s.locking THEN s.locks \cup {x[1]} ELSE s.locks
             s1 == [s EXCEPT !.inits = inits]
             s2 == [s1 EXCEPT !.locks = locks]
  <2>3. t = [s2 EXCEPT !.locking = FALSE]
    BY <2>2 DEF Route!SetMetric
  <2> HIDE DEF inits, locks
  <2>4. /\ DOMAIN s2 = ReadFields /\ s2.inits = inits /\ s2.locks = locks
        /\ \A e \in ReadFields \ {"inits", "locks"} : s2[e] = s[e]
    BY DEF ReadFields
  <2> HIDE DEF s2
  <2>5. /\ DOMAIN t = ReadFields /\ t.inits = inits /\ t.locks = locks /\ t.locking = FALSE
        /\ \A e \in ReadFields \ {"inits", "locks", "locking"} : t[e] = s[e]
    BY <2>3, <2>4 DEF ReadFields
  <2>6. SameAddresses(s, t) /\ (t.forcenet <=> s.forcenet) /\ t.iflag = s.iflag /\ t.forcehost = s.forcehost
        /\ t.lockrest = s.lockrest /\ t.flags = s.flags
    BY <2>5 DEF SameAddresses, ReadFields
  <2>7. inits = {m \in s.inits : m[1] # x[1]} \cup {x}
    BY <2>1 DEF inits
  <2>8. OptionsAfter(s, x, t)
    BY <1>9, <2>5, <2>6, <2>7 DEF OptionsAfter, locks
  <2> QED BY <1>9, <2>5, <2>6, <2>8
<1> QED BY <1>1, <1>2, <1>3, <1>4, <1>5, <1>6, <1>7, <1>8, <1>9 DEF Route!Understood, Route!Switches

\* The items 1..n are read.
FlagsTo(items, n) == {f \in Route!RouteFlags \ {"-static"} : \E i \in 1..n : items[i][1] = f}
StaticTo(items, n) == \A i \in 1..n : items[i][1] = "-nostatic" => \E j \in (i + 1)..n : items[j][1] = "-static"
InitsTo(items, n) ==
    {items[i] : i \in {j \in 1..n : /\ items[j][1] \in Route!Metrics
                                    /\ \A k \in (j + 1)..n : items[k][1] # items[j][1]}}
LocksTo(items, n) == {items[i][1] : i \in {j \in 1..n : items[j][1] \in Route!Metrics /\ Route!Locked(items, j)}}

OptionsTo(items, n, s) ==
    /\ s.iflag <=> \E i \in 1..n : items[i][1] \in {"-iface", "-interface"}
    /\ s.forcehost <=> \E i \in 1..n : items[i][1] = "-host"
    /\ s.lockrest <=> \E i \in 1..n : items[i][1] = "-lockrest"
    /\ s.locking <=> \E i \in 1..n : /\ items[i][1] = "-lock"
                                     /\ \A k \in (i + 1)..n : items[k][1] \notin Route!Metrics
    /\ s.flags = FlagsTo(items, n) \cup (IF StaticTo(items, n) THEN {"-static"} ELSE {})
    /\ s.inits = InitsTo(items, n)
    /\ s.locks = LocksTo(items, n)

LEMMA OptionsStep ==
    ASSUME NEW items, NEW n \in Nat, n > 0, NEW s, OptionsTo(items, n - 1, s),
           NEW t, OptionsAfter(s, items[n], t)
    PROVE  OptionsTo(items, n, t)
<1> DEFINE o(i) == items[i][1]
<1>1. 1..n = (1..(n - 1)) \cup {n} /\ n \notin 1..(n - 1)
  OBVIOUS
<1>2. \A i \in 1..(n - 1) : (i + 1)..n = ((i + 1)..(n - 1)) \cup {n}
  OBVIOUS
<1>3. (n + 1)..n = {}
  OBVIOUS
<1> HIDE DEF o
<1>4. t.iflag <=> \E i \in 1..n : items[i][1] \in {"-iface", "-interface"}
  BY <1>1 DEF OptionsTo, OptionsAfter
<1>5. t.forcehost <=> \E i \in 1..n : items[i][1] = "-host"
  BY <1>1 DEF OptionsTo, OptionsAfter
<1>6. t.lockrest <=> \E i \in 1..n : items[i][1] = "-lockrest"
  BY <1>1 DEF OptionsTo, OptionsAfter
<1>7. t.locking <=> \E i \in 1..n : /\ items[i][1] = "-lock"
                                    /\ \A k \in (i + 1)..n : items[k][1] \notin Route!Metrics
  BY <1>1, <1>2, <1>3 DEF OptionsTo, OptionsAfter, Route!Metrics
<1>8. StaticTo(items, n) <=> items[n][1] # "-nostatic" /\ (StaticTo(items, n - 1) \/ items[n][1] = "-static")
  BY <1>1, <1>2, <1>3 DEF StaticTo
<1>9. FlagsTo(items, n) = FlagsTo(items, n - 1)
                          \cup (IF items[n][1] \in Route!RouteFlags \ {"-static"} THEN {items[n][1]} ELSE {})
  BY <1>1 DEF FlagsTo
<1>10. t.flags = FlagsTo(items, n) \cup (IF StaticTo(items, n) THEN {"-static"} ELSE {})
  <2>1. "-static" \notin FlagsTo(items, n - 1) /\ "-nostatic" \notin Route!RouteFlags /\ "-static" \in Route!RouteFlags
    BY DEF FlagsTo, Route!RouteFlags
  <2>2. s.flags = FlagsTo(items, n - 1) \cup (IF StaticTo(items, n - 1) THEN {"-static"} ELSE {})
    BY DEF OptionsTo
  <2>3. CASE items[n][1] = "-nostatic"
    BY <1>8, <1>9, <2>1, <2>2, <2>3 DEF OptionsAfter
  <2>4. CASE items[n][1] = "-static"
    BY <1>8, <1>9, <2>1, <2>2, <2>4 DEF OptionsAfter
  <2>5. CASE items[n][1] \notin {"-static", "-nostatic"}
    BY <1>8, <1>9, <2>1, <2>2, <2>5 DEF OptionsAfter
  <2> QED BY <2>3, <2>4, <2>5
<1>11. t.inits = InitsTo(items, n)
  <2>1. CASE items[n][1] \in Route!Metrics
    <3>1. t.inits = {m \in InitsTo(items, n - 1) : m[1] # items[n][1]} \cup {items[n]}
      BY <2>1 DEF OptionsTo, OptionsAfter
    <3>2. InitsTo(items, n) = {m \in InitsTo(items, n - 1) : m[1] # items[n][1]} \cup {items[n]}
      BY <1>1, <1>2, <1>3, <2>1 DEF InitsTo
    <3> QED BY <3>1, <3>2
  <2>2. CASE items[n][1] \notin Route!Metrics
    <3>1. InitsTo(items, n) = InitsTo(items, n - 1)
      BY <1>1, <1>2, <1>3, <2>2 DEF InitsTo
    <3> QED BY <2>2, <3>1 DEF OptionsTo, OptionsAfter
  <2> QED BY <2>1, <2>2
<1>12. t.locks = LocksTo(items, n)
  <2>1. LocksTo(items, n) = LocksTo(items, n - 1)
                            \cup (IF items[n][1] \in Route!Metrics /\ Route!Locked(items, n) THEN {items[n][1]} ELSE {})
    BY <1>1 DEF LocksTo
  <2>2. Route!Locked(items, n) <=> s.lockrest \/ s.locking
    BY DEF Route!Locked, OptionsTo
  <2> QED BY <2>1, <2>2 DEF OptionsTo, OptionsAfter
<1> QED BY <1>4, <1>5, <1>6, <1>7, <1>10, <1>11, <1>12 DEF OptionsTo

\* Numbers that are read
LEMMA AddressOfNumbers ==
    ASSUME NEW ns, Route!IsNumbers(ns)
    PROVE  /\ Route!IsAddress(Route!InetAddr(ns))
           /\ Route!InetAddr(ns) = Route!Ones <=> ns = Route!Ones
<1> DEFINE a == Route!InetAddr(ns)
<1>1. Len(ns) \in 1..4 /\ ns \in [1..Len(ns) -> 0..255] /\ DOMAIN ns = 1..Len(ns)
  BY DEF Route!IsNumbers
<1>2. /\ a = [i \in 1..4 |-> a[i]]
      /\ \A i \in 1..4 : a[i] = IF i < Len(ns) THEN ns[i] ELSE IF i = 4 THEN ns[Len(ns)] ELSE 0
  BY DEF Route!InetAddr
<1>3. \A i \in 1..4 : a[i] \in 0..255
  <2> DEFINE N == Len(ns)
  <2>1. N \in 1..4 /\ ns \in [1..N -> 0..255] /\ \A i \in 1..4 : a[i] = IF i < N THEN ns[i] ELSE IF i = 4 THEN ns[N] ELSE 0
    BY <1>1, <1>2
  <2> HIDE DEF N, a
  <2>2. ns[N] \in 0..255 /\ \A i \in 1..4 : i < N => ns[i] \in 0..255
    BY <2>1
  <2>3. ASSUME NEW i \in 1..4 PROVE a[i] \in 0..255
    <3>1. a[i] = IF i < N THEN ns[i] ELSE IF i = 4 THEN ns[N] ELSE 0
      BY <2>1
    <3>2. CASE i < N
      BY <2>2, <3>1, <3>2
    <3>3. CASE ~(i < N)
      BY <2>2, <3>1, <3>3
    <3> QED BY <3>2, <3>3
  <2> QED BY <2>3
<1> HIDE DEF a
<1>4. Route!IsAddress(a)
  BY <1>2, <1>3 DEF Route!IsAddress
<1>5. ASSUME a = Route!Ones PROVE ns = Route!Ones
  <2>1. a[1] = 255 /\ a[2] = 255 /\ a[3] = 255 /\ a[4] = 255
    BY <1>5 DEF Route!Ones
  <2>2. Len(ns) = 4
    BY <1>1, <1>2, <2>1
  <2>3. ns = [i \in 1..4 |-> ns[i]] /\ \A i \in 1..4 : ns[i] = Route!Ones[i]
    BY <1>1, <1>2, <2>1, <2>2 DEF Route!Ones
  <2> QED BY <2>3 DEF Route!Ones
<1>6. ASSUME ns = Route!Ones PROVE a = Route!Ones
  <2>1. Len(ns) = 4 /\ ns[1] = 255 /\ ns[2] = 255 /\ ns[3] = 255 /\ ns[4] = 255
    BY <1>6 DEF Route!Ones
  <2>2. a[1] = 255 /\ a[2] = 255 /\ a[3] = 255 /\ a[4] = 255
    BY <1>2, <2>1
  <2> QED BY <1>2, <2>2 DEF Route!Ones
<1> QED BY <1>4, <1>5, <1>6 DEF a

AddressBegun(s, which) == [s EXCEPT !.addrs = @ \cup {which}, !.inet = TRUE]
AddressBegunWith(s, which, h) == [AddressBegun(s, which) EXCEPT !.hp = h]

LEMMA GetAddrBegins ==
    ASSUME NEW s, DOMAIN s = ReadFields, NEW which, NEW h
    PROVE  /\ DOMAIN AddressBegun(s, which) = ReadFields /\ DOMAIN AddressBegunWith(s, which, h) = ReadFields
           /\ SameOptions(s, AddressBegun(s, which)) /\ SameOptions(s, AddressBegunWith(s, which, h))
           /\ AddressBegun(s, which).addrs = s.addrs \cup {which} /\ AddressBegunWith(s, which, h).addrs = s.addrs \cup {which}
           /\ AddressBegun(s, which).hp = s.hp /\ AddressBegunWith(s, which, h).hp = h
           /\ \A f \in {"ok", "dst", "gate", "mask", "ishost", "forcenet", "typed"} :
                  AddressBegun(s, which)[f] = s[f] /\ AddressBegunWith(s, which, h)[f] = s[f]
<1> DEFINE a == [s EXCEPT !.addrs = @ \cup {which}]
           b == AddressBegun(s, which)
           c == AddressBegunWith(s, which, h)
<1>1. DOMAIN a = ReadFields /\ a.addrs = s.addrs \cup {which} /\ \A f \in ReadFields \ {"addrs"} : a[f] = s[f]
  BY DEF ReadFields
<1>2. b = [a EXCEPT !.inet = TRUE] /\ c = [b EXCEPT !.hp = h]
  BY DEF AddressBegun, AddressBegunWith
<1> HIDE DEF a, b, c
<1>3. DOMAIN b = ReadFields /\ \A f \in ReadFields \ {"inet"} : b[f] = a[f]
  BY <1>1, <1>2 DEF ReadFields
<1>4. DOMAIN c = ReadFields /\ c.hp = h /\ \A f \in ReadFields \ {"hp"} : c[f] = b[f]
  BY <1>2, <1>3 DEF ReadFields
<1>5. /\ DOMAIN b = ReadFields /\ DOMAIN c = ReadFields /\ SameOptions(s, b) /\ SameOptions(s, c)
      /\ b.addrs = s.addrs \cup {which} /\ c.addrs = s.addrs \cup {which} /\ b.hp = s.hp /\ c.hp = h
      /\ \A f \in {"ok", "dst", "gate", "mask", "ishost", "forcenet", "typed"} : b[f] = s[f] /\ c[f] = s[f]
  BY <1>1, <1>3, <1>4 DEF ReadFields, SameOptions
<1> QED BY <1>5 DEF b, c

\* The mask that follows -netmask
HasMask(s, x, t) ==
    /\ DOMAIN t = ReadFields /\ SameOptions(s, t)
    /\ t.addrs = s.addrs \cup {"netmask"} /\ t.mask = Route!InetAddr(x[2][2]) /\ t.forcenet = TRUE
    /\ \A f \in {"ok", "dst", "gate", "ishost", "hp", "typed"} : t[f] = s[f]

LEMMA MaskItem ==
    ASSUME NEW s, DOMAIN s = ReadFields, s.ok = TRUE,
           NEW x, x[1] = "-netmask", Len(x) = 2, x[2][1] = "dotted", Route!IsWord(x[2]),
           NEW t, t = Route!ReadItem(s, x)
    PROVE  HasMask(s, x, t)
<1> DEFINE w == x[2]
           a == Route!InetAddr(w[2])
           c == AddressBegunWith(s, "netmask", AddressBegun(s, "netmask").hp)
           e == Route!GetAddr(s, "netmask", w, FALSE)
<1>1. w = <<"dotted", w[2]>> /\ Route!IsNumbers(w[2])
  BY DEF Route!IsWord
<1>2. t = [e EXCEPT !.forcenet = TRUE]
  BY DEF Route!ReadItem, Route!RouteFlags, Route!Metrics
<1>3. e = [c EXCEPT !.mask = a] \/ e = [[c EXCEPT !.hp = @] EXCEPT !.mask = a]
  <2>1. CASE a = Route!Ones
    <3>1. w = <<"dotted", Route!Ones>>
      BY <1>1, <2>1, AddressOfNumbers
    <3>2. e = Route!Named(c, "netmask", <<Route!Ones>>, FALSE)
      BY <1>1, <2>1, <3>1 DEF Route!GetAddr, AddressBegun, AddressBegunWith
    <3> QED BY <2>1, <3>2 DEF Route!Named, Route!Put, Route!Host
  <2>2. CASE a # Route!Ones
    <3>1. w[1] = "dotted" /\ w # <<"dotted", Route!Ones>>
      BY <1>1, <2>2, AddressOfNumbers
    <3>2. e = IF Route!LocalPart(a) # Route!Zero THEN Route!Host(Route!Put(c, "netmask", a), "netmask", TRUE)
              ELSE Route!Put(c, "netmask", a)
      BY <2>2, <3>1 DEF Route!GetAddr, AddressBegun, AddressBegunWith
    <3> QED BY <3>2 DEF Route!Put, Route!Host
  <2> QED BY <2>1, <2>2
<1>4. /\ DOMAIN c = ReadFields /\ SameOptions(s, c) /\ c.addrs = s.addrs \cup {"netmask"} /\ c.hp = s.hp
      /\ \A f \in {"ok", "dst", "gate", "mask", "ishost", "forcenet", "typed"} : c[f] = s[f]
  BY GetAddrBegins
<1> HIDE DEF a, c, e, w
<1>5. DOMAIN e = ReadFields /\ e.mask = a /\ \A f \in ReadFields \ {"mask"} : e[f] = c[f]
  <2>1. CASE e = [c EXCEPT !.mask = a]
    BY <2>1, <1>4 DEF ReadFields
  <2>2. CASE e = [[c EXCEPT !.hp = @] EXCEPT !.mask = a]
    BY <2>2, <1>4 DEF ReadFields
  <2> QED BY <1>3, <2>1, <2>2
<1>6. DOMAIN t = ReadFields /\ t.forcenet = TRUE /\ \A f \in ReadFields \ {"forcenet"} : t[f] = e[f]
  BY <1>2, <1>5 DEF ReadFields
<1> QED BY <1>4, <1>5, <1>6 DEF HasMask, ReadFields, SameOptions, a, w

\* The gateways q are tried, and r are those that may be reached.
Reaches(q, r) ==
    /\ IsTuple(q) /\ IsTuple(r) /\ Len(r) \in Nat \ {0} /\ Len(q) \in Nat /\ Len(r) <= Len(q)
    /\ \A i \in 1..Len(r) : q[i] = r[i]
    /\ \A i \in 1..Len(q) : i > Len(r) => q[i] \notin RouteNear

\* A host's other addresses are tried after so_gate.
LEMMA TriedIs ==
    ASSUME NEW s, IsTuple(s.hp)
    PROVE  LET q == Route!Tried(s)
           IN  /\ IsTuple(q) /\ Len(q) \in Nat /\ Len(s.hp) \in Nat
               /\ Len(q) > 0 /\ (Len(q) = 1 \/ Len(q) = Len(s.hp))
               /\ s.typed = TRUE /\ Len(s.hp) > 0 => Len(q) = Len(s.hp)
               /\ q[1] = s.gate
               /\ \A i \in 1..Len(q) : i > 1 => q[i] = IF Len(s.gate) = 2 THEN <<"garbled", s.hp[i]>> ELSE s.hp[i]
<1> DEFINE q == Route!Tried(s)
           G(a) == IF Len(s.gate) = 2 THEN <<"garbled", a>> ELSE a
           one == <<s.gate>>
<1>1. PICK n \in Nat : Len(s.hp) = n /\ DOMAIN s.hp = 1..n /\ s.hp = [i \in 1..n |-> s.hp[i]]
  BY LengthOfTuple DEF IsTuple
<1>2. IsTuple(one) /\ Len(one) = 1 /\ one[1] = s.gate
  BY ShortTuples
<1>3. s.hp = <<>> <=> n = 0
  BY <1>1, ShortTuples, EmptyIsTuple
<1> DEFINE more == IF s.typed /\ s.hp # <<>> THEN [i \in 1..(n - 1) |-> G(s.hp[i + 1])] ELSE <<>>
<1>4. q = one \o more
  BY <1>1 DEF Route!Tried
<1>5. /\ IsTuple(more) /\ Len(more) = IF s.typed /\ n > 0 THEN n - 1 ELSE 0
      /\ \A i \in 1..Len(more) : more[i] = G(s.hp[i + 1])
  <2>1. CASE s.typed /\ n > 0
    <3> DEFINE m == [i \in 1..(n - 1) |-> G(s.hp[i + 1])]
    <3>1. more = m
      BY <1>3, <2>1
    <3> HIDE DEF G
    <3>2. n - 1 \in Nat /\ DOMAIN m = 1..(n - 1) /\ m = [i \in 1..(n - 1) |-> m[i]] /\ \A i \in 1..(n - 1) : m[i] = G(s.hp[i + 1])
      BY <2>1
    <3> HIDE DEF m, more
    <3>3. IsTuple(m) /\ Len(m) = n - 1
      BY <3>2, LengthOfTuple DEF IsTuple
    <3> QED BY <2>1, <3>1, <3>2, <3>3
  <2>2. CASE ~(s.typed /\ n > 0)
    <3>1. more = <<>>
      BY <1>3, <2>2
    <3> HIDE DEF more, G
    <3> QED BY <2>2, <3>1, ShortTuples
  <2> QED BY <2>1, <2>2
<1> HIDE DEF more, one, q, G
<1>6. /\ IsTuple(q) /\ Len(q) = 1 + Len(more) /\ q[1] = s.gate
      /\ \A i \in 1..Len(more) : q[1 + i] = more[i]
  <2>1. IsTuple(one) /\ IsTuple(more)
    BY <1>2, <1>5
  <2>2. /\ IsTuple(one \o more) /\ Len(one \o more) = Len(one) + Len(more)
        /\ \A i \in 1..Len(one) : (one \o more)[i] = one[i]
        /\ \A i \in 1..Len(more) : (one \o more)[Len(one) + i] = more[i]
    BY <2>1, Joined
  <2> QED BY <1>2, <1>4, <2>2
<1>7. \A i \in 1..Len(q) : i > 1 => q[i] = G(s.hp[i])
  <2> SUFFICES ASSUME NEW i \in 1..Len(q), i > 1 PROVE q[i] = G(s.hp[i])
    OBVIOUS
  <2>1. i - 1 \in 1..Len(more) /\ 1 + (i - 1) = i /\ (i - 1) + 1 = i
    BY <1>5, <1>6
  <2> QED BY <1>5, <1>6, <2>1
<1>8. Len(q) \in Nat /\ Len(q) = IF s.typed /\ Len(s.hp) > 0 THEN Len(s.hp) ELSE 1
  <2>1. CASE s.typed /\ n > 0
    <3>1. Len(more) = n - 1
      BY <1>5, <2>1
    <3> QED BY <1>1, <1>6, <2>1, <3>1
  <2>2. CASE ~(s.typed /\ n > 0)
    <3>1. Len(more) = 0
      BY <1>5, <2>2
    <3> QED BY <1>1, <1>6, <2>2, <3>1
  <2> QED BY <2>1, <2>2
<1>9. Len(q) > 0 /\ (Len(q) = 1 \/ Len(q) = Len(s.hp))
  BY <1>1, <1>8
<1>10. s.typed = TRUE /\ Len(s.hp) > 0 => Len(q) = Len(s.hp)
  BY <1>8
<1> QED BY <1>1, <1>6, <1>7, <1>8, <1>9, <1>10 DEF q, G

\* The destination is there already, and u has the gateway as well.
WithGateway(s, u) ==
    /\ DOMAIN u = ReadFields /\ SameOptions(s, u)
    /\ u.addrs = s.addrs \cup {"gateway"} /\ u.typed = TRUE
    /\ \A f \in {"ok", "dst", "mask", "ishost", "forcenet"} : u[f] = s[f]

LEMMA GatewaySame ==
    ASSUME NEW s, NEW u, WithGateway(s, u),
           NEW v, DOMAIN v = ReadFields, \A f \in ReadFields \ {"hp", "gate"} : v[f] = u[f]
    PROVE  WithGateway(s, v)
BY DEF WithGateway, SameOptions, ReadFields

\* Of no gateway, or of one that is a name, nothing more is tried.
LEMMA OneGateway ==
    ASSUME Route!CommandsTyped, NEW s, IsTuple(s.hp), Len(s.hp) \in {0, 1} \/ Len(s.gate) = 2
    PROVE  Reaches(Route!Tried(s), <<s.gate>>)
<1> DEFINE q == Route!Tried(s)
           r == <<s.gate>>
<1>1. IsTuple(q) /\ Len(q) \in Nat /\ Len(s.hp) \in Nat
  BY TriedIs
<1>2. Len(q) > 0 /\ (Len(q) = 1 \/ Len(q) = Len(s.hp))
  BY TriedIs
<1>3. q[1] = s.gate /\ \A i \in 1..Len(q) : i > 1 => q[i] = IF Len(s.gate) = 2 THEN <<"garbled", s.hp[i]>> ELSE s.hp[i]
  BY TriedIs
<1>4. IsTuple(r) /\ Len(r) = 1 /\ r[1] = s.gate
  BY ShortTuples
<1> HIDE DEF q, r
<1>5. \A i \in 1..Len(r) : q[i] = r[i]
  BY <1>3, <1>4
<1>6. ASSUME NEW i \in 1..Len(q), i > 1 PROVE q[i] \notin RouteNear
  <2> DEFINE n == Len(q)
  <2>0. n \in Nat /\ i \in 1..n
    BY <1>1
  <2> HIDE DEF n
  <2>1. n # 0 /\ n # 1
    BY <1>6, <2>0
  <2>2. Len(s.gate) = 2
    BY <1>2, <2>1 DEF n
  <2>3. q[i] = <<"garbled", s.hp[i]>>
    BY <1>3, <1>6, <2>2
  <2>4. Len(q[i]) = 2 /\ q[i][1] = "garbled"
    BY <2>3, ShortTuples
  <2>5. \A a \in RouteNear : Len(a) = 4 \/ a = <<"name", a[2]>>
    BY DEF Route!CommandsTyped
  <2>6. \A a \in RouteNear : Len(a) = 4 \/ a[1] = "name"
    BY <2>5, ShortTuples
  <2> QED BY <2>4, <2>6
<1>7. Len(q) \in Nat /\ Len(r) \in Nat \ {0} /\ Len(r) <= Len(q)
  BY <1>1, <1>2, <1>4
<1>8. \A i \in 1..Len(q) : i > Len(r) => q[i] \notin RouteNear
  BY <1>4, <1>6
<1> QED BY <1>1, <1>4, <1>5, <1>7, <1>8 DEF Reaches, q, r

LEMMA GatewayItem ==
    ASSUME Route!CommandsTyped, NEW s, DOMAIN s = ReadFields, s.ok = TRUE, "dst" \in s.addrs,
           "gateway" \notin s.addrs, IsTuple(s.hp),
           NEW o, s.iflag <=> {"-iface", "-interface"} \cap o # {},
           NEW x, x[1] = "arg", Route!IsWord(x[2]), Route!PlainGateway(o, x[2]),
           NEW t, t = Route!ReadItem(s, x)
    PROVE  WithGateway(s, t) /\ Reaches(Route!Tried(t), Route!GatesMeant(x[2]))
<1> DEFINE w == x[2]
           a == Route!InetAddr(w[2])
           z == [s EXCEPT !.typed = TRUE]
           b == AddressBegun(z, "gateway")
           c == AddressBegunWith(z, "gateway", <<>>)
           H == RouteHosts[w[2]]
<1>1. t = Route!GetAddr(z, "gateway", w, TRUE)
  BY DEF Route!ReadItem, Route!Operand, Route!Metrics, Route!RouteFlags
<1>2. DOMAIN z = ReadFields /\ z.typed = TRUE /\ SameOptions(s, z) /\ \A f \in ReadFields \ {"typed"} : z[f] = s[f]
  BY DEF ReadFields, SameOptions
<1>3. WithGateway(s, b) /\ WithGateway(s, c) /\ b.hp = s.hp /\ c.hp = <<>> /\ (b.iflag <=> s.iflag)
  <2> HIDE DEF z
  <2>1. SameOptions(z, b) /\ SameOptions(z, c)
    BY <1>2, GetAddrBegins
  <2>2. DOMAIN b = ReadFields /\ DOMAIN c = ReadFields /\ b.addrs = s.addrs \cup {"gateway"} /\ c.addrs = s.addrs \cup {"gateway"}
    BY <1>2, GetAddrBegins DEF ReadFields
  <2>3. b.hp = s.hp /\ c.hp = <<>> /\ b.typed = TRUE /\ c.typed = TRUE
    BY <1>2, GetAddrBegins DEF ReadFields
  <2>4. \A f \in {"ok", "dst", "mask", "ishost", "forcenet"} : b[f] = s[f] /\ c[f] = s[f]
    BY <1>2, GetAddrBegins DEF ReadFields
  <2> HIDE DEF b, c
  <2> QED BY <1>2, <2>1, <2>2, <2>3, <2>4 DEF WithGateway, SameOptions
<1>4. CASE w[1] = "dotted"
  <2>1. w = <<"dotted", w[2]>> /\ Route!IsNumbers(w[2])
    BY <1>4 DEF Route!IsWord
  <2>2. Route!GatesMeant(w) = <<a>>
    BY <1>4 DEF Route!GatesMeant
  <2>3. CASE a = Route!Ones
    <3>1. w = <<"dotted", Route!Ones>>
      BY <2>1, <2>3, AddressOfNumbers
    <3>2. t = Route!Named(c, "gateway", <<Route!Ones>>, TRUE)
      BY <1>1, <2>1, <2>3, <3>1 DEF Route!GetAddr, AddressBegun, AddressBegunWith
    <3> DEFINE d == [c EXCEPT !.hp = <<Route!Ones>>]
    <3>3. t = [d EXCEPT !.gate = Route!Ones]
      BY <3>2 DEF Route!Named, Route!Put, Route!Host
    <3>4. DOMAIN d = ReadFields /\ d.hp = <<Route!Ones>> /\ \A f \in ReadFields \ {"hp"} : d[f] = c[f]
      <4> HIDE DEF c
      <4> QED BY <1>3 DEF WithGateway, ReadFields
    <3> HIDE DEF c, d
    <3>5. DOMAIN t = ReadFields /\ t.gate = Route!Ones /\ \A f \in ReadFields \ {"gate"} : t[f] = d[f]
      BY <3>3, <3>4 DEF ReadFields
    <3>6. WithGateway(s, t) /\ t.hp = <<Route!Ones>> /\ t.gate = a
      <4>1. DOMAIN t = ReadFields /\ \A f \in ReadFields \ {"hp", "gate"} : t[f] = c[f]
        BY <3>4, <3>5
      <4>2. t.hp = <<Route!Ones>>
        BY <3>4, <3>5 DEF ReadFields
      <4> QED BY <1>3, <2>3, <3>5, <4>1, <4>2, GatewaySame
    <3> HIDE DEF a, w
    <3>7. IsTuple(t.hp) /\ Len(t.hp) = 1
      BY <3>6, ShortTuples
    <3> HIDE DEF z, b, c, d, H
    <3> QED BY <2>2, <3>6, <3>7, OneGateway DEF w
  <2>4. CASE a # Route!Ones
    <3>1. w[1] = "dotted" /\ w # <<"dotted", Route!Ones>>
      BY <2>1, <2>4, AddressOfNumbers
    <3>2. t = IF Route!LocalPart(a) # Route!Zero THEN Route!Host(Route!Put(c, "gateway", a), "gateway", TRUE)
              ELSE Route!Put(c, "gateway", a)
      BY <1>1, <2>4, <3>1 DEF Route!GetAddr, AddressBegun, AddressBegunWith
    <3>3. t = [c EXCEPT !.gate = a]
      BY <3>2 DEF Route!Put, Route!Host
    <3> HIDE DEF a, c, w
    <3>4. DOMAIN t = ReadFields /\ t.gate = a /\ \A f \in ReadFields \ {"gate"} : t[f] = c[f]
      BY <1>3, <3>3 DEF WithGateway, ReadFields
    <3>5. WithGateway(s, t) /\ t.hp = <<>> /\ t.gate = a
      BY <1>3, <3>4, GatewaySame DEF ReadFields
    <3>6. IsTuple(t.hp) /\ Len(t.hp) = 0
      BY <3>5, ShortTuples
    <3> HIDE DEF z, b, c, H
    <3> QED BY <2>2, <3>5, <3>6, OneGateway DEF w
  <2> HIDE DEF a
  <2> QED BY <2>3, <2>4
<1>5. CASE w[1] = "name" /\ w[2] \in DOMAIN RouteHosts
  <2>1. w = <<"name", w[2]>> /\ w[2] \notin RouteLinks
    BY <1>5 DEF Route!IsWord, Route!CommandsTyped
  <2>2. Route!GatesMeant(w) = H
    BY <1>5 DEF Route!GatesMeant
  <2>3. t = Route!Named(c, "gateway", H, TRUE)
    BY <1>1, <1>5, <2>1 DEF Route!GetAddr, AddressBegun, AddressBegunWith
  <2> DEFINE d == [c EXCEPT !.hp = H]
  <2>4. t = [d EXCEPT !.gate = H[1]]
    BY <2>3 DEF Route!Named, Route!Put, Route!Host
  <2>5. DOMAIN d = ReadFields /\ d.hp = H /\ \A f \in ReadFields \ {"hp"} : d[f] = c[f]
    <3> HIDE DEF c, H
    <3> QED BY <1>3 DEF WithGateway, ReadFields
  <2>6. WithGateway(s, t) /\ t.hp = H /\ t.gate = H[1]
    <3> HIDE DEF c, d, H
    <3>1. DOMAIN t = ReadFields /\ t.gate = H[1] /\ \A f \in ReadFields \ {"gate"} : t[f] = d[f]
      BY <2>4, <2>5 DEF ReadFields
    <3>2. DOMAIN t = ReadFields /\ \A f \in ReadFields \ {"hp", "gate"} : t[f] = c[f]
      BY <2>5, <3>1
    <3>3. t.hp = H
      BY <2>5, <3>1 DEF ReadFields
    <3> QED BY <1>3, <3>1, <3>2, <3>3, GatewaySame
  <2>7. Len(H) \in Nat /\ H = [i \in 1..Len(H) |-> H[i]] /\ H # <<>> /\ DOMAIN H = 1..Len(H)
    BY <1>5 DEF Route!CommandsTyped, Route!IsTuple
  <2>8. H[1] \in [1..4 -> 0..255]
    <3>1. 1 \in DOMAIN H
      <4> HIDE DEF H
      <4> QED BY <2>7, EmptyIsTuple
    <3> QED BY <1>5, <3>1 DEF Route!CommandsTyped, Route!IsAddress
  <2> HIDE DEF H
  <2>9. IsTuple(H) /\ Len(H) \in Nat \ {0} /\ Len(H[1]) = 4
    <3>1. Len(H) # 0
      BY <2>7, EmptyIsTuple
    <3>2. H[1] = [i \in 1..4 |-> H[1][i]] /\ DOMAIN H[1] = 1..4
      BY <2>8
    <3>3. Len(H[1]) = 4
      BY <3>2, LengthOfTuple
    <3> QED BY <2>7, <3>1, <3>3 DEF IsTuple
  <2>10. Reaches(Route!Tried(t), H)
    <3> DEFINE q == Route!Tried(t)
    <3>1. /\ IsTuple(q) /\ Len(q) \in Nat /\ Len(q) = Len(H) /\ q[1] = H[1]
          /\ \A i \in 1..Len(q) : i > 1 => q[i] = H[i]
      <4>1. t.typed = TRUE /\ t.hp = H /\ Len(t.gate) # 2 /\ t.gate = H[1] /\ IsTuple(t.hp)
        BY <2>6, <2>9 DEF WithGateway
      <4>2. /\ IsTuple(q) /\ Len(q) \in Nat
            /\ t.typed = TRUE /\ Len(t.hp) > 0 => Len(q) = Len(t.hp)
            /\ q[1] = t.gate
            /\ \A i \in 1..Len(q) : i > 1 => q[i] = IF Len(t.gate) = 2 THEN <<"garbled", t.hp[i]>> ELSE t.hp[i]
        BY <4>1, TriedIs
      <4> HIDE DEF q
      <4> QED BY <2>9, <4>1, <4>2
    <3> HIDE DEF q
    <3>2. \A i \in 1..Len(H) : q[i] = H[i]
      BY <3>1
    <3>3. \A i \in 1..Len(q) : ~(i > Len(H))
      BY <3>1
    <3> QED BY <2>9, <3>1, <3>2, <3>3 DEF Reaches, q
  <2> QED BY <2>2, <2>6, <2>10
<1>6. CASE w[1] = "name" /\ w[2] \notin DOMAIN RouteHosts
  <2>1. w = <<"name", w[2]>> /\ w[2] \in RouteLinks /\ s.iflag
    BY <1>6 DEF Route!IsWord, Route!PlainGateway
  <2>2. Route!GatesMeant(w) = <<w>>
    BY <1>6 DEF Route!GatesMeant
  <2>3. t = [b EXCEPT !.gate = w]
    BY <1>1, <1>3, <1>6, <2>1 DEF Route!GetAddr, AddressBegun, AddressBegunWith
  <2>4. WithGateway(s, t) /\ t.hp = s.hp /\ t.gate = w
    <3> HIDE DEF b, w
    <3>1. DOMAIN t = ReadFields /\ t.gate = w /\ \A f \in ReadFields \ {"gate"} : t[f] = b[f]
      BY <1>3, <2>3 DEF WithGateway, ReadFields
    <3> QED BY <1>3, <3>1, GatewaySame DEF ReadFields
  <2>5. Len(w) = 2
    BY <2>1, SMTT(30)
  <2> HIDE DEF w
  <2>6. IsTuple(t.hp) /\ Len(t.gate) = 2
    BY <2>4, <2>5
  <2> HIDE DEF z, b, c, a, H
  <2> QED BY <2>2, <2>4, <2>6, OneGateway DEF w
<1>7. w[1] \in {"dotted", "name"}
  BY DEF Route!PlainGateway
<1> HIDE DEF a, b, c, H, w
<1> QED BY <1>4, <1>5, <1>6, <1>7 DEF w

\* An address without a local part is a network's, whose first byte is not 0.
LEMMA NetworkOfClass ==
    ASSUME NEW a, Route!IsAddress(a), Route!LocalPart(a) = Route!Zero, a # Route!Zero
    PROVE  a[1] # 0
<1> SUFFICES ASSUME a[1] = 0 PROVE FALSE
  OBVIOUS
<1>1. Route!ClassBytes(a) = 1
  BY DEF Route!ClassBytes
<1>2. \A i \in 1..4 : Route!LocalPart(a)[i] = IF i <= 1 THEN 0 ELSE a[i]
  BY <1>1 DEF Route!LocalPart
<1>3. \A i \in 1..4 : Route!Zero[i] = 0
  BY DEF Route!Zero
<1>4. \A i \in 1..4 : a[i] = 0
  <2> SUFFICES ASSUME NEW i \in 1..4 PROVE a[i] = 0
    OBVIOUS
  <2>1. CASE i = 1
    BY <2>1
  <2>2. CASE i # 1
    BY <1>2, <1>3, <2>2
  <2> QED BY <2>1, <2>2
<1>5. a = [i \in 1..4 |-> a[i]] /\ Route!Zero = [i \in 1..4 |-> Route!Zero[i]]
  BY DEF Route!IsAddress, Route!Zero
<1> QED BY <1>3, <1>4, <1>5

\* The first numbers of a network, which are neither 0 nor 128 or more alone
LEMMA NetworkOfNumbers ==
    ASSUME NEW ns, Route!IsNumbers(ns), ns # Route!Ones,
           ns = Route!Zero \/ (ns[1] # 0 /\ (Len(ns) > 1 \/ ns[1] < 128)),
           NEW n, n = Route!InetNetwork(ns),
           NEW d, d = [i \in 1..4 |-> IF i <= Len(ns) THEN ns[i] ELSE 0]
    PROVE  /\ n # Route!Ones
           /\ n = Route!Zero => d = Route!Zero
           /\ n # Route!Zero => /\ d # Route!Zero /\ Route!Shifted(n) = d
                                /\ Route!ClassMask(n) = IF Len(ns) < 4 THEN Route!Prefix(8 * Len(ns))
                                                        ELSE Route!Prefix(8 * Route!Significant(d))
<1>1. Len(ns) \in 1..4 /\ DOMAIN ns = 1..Len(ns) /\ \A i \in 1..Len(ns) : ns[i] \in 0..255
  BY DEF Route!IsNumbers
<1>2. n = [i \in 1..4 |-> n[i]] /\ d = [i \in 1..4 |-> d[i]]
  BY DEF Route!InetNetwork
<1>3. \A i \in 1..4 : /\ n[i] = IF i + Len(ns) > 4 THEN ns[i + Len(ns) - 4] ELSE 0
                      /\ d[i] = IF i <= Len(ns) THEN ns[i] ELSE 0
  BY DEF Route!InetNetwork
<1> DEFINE Z == Route!Zero
<1>4. Z = [i \in 1..4 |-> Z[i]] /\ \A i \in 1..4 : Z[i] = 0
  BY DEF Route!Zero
<1>5. Route!Ones[1] = 255 /\ Route!Ones = <<255, 255, 255, 255>>
  BY DEF Route!Ones
<1> HIDE DEF Z
<1>6. CASE Len(ns) = 4
  <2>1. ns = [i \in 1..4 |-> ns[i]]
    BY <1>6 DEF Route!IsNumbers
  <2>2. \A i \in 1..4 : n[i] = ns[i] /\ d[i] = ns[i]
    BY <1>3, <1>6
  <2>3. n = ns /\ d = ns
    BY <1>2, <2>1, <2>2
  <2>4. n # Z => n[1] # 0
    BY <2>3 DEF Z
  <2> QED BY <1>6, <2>3, <2>4 DEF Route!Shifted, Route!ClassMask, Z
<1>7. CASE Len(ns) = 3
  <2>1. ns # Z /\ ns[1] # 0
    <3>1. Len(Route!Zero) = 4
      BY DEF Route!Zero
    <3> QED BY <1>7, <3>1 DEF Z
  <2>2. n[1] = 0 /\ n[2] = ns[1] /\ n[3] = ns[2] /\ n[4] = ns[3] /\ d[1] = ns[1] /\ d[2] = ns[2] /\ d[3] = ns[3] /\ d[4] = 0
    BY <1>3, <1>7
  <2>3. n # Route!Ones /\ n # Z /\ d # Z
    BY <1>4, <1>5, <2>1, <2>2
  <2>4. Route!Shifted(n) = <<ns[1], ns[2], ns[3], 0>>
    BY <2>1, <2>2 DEF Route!Shifted
  <2>5. d = <<ns[1], ns[2], ns[3], 0>>
    BY <1>2, <2>2
  <2> QED BY <1>7, <2>1, <2>2, <2>3, <2>4, <2>5 DEF Route!ClassMask, Z
<1>8. CASE Len(ns) = 2
  <2>1. ns # Z /\ ns[1] # 0
    <3>1. Len(Route!Zero) = 4
      BY DEF Route!Zero
    <3> QED BY <1>8, <3>1 DEF Z
  <2>2. n[1] = 0 /\ n[2] = 0 /\ n[3] = ns[1] /\ n[4] = ns[2] /\ d[1] = ns[1] /\ d[2] = ns[2] /\ d[3] = 0 /\ d[4] = 0
    BY <1>3, <1>8
  <2>3. n # Route!Ones /\ n # Z /\ d # Z
    BY <1>4, <1>5, <2>1, <2>2
  <2>4. Route!Shifted(n) = <<ns[1], ns[2], 0, 0>>
    BY <2>1, <2>2 DEF Route!Shifted
  <2>5. d = <<ns[1], ns[2], 0, 0>>
    BY <1>2, <2>2
  <2> QED BY <1>8, <2>1, <2>2, <2>3, <2>4, <2>5 DEF Route!ClassMask, Z
<1>9. CASE Len(ns) = 1
  <2>1. ns # Z /\ ns[1] # 0 /\ ns[1] < 128
    <3>1. Len(Route!Zero) = 4
      BY DEF Route!Zero
    <3> QED BY <1>9, <3>1 DEF Z
  <2>2. n[1] = 0 /\ n[2] = 0 /\ n[3] = 0 /\ n[4] = ns[1] /\ d[1] = ns[1] /\ d[2] = 0 /\ d[3] = 0 /\ d[4] = 0
    BY <1>3, <1>9
  <2>3. n # Route!Ones /\ n # Z /\ d # Z
    BY <1>4, <1>5, <2>1, <2>2
  <2>4. Route!Shifted(n) = <<ns[1], 0, 0, 0>> /\ ~(n[4] >= 128)
    BY <1>1, <1>9, <2>1, <2>2 DEF Route!Shifted
  <2>5. d = <<ns[1], 0, 0, 0>>
    BY <1>2, <2>2
  <2> QED BY <1>9, <2>1, <2>2, <2>3, <2>4, <2>5 DEF Route!ClassMask, Z
<1> QED BY <1>1, <1>6, <1>7, <1>8, <1>9

LEMMA NetMade ==
    ASSUME NEW u, DOMAIN u = ReadFields, NEW a, NEW bits
    PROVE  LET v == Route!MakeNetAndMask(u, a, bits)
           IN  /\ DOMAIN v = ReadFields /\ v.addrs = u.addrs \cup {"netmask"}
               /\ v.dst = IF a = Route!Zero \/ bits # 0 THEN a ELSE Route!Shifted(a)
               /\ v.mask = IF a = Route!Zero THEN Route!Zero
                           ELSE IF bits # 0 THEN Route!Prefix(bits) ELSE Route!ClassMask(a)
               /\ \A f \in ReadFields \ {"addrs", "dst", "mask"} : v[f] = u[f]
<1> DEFINE D == IF a = Route!Zero \/ bits # 0 THEN a ELSE Route!Shifted(a)
           M == IF a = Route!Zero THEN Route!Zero ELSE IF bits # 0 THEN Route!Prefix(bits) ELSE Route!ClassMask(a)
           b == [u EXCEPT !.addrs = @ \cup {"netmask"}]
           c == [b EXCEPT !.dst = D]
           v == Route!MakeNetAndMask(u, a, bits)
<1>1. v = [c EXCEPT !.mask = M]
  BY DEF Route!MakeNetAndMask
<1>2. DOMAIN b = ReadFields /\ b.addrs = u.addrs \cup {"netmask"} /\ \A f \in ReadFields \ {"addrs"} : b[f] = u[f]
  BY DEF ReadFields
<1> HIDE DEF b, D, M
<1>3. DOMAIN c = ReadFields /\ c.dst = D /\ \A f \in ReadFields \ {"dst"} : c[f] = b[f]
  BY <1>2 DEF ReadFields
<1> HIDE DEF c, v
<1>4. DOMAIN v = ReadFields /\ v.mask = M /\ \A f \in ReadFields \ {"mask"} : v[f] = c[f]
  BY <1>1, <1>3 DEF ReadFields
<1>5. v.addrs = u.addrs \cup {"netmask"} /\ v.dst = D /\ \A f \in ReadFields \ {"addrs", "dst", "mask"} : v[f] = u[f]
  BY <1>2, <1>3, <1>4 DEF ReadFields
<1> QED BY <1>4, <1>5 DEF v, D, M

\* A destination is a host if it is a name or, without -net, has a local part.
ToHost(o, w) ==
    \/ w[1] = "name"
    \/ w[1] = "dotted" /\ "-net" \notin o /\ Route!LocalPart(Route!InetAddr(w[2])) # Route!Zero

\* The destination w has been read, and nothing before it but options.
HasDestination(o, w, s, u) ==
    /\ DOMAIN u = ReadFields /\ SameOptions(s, u) /\ u.ok = TRUE /\ u.typed = s.typed /\ IsTuple(u.hp)
    /\ u.addrs = {"dst"} \cup (IF ToHost(o, w) THEN {} ELSE {"netmask"})
    /\ u.dst = Route!Destination(o, w)
    /\ u.ishost <=> ToHost(o, w)
    /\ ~ToHost(o, w) => u.mask = Route!MaskMeant(<<>>, o, w, Route!Destination(o, w), 0)
    /\ u.forcenet <=> "-net" \in o \/ w[1] = "default"

LEMMA DestinationItem ==
    ASSUME Route!CommandsTyped, NEW s, DOMAIN s = ReadFields, s.ok = TRUE, s.addrs = {}, s.dst = Route!Zero,
           s.mask = Route!Zero, s.hp = <<>>,
           NEW o, s.forcenet <=> "-net" \in o,
           NEW x, x[1] = "arg", Route!IsWord(x[2]), Route!PlainDestination(o, x[2]),
           NEW t, t = Route!ReadItem(s, x)
    PROVE  HasDestination(o, x[2], s, t)
<1> DEFINE w == x[2]
           a == Route!InetAddr(w[2])
           b == AddressBegun(s, "dst")
           c == AddressBegunWith(s, "dst", <<>>)
<1>1. t = Route!GetAddr(s, "dst", w, TRUE)
  BY DEF Route!ReadItem, Route!Operand, Route!Metrics, Route!RouteFlags
<1>2. /\ DOMAIN b = ReadFields /\ DOMAIN c = ReadFields /\ SameOptions(s, b) /\ SameOptions(s, c)
      /\ b.addrs = {"dst"} /\ c.addrs = {"dst"} /\ b.hp = <<>> /\ c.hp = <<>>
      /\ \A f \in {"ok", "dst", "mask", "forcenet", "typed"} : b[f] = s[f] /\ c[f] = s[f]
  BY GetAddrBegins
<1>3. CASE w = <<"default">>
  <2>1. t = [b EXCEPT !.forcenet = TRUE, !.addrs = @ \cup {"netmask"}, !.ishost = FALSE]
    BY <1>1, <1>3 DEF Route!GetAddr, Route!Default, AddressBegun, AddressBegunWith
  <2> DEFINE d == [b EXCEPT !.forcenet = TRUE]
             e == [d EXCEPT !.addrs = @ \cup {"netmask"}]
  <2>2. t = [e EXCEPT !.ishost = FALSE]
    BY <2>1
  <2> HIDE DEF b
  <2>3. DOMAIN d = ReadFields /\ d.forcenet = TRUE /\ \A f \in ReadFields \ {"forcenet"} : d[f] = b[f]
    BY <1>2 DEF ReadFields
  <2> HIDE DEF d
  <2>4. DOMAIN e = ReadFields /\ e.addrs = {"dst", "netmask"} /\ \A f \in ReadFields \ {"addrs"} : e[f] = d[f]
    BY <1>2, <2>3 DEF ReadFields
  <2> HIDE DEF e
  <2>5. DOMAIN t = ReadFields /\ t.ishost = FALSE /\ \A f \in ReadFields \ {"ishost"} : t[f] = e[f]
    BY <2>2, <2>4 DEF ReadFields
  <2>6. /\ SameOptions(s, t) /\ t.ok = TRUE /\ t.typed = s.typed /\ t.hp = <<>> /\ t.addrs = {"dst", "netmask"}
        /\ t.dst = Route!Zero /\ t.mask = Route!Zero /\ t.forcenet = TRUE
    BY <1>2, <2>3, <2>4, <2>5 DEF ReadFields, SameOptions
  <2>7. ~ToHost(o, w) /\ Route!Destination(o, w) = Route!Zero
    BY <1>3 DEF ToHost, Route!Destination
  <2>8. Route!MaskMeant(<<>>, o, w, Route!Zero, 0) = Route!Zero
    BY <1>3 DEF Route!MaskMeant
  <2>9. w[1] = "default" /\ IsTuple(t.hp)
    BY <1>3, <2>6, ShortTuples
  <2> HIDE DEF w
  <2> QED BY <2>5, <2>6, <2>7, <2>8, <2>9 DEF HasDestination, w
<1>4. ASSUME NEW n, NEW bits, t = Route!Host(Route!MakeNetAndMask(c, n, bits), "dst", FALSE), ~ToHost(o, w), w[1] # "default",
             Route!Destination(o, w) = IF n = Route!Zero \/ bits # 0 THEN n ELSE Route!Shifted(n),
             Route!MaskMeant(<<>>, o, w, Route!Destination(o, w), 0)
               = IF n = Route!Zero THEN Route!Zero ELSE IF bits # 0 THEN Route!Prefix(bits) ELSE Route!ClassMask(n)
      PROVE  HasDestination(o, w, s, t)
  <2> DEFINE v == Route!MakeNetAndMask(c, n, bits)
  <2> HIDE DEF c, w
  <2>1. /\ DOMAIN v = ReadFields /\ v.addrs = {"dst"} \cup {"netmask"}
        /\ v.dst = Route!Destination(o, w)
        /\ v.mask = Route!MaskMeant(<<>>, o, w, Route!Destination(o, w), 0)
        /\ \A f \in ReadFields \ {"addrs", "dst", "mask"} : v[f] = c[f]
    BY <1>2, <1>4, NetMade
  <2>2. t = [v EXCEPT !.ishost = FALSE]
    BY <1>4 DEF Route!Host
  <2> HIDE DEF v
  <2>3. DOMAIN t = ReadFields /\ t.ishost = FALSE /\ \A f \in ReadFields \ {"ishost"} : t[f] = v[f]
    BY <2>1, <2>2 DEF ReadFields
  <2>4. /\ SameOptions(s, t) /\ t.ok = TRUE /\ t.typed = s.typed /\ t.hp = <<>> /\ t.addrs = {"dst"} \cup {"netmask"}
        /\ t.dst = Route!Destination(o, w) /\ t.mask = Route!MaskMeant(<<>>, o, w, Route!Destination(o, w), 0)
        /\ (t.forcenet <=> "-net" \in o)
    BY <1>2, <2>1, <2>3 DEF ReadFields, SameOptions
  <2>5. IsTuple(t.hp)
    BY <2>4, ShortTuples
  <2> QED BY <1>4, <2>3, <2>4, <2>5 DEF HasDestination
<1>5. ASSUME NEW d, DOMAIN d = ReadFields, IsTuple(d.hp), \A f \in ReadFields \ {"hp"} : d[f] = c[f],
             t = Route!Host(Route!Put(d, "dst", Route!Destination(o, w)), "dst", TRUE), ToHost(o, w), w[1] # "default"
      PROVE  HasDestination(o, w, s, t)
  <2> DEFINE v == [d EXCEPT !.dst = Route!Destination(o, w)]
  <2> HIDE DEF c, w
  <2>1. DOMAIN v = ReadFields /\ v.dst = Route!Destination(o, w) /\ \A f \in ReadFields \ {"dst"} : v[f] = d[f]
    BY <1>5 DEF ReadFields
  <2>2. t = [v EXCEPT !.ishost = TRUE]
    BY <1>5 DEF Route!Host, Route!Put
  <2> HIDE DEF v
  <2>3. DOMAIN t = ReadFields /\ t.ishost = TRUE /\ \A f \in ReadFields \ {"ishost"} : t[f] = v[f]
    BY <2>1, <2>2 DEF ReadFields
  <2>4. /\ SameOptions(s, t) /\ t.ok = TRUE /\ t.typed = s.typed /\ t.hp = d.hp /\ t.addrs = {"dst"}
        /\ t.dst = Route!Destination(o, w) /\ (t.forcenet <=> "-net" \in o)
    <3>1. \A f \in ReadFields \ {"hp", "dst", "ishost"} : t[f] = c[f]
      BY <1>5, <2>1, <2>3
    <3>2. t.hp = d.hp /\ t.dst = Route!Destination(o, w)
      BY <2>1, <2>3 DEF ReadFields
    <3> QED BY <1>2, <3>1, <3>2 DEF ReadFields, SameOptions
  <2> QED BY <1>5, <2>3, <2>4 DEF HasDestination
<1>6. CASE w[1] = "slash"
  <2>1. w = <<"slash", w[2], w[3]>> /\ Route!IsNumbers(w[2]) /\ w[3] \in Nat
    BY <1>6 DEF Route!IsWord
  <2>2. a[1] # 0 /\ a # Route!Ones /\ w[3] > 0
    BY <1>6 DEF Route!PlainDestination
  <2>3. a # Route!Zero
    BY <2>2 DEF Route!Zero
  <2>4. t = Route!Host(Route!MakeNetAndMask(c, a, w[3]), "dst", FALSE)
    <3>1. w # <<"dotted", Route!Ones>>
      BY <1>6, ShortTuples
    <3> QED BY <1>1, <1>6, <2>2, <3>1 DEF Route!GetAddr, AddressBegun, AddressBegunWith
  <2>5. ~ToHost(o, w) /\ Route!Destination(o, w) = a /\ w[3] # 0
    BY <1>6, <2>1, <2>2 DEF ToHost, Route!Destination
  <2>6. Route!MaskMeant(<<>>, o, w, a, 0) = Route!Prefix(w[3])
    BY <1>6 DEF Route!MaskMeant
  <2> HIDE DEF a, c, w
  <2> QED BY <1>4, <1>6, <2>3, <2>4, <2>5, <2>6 DEF w
<1>7. CASE w[1] = "dotted" /\ "-net" \notin o
  <2>1. w = <<"dotted", w[2]>> /\ Route!IsNumbers(w[2]) /\ w[2] # Route!Ones
    BY <1>7 DEF Route!IsWord, Route!PlainDestination
  <2>2. a # Route!Ones /\ Route!IsAddress(a) /\ w # <<"dotted", Route!Ones>>
    BY <2>1, AddressOfNumbers
  <2>3. Route!Destination(o, w) = a
    BY <1>7 DEF Route!Destination
  <2>4. ~c.forcenet
    BY <1>2, <1>7
  <2>5. t = IF Route!LocalPart(a) # Route!Zero THEN Route!Host(Route!Put(c, "dst", a), "dst", TRUE)
            ELSE Route!Host(Route!MakeNetAndMask(c, a, 0), "dst", FALSE)
    BY <1>1, <1>7, <2>2, <2>4 DEF Route!GetAddr, AddressBegun, AddressBegunWith
  <2>6. CASE Route!LocalPart(a) # Route!Zero
    <3>1. ToHost(o, w)
      BY <1>7, <2>6 DEF ToHost
    <3>2. IsTuple(c.hp)
      BY <1>2, ShortTuples
    <3> HIDE DEF a, c, w
    <3> QED BY <1>2, <1>5, <1>7, <2>3, <2>5, <2>6, <3>1, <3>2 DEF w
  <2>7. CASE Route!LocalPart(a) = Route!Zero
    <3>1. ~ToHost(o, w)
      BY <1>7, <2>7 DEF ToHost
    <3>2. a # Route!Zero => Route!Shifted(a) = a /\ Route!ClassMask(a) = Route!Prefix(8 * Route!Significant(a))
      <4> HIDE DEF a
      <4> QED BY <2>2, <2>7, NetworkOfClass DEF Route!Shifted, Route!ClassMask
    <3>3. Route!MaskMeant(<<>>, o, w, a, 0) = IF a = Route!Zero THEN Route!Zero ELSE Route!ClassMask(a)
      BY <1>7, <3>2 DEF Route!MaskMeant
    <3> HIDE DEF a, c, w
    <3> QED BY <1>4, <1>7, <2>3, <2>5, <2>7, <3>1, <3>2, <3>3 DEF w
  <2> QED BY <2>6, <2>7
<1>8. CASE w[1] = "dotted" /\ "-net" \in o
  <2> DEFINE n == Route!InetNetwork(w[2])
             d == [i \in 1..4 |-> IF i <= Len(w[2]) THEN w[2][i] ELSE 0]
  <2>1. /\ w = <<"dotted", w[2]>> /\ Route!IsNumbers(w[2]) /\ w[2] # Route!Ones
        /\ w[2] = Route!Zero \/ (w[2][1] # 0 /\ (Len(w[2]) > 1 \/ w[2][1] < 128))
    BY <1>8 DEF Route!IsWord, Route!PlainDestination
  <2>2. /\ n # Route!Ones
        /\ n = Route!Zero => d = Route!Zero
        /\ n # Route!Zero => /\ d # Route!Zero /\ Route!Shifted(n) = d
                             /\ Route!ClassMask(n) = IF Len(w[2]) < 4 THEN Route!Prefix(8 * Len(w[2]))
                                                     ELSE Route!Prefix(8 * Route!Significant(d))
    <3> HIDE DEF w
    <3> QED BY <2>1, NetworkOfNumbers
  <2>3. Route!Destination(o, w) = d
    BY <1>8 DEF Route!Destination
  <2>4. c.forcenet /\ w # <<"dotted", Route!Ones>>
    BY <1>2, <1>8, <2>1
  <2>5. t = Route!Host(Route!MakeNetAndMask(c, n, 0), "dst", FALSE)
    BY <1>1, <1>8, <2>2, <2>4 DEF Route!GetAddr, AddressBegun, AddressBegunWith
  <2>6. ~ToHost(o, w)
    BY <1>8 DEF ToHost
  <2> HIDE DEF n, d
  <2>7. Route!MaskMeant(<<>>, o, w, d, 0) = IF n = Route!Zero THEN Route!Zero ELSE Route!ClassMask(n)
    BY <1>8, <2>2 DEF Route!MaskMeant
  <2>8. d = IF n = Route!Zero THEN n ELSE Route!Shifted(n)
    BY <2>2
  <2> HIDE DEF a, c, w
  <2> QED BY <1>4, <1>8, <2>3, <2>5, <2>6, <2>7, <2>8 DEF w
<1>9. CASE w[1] = "name"
  <2> DEFINE H == RouteHosts[w[2]]
             d == [c EXCEPT !.hp = H]
  <2>1. w = <<"name", w[2]>> /\ w[2] \in DOMAIN RouteHosts
    BY <1>9 DEF Route!IsWord, Route!PlainDestination
  <2>2. t = Route!Named(c, "dst", H, TRUE)
    BY <1>1, <1>9, <2>1 DEF Route!GetAddr, AddressBegun, AddressBegunWith
  <2>3. Route!Destination(o, w) = H[1] /\ ToHost(o, w)
    BY <1>9 DEF Route!Destination, ToHost
  <2>4. t = Route!Host(Route!Put(d, "dst", H[1]), "dst", TRUE)
    BY <2>2 DEF Route!Named
  <2>5. IsTuple(H)
    BY <2>1 DEF Route!CommandsTyped, Route!IsTuple, IsTuple
  <2>6. DOMAIN d = ReadFields /\ d.hp = H /\ \A f \in ReadFields \ {"hp"} : d[f] = c[f]
    <3> HIDE DEF c, H
    <3> QED BY <1>2 DEF ReadFields
  <2> HIDE DEF d, H, c, w, a
  <2> QED BY <1>5, <1>9, <2>3, <2>4, <2>5, <2>6 DEF w
<1>10. w = <<"default">> \/ w[1] \in {"dotted", "name", "slash"}
  BY DEF Route!IsWord
<1> HIDE DEF a, b, c, w
<1> QED BY <1>3, <1>6, <1>7, <1>8, <1>9, <1>10 DEF w

\* A command that the manual gives a meaning
PlainCommand(items, o, d, g, m) ==
    /\ Route!IsTuple(items) /\ \A i \in DOMAIN items : Route!IsItem(items[i])
    /\ o = Route!Opts(items) /\ d \in DOMAIN items /\ g \in DOMAIN items \cup {0} /\ m \in DOMAIN items \cup {0}
    /\ Route!Plain(items, o, d, g, m)

\* What newroute() knows of addresses when it has read n items
ReadTo(n, i) == i # 0 /\ i <= n
Unaddressed(items, n, s) ==
    /\ s.addrs = {} /\ s.dst = Route!Zero /\ s.mask = Route!Zero /\ s.hp = <<>>
    /\ s.forcenet <=> \E i \in 1..n : items[i][1] = "-net"
Addressed(items, o, d, g, m, n, s) ==
    /\ "dst" \in s.addrs
    /\ "gateway" \in s.addrs <=> ReadTo(n, g)
    /\ "netmask" \in s.addrs <=> ~ToHost(o, items[d][2]) \/ ReadTo(n, m)
    /\ s.dst = Route!Destination(o, items[d][2])
    /\ s.ishost <=> ToHost(o, items[d][2])
    /\ ReadTo(n, m) => s.mask = Route!InetAddr(items[m][2][2])
    /\ ~ReadTo(n, m) /\ ~ToHost(o, items[d][2]) =>
           s.mask = Route!MaskMeant(<<>>, o, items[d][2], Route!Destination(o, items[d][2]), 0)
    /\ s.forcenet <=> "-net" \in o \/ items[d][2][1] = "default" \/ ReadTo(n, m)
    /\ ReadTo(n, g) => Reaches(Route!Tried(s), Route!GatesMeant(items[g][2]))
AddressesTo(items, o, d, g, m, n, s) ==
    /\ DOMAIN s = ReadFields /\ s.ok = TRUE /\ (~ReadTo(n, g) => IsTuple(s.hp))
    /\ n < d => Unaddressed(items, n, s)
    /\ n >= d => Addressed(items, o, d, g, m, n, s)

LEMMA CommandShape ==
    ASSUME NEW items, NEW o, NEW d, NEW g, NEW m, PlainCommand(items, o, d, g, m)
    PROVE  /\ Len(items) \in Nat /\ DOMAIN items = 1..Len(items) /\ d \in 1..Len(items)
           /\ g \in 0..Len(items) /\ (g = 0 \/ d < g) /\ m \in 0..Len(items) /\ (m = 0 \/ d < m)
           /\ \A i \in 1..Len(items) : /\ Route!IsItem(items[i]) /\ Route!Understood(items[i])
                                       /\ items[i][1] = "arg" <=> i = d \/ i = g
                                       /\ items[i][1] = "-netmask" <=> i = m
           /\ "-net" \in o <=> \E i \in 1..Len(items) : items[i][1] = "-net"
           /\ {"-iface", "-interface"} \cap o # {} <=> \E i \in 1..Len(items) : items[i][1] \in {"-iface", "-interface"}
           /\ \A i \in 1..Len(items) : items[i][1] \in {"-net", "-iface", "-interface"} => i < d
<1>1. Len(items) \in Nat /\ items = [i \in 1..Len(items) |-> items[i]]
  BY DEF PlainCommand, Route!IsTuple
<1>2. DOMAIN items = 1..Len(items)
  BY <1>1
<1>3. d \in 1..Len(items) /\ g \in 0..Len(items) /\ m \in 0..Len(items)
  BY <1>1, <1>2 DEF PlainCommand
<1>4. (g = 0 \/ d < g) /\ (m = 0 \/ d < m)
  BY DEF PlainCommand, Route!Plain
<1>5. \A i \in 1..Len(items) : Route!IsItem(items[i]) /\ Route!Understood(items[i])
  BY <1>2 DEF PlainCommand, Route!Plain
<1>6. \A i \in 1..Len(items) : items[i][1] = "arg" <=> i = d \/ i = g
  BY <1>2, <1>3 DEF PlainCommand, Route!Plain, Route!At
<1>7. \A i \in 1..Len(items) : items[i][1] = "-netmask" <=> i = m
  BY <1>2, <1>3 DEF PlainCommand, Route!Plain, Route!At
<1>8. o = {items[i][1] : i \in 1..Len(items)}
  BY <1>2 DEF PlainCommand, Route!Opts
<1>9. \A i \in 1..Len(items) : items[i][1] \in {"-net", "-iface", "-interface"} => i < d
  BY <1>2, <1>3, <1>6 DEF PlainCommand, Route!Plain, Route!Before
<1> HIDE DEF PlainCommand
<1>10. "-net" \in o <=> \E i \in 1..Len(items) : items[i][1] = "-net"
  BY <1>8
<1>11. {"-iface", "-interface"} \cap o # {} <=> \E i \in 1..Len(items) : items[i][1] \in {"-iface", "-interface"}
  BY <1>8
<1> QED BY <1>1, <1>2, <1>3, <1>4, <1>5, <1>6, <1>7, <1>9, <1>10, <1>11

LEMMA AddressesStep ==
    ASSUME Route!CommandsTyped,
           NEW items, NEW o, NEW d, NEW g, NEW m, PlainCommand(items, o, d, g, m),
           NEW n \in 1..Len(items), NEW s, AddressesTo(items, o, d, g, m, n - 1, s), OptionsTo(items, n - 1, s),
           NEW t, t = Route!ReadItem(s, items[n])
    PROVE  AddressesTo(items, o, d, g, m, n, t) /\ OptionsAfter(s, items[n], t)
<1> DEFINE N == Len(items)
           x == items[n]
<1>1. /\ N \in Nat /\ d \in 1..N /\ g \in 0..N /\ (g = 0 \/ d < g) /\ m \in 0..N /\ (m = 0 \/ d < m)
      /\ \A i \in 1..N : /\ Route!IsItem(items[i]) /\ Route!Understood(items[i])
                         /\ items[i][1] = "arg" <=> i = d \/ i = g
                         /\ items[i][1] = "-netmask" <=> i = m
      /\ \A i \in 1..N : items[i][1] \in {"-net", "-iface", "-interface"} => i < d
  BY CommandShape
<1>2. "-net" \in o <=> \E i \in 1..N : items[i][1] = "-net"
  BY CommandShape
<1>3. {"-iface", "-interface"} \cap o # {} <=> \E i \in 1..N : items[i][1] \in {"-iface", "-interface"}
  BY CommandShape
<1>4. DOMAIN s = ReadFields /\ s.ok = TRUE /\ (~ReadTo(n - 1, g) => IsTuple(s.hp))
  BY DEF AddressesTo
<1>5. N \in Nat /\ d \in 1..N /\ n \in 1..N /\ (n - 1 < d <=> n <= d) /\ (n - 1 >= d <=> n > d) /\ (n < d \/ n = d \/ n > d)
  BY <1>1
<1>6. Route!IsItem(x) /\ Route!Understood(x) /\ (x[1] = "arg" <=> n = d \/ n = g) /\ (x[1] = "-netmask" <=> n = m)
  BY <1>1
<1> HIDE DEF N
<1>7. ASSUME SameOptions(s, t), x[1] \in {"arg", "-netmask"} PROVE OptionsAfter(s, x, t)
  BY <1>7 DEF SameOptions, OptionsAfter, Route!Metrics, Route!RouteFlags
<1>8. CASE x[1] \notin {"arg", "-netmask"}
  <2>1. x[1] \in Route!Metrics => x = <<x[1], x[2]>>
    <3>1. x[1] \in Route!Metrics => Len(x) = 2
      BY <1>6 DEF Route!Understood, Route!Switches, Route!Metrics, Route!RouteFlags
    <3>2. x = <<x[1]>> \/ x = <<x[1], x[2]>>
      BY <1>6 DEF Route!IsItem
    <3>3. x = <<x[1]>> => Len(x) = 1
      BY ShortTuples
    <3> QED BY <3>1, <3>2, <3>3
  <2>2. /\ DOMAIN t = ReadFields /\ SameAddresses(s, t) /\ OptionsAfter(s, x, t)
        /\ t.forcenet <=> s.forcenet \/ x[1] = "-net"
    BY <1>4, <1>6, <1>8, <2>1, SwitchItem
  <2>3. n # d /\ n # g /\ n # m
    BY <1>6, <1>8
  <2>4. (ReadTo(n, g) <=> ReadTo(n - 1, g)) /\ (ReadTo(n, m) <=> ReadTo(n - 1, m))
    BY <1>1, <2>3 DEF ReadTo
  <2>5. DOMAIN t = ReadFields /\ t.ok = TRUE /\ (~ReadTo(n, g) => IsTuple(t.hp))
    BY <1>4, <2>2, <2>4 DEF SameAddresses
  <2>6. ASSUME n < d PROVE Unaddressed(items, n, t)
    <3>1. (\E i \in 1..n : items[i][1] = "-net") <=> (\E i \in 1..(n - 1) : items[i][1] = "-net") \/ x[1] = "-net"
      BY <1>5
    <3>2. Unaddressed(items, n - 1, s)
      <4>1. n - 1 < d
        BY <1>5, <2>6
      <4> QED BY <4>1 DEF AddressesTo
    <3> QED BY <2>2, <3>1, <3>2 DEF Unaddressed, SameAddresses
  <2>7. ASSUME n > d PROVE Addressed(items, o, d, g, m, n, t)
    <3>1. x[1] # "-net"
      BY <1>1, <1>5, <2>7
    <3>2. Route!Tried(t) = Route!Tried(s)
      BY <2>2 DEF SameAddresses, Route!Tried
    <3>3. Addressed(items, o, d, g, m, n - 1, s)
      <4>1. n - 1 >= d
        BY <1>5, <2>7
      <4> QED BY <4>1 DEF AddressesTo
    <3> HIDE DEF x
    <3> QED BY <2>2, <2>4, <3>1, <3>2, <3>3 DEF Addressed, SameAddresses
  <2>8. n >= d => n > d
    BY <1>1, <2>3
  <2> QED BY <2>2, <2>5, <2>6, <2>7, <2>8 DEF AddressesTo
<1>9. CASE n = d
  <2>1. /\ s.addrs = {} /\ s.dst = Route!Zero /\ s.mask = Route!Zero /\ s.hp = <<>>
        /\ s.forcenet <=> \E i \in 1..(n - 1) : items[i][1] = "-net"
    BY <1>5, <1>9 DEF AddressesTo, Unaddressed
  <2>2. s.forcenet <=> "-net" \in o
    BY <1>1, <1>2, <1>9, <2>1
  <2>3. x[1] = "arg" /\ Route!IsWord(x[2])
    BY <1>6, <1>9 DEF Route!IsItem
  <2>4. Route!PlainDestination(o, x[2])
    BY <1>9 DEF PlainCommand, Route!Plain
  <2>5. HasDestination(o, x[2], s, t)
    BY <1>4, <2>1, <2>2, <2>3, <2>4, DestinationItem
  <2>6. ~ReadTo(n, g) /\ ~ReadTo(n, m) /\ ~(n < d)
    BY <1>1, <1>9 DEF ReadTo
  <2>7. AddressesTo(items, o, d, g, m, n, t)
    BY <1>9, <2>5, <2>6 DEF AddressesTo, Addressed, HasDestination
  <2> QED BY <1>7, <2>3, <2>5, <2>7 DEF HasDestination
<1>10. CASE n = g
  <2>1. n > d /\ n # m /\ n - 1 >= d /\ n >= d /\ ~(n < d)
    BY <1>1, <1>6, <1>10
  <2>2. ~ReadTo(n - 1, g) /\ ReadTo(n, g) /\ (ReadTo(n, m) <=> ReadTo(n - 1, m))
    BY <1>1, <1>10, <2>1 DEF ReadTo
  <2>3. Addressed(items, o, d, g, m, n - 1, s) /\ IsTuple(s.hp)
    BY <1>4, <2>1, <2>2 DEF AddressesTo
  <2>4. s.iflag <=> {"-iface", "-interface"} \cap o # {}
    <3>1. s.iflag <=> \E i \in 1..(n - 1) : items[i][1] \in {"-iface", "-interface"}
      BY DEF OptionsTo
    <3>2. \A i \in 1..N : items[i][1] \in {"-iface", "-interface"} => i \in 1..(n - 1)
      <4>1. \A i \in 1..N : i < d => i \in 1..(n - 1)
        BY <1>5, <2>1
      <4> QED BY <1>1, <4>1
    <3>3. \A i \in 1..(n - 1) : i \in 1..N
      BY <1>5
    <3> QED BY <1>3, <3>1, <3>2, <3>3
  <2>5. x[1] = "arg" /\ Route!IsWord(x[2])
    BY <1>6, <1>10 DEF Route!IsItem
  <2>6. Route!PlainGateway(o, x[2])
    <3>1. g # 0
      BY <1>1, <2>1, <1>10
    <3> QED BY <1>10, <3>1 DEF PlainCommand, Route!Plain
  <2>7. WithGateway(s, t) /\ Reaches(Route!Tried(t), Route!GatesMeant(x[2]))
    <3>1. "dst" \in s.addrs /\ "gateway" \notin s.addrs
      BY <2>2, <2>3 DEF Addressed
    <3> QED BY <1>4, <2>3, <2>4, <2>5, <2>6, <3>1, GatewayItem
  <2>8. Addressed(items, o, d, g, m, n, t)
    BY <1>10, <2>2, <2>3, <2>7 DEF Addressed, WithGateway
  <2>9. AddressesTo(items, o, d, g, m, n, t)
    BY <1>4, <2>1, <2>2, <2>7, <2>8 DEF AddressesTo, WithGateway
  <2> QED BY <1>7, <2>5, <2>7, <2>9 DEF WithGateway
<1>11. CASE n = m
  <2>1. n > d /\ n # g /\ n - 1 >= d /\ n >= d /\ ~(n < d) /\ m # 0
    BY <1>1, <1>6, <1>11
  <2>2. ~ReadTo(n - 1, m) /\ ReadTo(n, m) /\ (ReadTo(n, g) <=> ReadTo(n - 1, g))
    BY <1>1, <1>11, <2>1 DEF ReadTo
  <2>3. x[1] = "-netmask" /\ Len(x) = 2 /\ x[2][1] = "dotted" /\ Route!IsWord(x[2])
    BY <1>6, <1>11 DEF Route!IsItem, Route!Understood, Route!Switches, Route!Metrics, Route!RouteFlags
  <2>4. HasMask(s, x, t)
    <3>1. t = Route!ReadItem(s, x)
      OBVIOUS
    <3> HIDE DEF x
    <3> QED BY <1>4, <2>3, <3>1, MaskItem
  <2>5. Route!Tried(t) = Route!Tried(s)
    BY <2>4 DEF Route!Tried, HasMask
  <2>6. Addressed(items, o, d, g, m, n, t)
    <3>1. Addressed(items, o, d, g, m, n - 1, s)
      BY <2>1 DEF AddressesTo
    <3> QED BY <1>11, <2>2, <2>4, <2>5, <3>1 DEF Addressed, HasMask
  <2>7. AddressesTo(items, o, d, g, m, n, t)
    BY <1>4, <2>1, <2>2, <2>4, <2>6 DEF AddressesTo, HasMask
  <2> QED BY <1>7, <2>3, <2>4, <2>7 DEF HasMask
<1> QED BY <1>6, <1>8, <1>9, <1>10, <1>11

LEMMA ItemsUnroll ==
    ASSUME NEW items, Len(items) \in Nat
    PROVE  \E g : g = [n \in 0..Len(items) |-> IF n = 0 THEN Route!Blank ELSE Route!ReadItem(g[n - 1], items[n])]
<1> DEFINE N == Len(items)
           F(n, g) == [i \in 0..n |-> IF i = 0 THEN Route!Blank ELSE Route!ReadItem(g[i - 1], items[i])]
           G == {n \in 0..N : \E g : g = F(n, g)}
<1>1. 0 \in G
  <2> DEFINE g == [i \in 0..0 |-> Route!Blank]
  <2>1. g = F(0, g)
    OBVIOUS
  <2> HIDE DEF g, F
  <2> QED BY <2>1
<1>2. ASSUME NEW n \in 1..N, n - 1 \in G PROVE n \in G
  <2>1. PICK g : g = F(n - 1, g)
    BY <1>2
  <2>2. \A i \in 0..(n - 1) : g[i] = IF i = 0 THEN Route!Blank ELSE Route!ReadItem(g[i - 1], items[i])
    BY <2>1
  <2> DEFINE h == [i \in 0..n |-> IF i = n THEN Route!ReadItem(g[n - 1], items[n]) ELSE g[i]]
  <2>3. ASSUME NEW i \in 0..n
        PROVE  h[i] = IF i = 0 THEN Route!Blank ELSE Route!ReadItem(h[i - 1], items[i])
    <3>1. CASE i = n
      BY <3>1
    <3>2. CASE i # n
      BY <2>2, <3>2
    <3> QED BY <3>1, <3>2
  <2>4. h = F(n, h)
    <3>1. DOMAIN h = DOMAIN F(n, h) /\ \A i \in DOMAIN h : h[i] = F(n, h)[i]
      BY <2>3
    <3> QED BY <3>1
  <2> HIDE DEF h, F
  <2> QED BY <2>4
<1>3. \A n \in 0..N : n \in G
  <2> HIDE DEF G
  <2> QED BY <1>1, <1>2, InductionUpTo
<1> QED BY <1>3

LEMMA NothingRead ==
    ASSUME NEW items, NEW o, NEW d \in Nat \ {0}, NEW g, NEW m
    PROVE  AddressesTo(items, o, d, g, m, 0, Route!Blank) /\ OptionsTo(items, 0, Route!Blank)
<1>1. 1..0 = {}
  OBVIOUS
<1>2. OptionsTo(items, 0, Route!Blank)
  BY <1>1 DEF OptionsTo, FlagsTo, StaticTo, InitsTo, LocksTo, Route!Blank
<1>3. /\ DOMAIN Route!Blank = ReadFields /\ Route!Blank.ok = TRUE /\ IsTuple(Route!Blank.hp)
      /\ Unaddressed(items, 0, Route!Blank)
  BY <1>1, ShortTuples DEF ReadFields, Unaddressed, Route!Blank
<1>4. ~(0 >= d)
  OBVIOUS
<1> QED BY <1>2, <1>3, <1>4 DEF AddressesTo

LEMMA ItemsRead ==
    ASSUME Route!CommandsTyped,
           NEW items, NEW o, NEW d, NEW g, NEW m, PlainCommand(items, o, d, g, m),
           NEW s, s = Route!ReadItems(items)[Len(items)]
    PROVE  AddressesTo(items, o, d, g, m, Len(items), s) /\ OptionsTo(items, Len(items), s)
<1> DEFINE N == Len(items)
           r == Route!ReadItems(items)
           Known(n) == AddressesTo(items, o, d, g, m, n, r[n]) /\ OptionsTo(items, n, r[n])
           G == {n \in 0..N : Known(n)}
<1>1. N \in Nat /\ d \in 1..N
  BY CommandShape
<1>2. r = [n \in 0..N |-> IF n = 0 THEN Route!Blank ELSE Route!ReadItem(r[n - 1], items[n])]
  <2> DEFINE c == CHOOSE f : f = [n \in 0..N |-> IF n = 0 THEN Route!Blank ELSE Route!ReadItem(f[n - 1], items[n])]
  <2>1. c = [n \in 0..N |-> IF n = 0 THEN Route!Blank ELSE Route!ReadItem(c[n - 1], items[n])]
    <3> HIDE DEF c
    <3> QED BY <1>1, ItemsUnroll DEF c
  <2>2. r = c
    BY DEF Route!ReadItems
  <2> HIDE DEF c, r
  <2> QED BY <2>1, <2>2
<1>3. s = r[N]
  OBVIOUS
<1> HIDE DEF r
<1>4. \A n \in 0..N : r[n] = IF n = 0 THEN Route!Blank ELSE Route!ReadItem(r[n - 1], items[n])
  BY <1>2
<1>5. 0 \in G
  <2>1. r[0] = Route!Blank /\ d \in Nat \ {0} /\ 0 \in 0..N
    BY <1>1, <1>4
  <2> QED BY <2>1, NothingRead
<1>6. ASSUME NEW n \in 1..N, n - 1 \in G PROVE n \in G
  <2>1. n \in 0..N /\ r[n] = Route!ReadItem(r[n - 1], items[n])
    BY <1>1, <1>4
  <2>2. n \in Nat /\ n > 0
    BY <1>1
  <2>3. AddressesTo(items, o, d, g, m, n - 1, r[n - 1]) /\ OptionsTo(items, n - 1, r[n - 1])
    BY <1>6
  <2>4. AddressesTo(items, o, d, g, m, n, r[n]) /\ OptionsAfter(r[n - 1], items[n], r[n])
    BY <2>1, <2>3, AddressesStep
  <2>5. OptionsTo(items, n, r[n])
    BY <2>2, <2>3, <2>4, OptionsStep
  <2> QED BY <2>1, <2>4, <2>5
<1> HIDE DEF G
<1>7. \A n \in 0..N : n \in G
  BY <1>1, <1>5, <1>6, InductionUpTo
<1>8. N \in 0..N
  BY <1>1
<1> QED BY <1>3, <1>7, <1>8 DEF G

\* The first loop has read all of a command, and meant is what the manual says of it.
AsMeant(s, meant, g, gates) ==
    /\ s.ok = TRUE /\ meant.family = "inet" /\ "dst" \in s.addrs /\ ("gateway" \in s.addrs <=> g # 0)
    /\ Route!Key(s) = meant.key /\ s.flags = meant.flags /\ s.inits = meant.inits /\ s.locks = meant.locks
    /\ g # 0 => Reaches(Route!Tried(s), gates)

LEMMA FinishedIs ==
    ASSUME NEW b, DOMAIN b = ReadFields, NEW s, s = Route!Finished(b),
           NEW host, host = ((b.forcehost \/ b.ishost) /\ ~b.forcenet)
    PROVE  /\ s.flags = b.flags \cup {"up"} \cup (IF host THEN {"host"} ELSE {})
                                \cup (IF b.iflag THEN {} ELSE {"gateway"})
           /\ s.ok = b.ok /\ s.addrs = b.addrs /\ s.dst = b.dst /\ s.mask = b.mask
           /\ s.inits = b.inits /\ s.locks = b.locks /\ Route!Tried(s) = Route!Tried(b)
<1> DEFINE F == b.flags \cup {"up"} \cup (IF host THEN {"host"} ELSE {}) \cup (IF b.iflag THEN {} ELSE {"gateway"})
           c == [b EXCEPT !.ishost = host]
<1>1. s = [c EXCEPT !.flags = F]
  BY DEF Route!Finished, ReadFields
<1> HIDE DEF F
<1>2. DOMAIN c = ReadFields /\ \A f \in ReadFields \ {"ishost"} : c[f] = b[f]
  BY DEF ReadFields
<1> HIDE DEF c
<1>3. DOMAIN s = ReadFields /\ s.flags = F /\ \A f \in ReadFields \ {"flags"} : s[f] = c[f]
  BY <1>1, <1>2 DEF ReadFields
<1>4. s.gate = b.gate /\ s.typed = b.typed /\ s.hp = b.hp
  BY <1>2, <1>3 DEF ReadFields
<1>5. Route!Tried(s) = Route!Tried(b)
  BY <1>4 DEF Route!Tried
<1>6. s.ok = b.ok /\ s.addrs = b.addrs /\ s.dst = b.dst /\ s.mask = b.mask /\ s.inits = b.inits /\ s.locks = b.locks
  BY <1>2, <1>3 DEF ReadFields
<1> QED BY <1>3, <1>5, <1>6 DEF F

\* The options of a command are as the manual says.
LEMMA OptionsMeant ==
    ASSUME NEW items, Len(items) \in Nat, DOMAIN items = 1..Len(items), NEW o, o = Route!Opts(items),
           NEW b, OptionsTo(items, Len(items), b), NEW w, NEW m,
           NEW meant, meant = Route!RouteMeant(items, o, w, m)
    PROVE  /\ b.iflag <=> {"-iface", "-interface"} \cap o # {}
           /\ b.forcehost <=> "-host" \in o
           /\ "host" \notin b.flags
           /\ b.inits = meant.inits /\ b.locks = meant.locks
           /\ meant.flags = b.flags \cup {"up"} \cup (IF Route!ToNet(o, w) THEN {} ELSE {"host"})
                                    \cup (IF b.iflag THEN {} ELSE {"gateway"})
           /\ meant.key = Route!KeyMeant(o, w, Route!Destination(o, w),
                                         Route!MaskMeant(items, o, w, Route!Destination(o, w), m))
<1> DEFINE N == Len(items)
<1>1. o = {items[i][1] : i \in 1..N}
  BY DEF Route!Opts
<1>2. b.iflag <=> {"-iface", "-interface"} \cap o # {}
  BY <1>1 DEF OptionsTo
<1>3. b.forcehost <=> "-host" \in o
  BY <1>1 DEF OptionsTo
<1>4. FlagsTo(items, N) = o \cap (Route!RouteFlags \ {"-static"})
  BY <1>1 DEF FlagsTo
<1>5. StaticTo(items, N) <=> Route!Static(items)
  <2>1. \A i \in 1..N : \A j \in 1..N : i < j <=> j \in (i + 1)..N
    OBVIOUS
  <2>2. \A i \in 1..N : \A j \in (i + 1)..N : j \in 1..N
    OBVIOUS
  <2>3. DOMAIN items = 1..N
    OBVIOUS
  <2> HIDE DEF N
  <2> QED BY <2>1, <2>2, <2>3 DEF StaticTo, Route!Static, Route!At
<1>6. b.flags = (o \cap (Route!RouteFlags \ {"-static"})) \cup (IF Route!Static(items) THEN {"-static"} ELSE {})
  BY <1>4, <1>5 DEF OptionsTo
<1>7. "host" \notin b.flags
  BY <1>6 DEF Route!RouteFlags
<1>8. meant.flags = (o \cap (Route!RouteFlags \ {"-static"})) \cup {"up"}
                    \cup (IF Route!Static(items) THEN {"-static"} ELSE {})
                    \cup (IF Route!ToNet(o, w) THEN {} ELSE {"host"})
                    \cup (IF {"-iface", "-interface"} \cap o = {} THEN {"gateway"} ELSE {})
  BY DEF Route!RouteMeant
<1>9. meant.flags = b.flags \cup {"up"} \cup (IF Route!ToNet(o, w) THEN {} ELSE {"host"})
                            \cup (IF b.iflag THEN {} ELSE {"gateway"})
  <2> DEFINE A == o \cap (Route!RouteFlags \ {"-static"})
             B == IF Route!Static(items) THEN {"-static"} ELSE {}
             C == IF Route!ToNet(o, w) THEN {} ELSE {"host"}
             D == IF b.iflag THEN {} ELSE {"gateway"}
  <2>1. meant.flags = A \cup {"up"} \cup B \cup C \cup D
    BY <1>2, <1>8
  <2>2. b.flags = A \cup B
    BY <1>6
  <2> HIDE DEF A, B, C, D
  <2>3. meant.flags = b.flags \cup {"up"} \cup C \cup D
    BY <2>1, <2>2
  <2> QED BY <2>3 DEF C, D
<1>10. b.inits = meant.inits
  <2>1. meant.inits = {items[i] : i \in {j \in {k \in 1..N : items[k][1] \in Route!Metrics} : Route!Stands(items, j)}}
    BY DEF Route!RouteMeant
  <2>2. {j \in {k \in 1..N : items[k][1] \in Route!Metrics} : Route!Stands(items, j)}
        = {j \in 1..N : items[j][1] \in Route!Metrics /\ \A k \in (j + 1)..N : items[k][1] # items[j][1]}
    BY DEF Route!Stands
  <2>3. b.inits = {items[i] : i \in {j \in 1..N : items[j][1] \in Route!Metrics
                                                  /\ \A k \in (j + 1)..N : items[k][1] # items[j][1]}}
    BY DEF OptionsTo, InitsTo
  <2> QED BY <2>1, <2>2, <2>3
<1>11. b.locks = meant.locks
  <2>1. meant.locks = {items[i][1] : i \in {j \in {k \in 1..N : items[k][1] \in Route!Metrics} : Route!Locked(items, j)}}
    BY DEF Route!RouteMeant
  <2>2. {j \in {k \in 1..N : items[k][1] \in Route!Metrics} : Route!Locked(items, j)}
        = {j \in 1..N : items[j][1] \in Route!Metrics /\ Route!Locked(items, j)}
    OBVIOUS
  <2>3. b.locks = {items[i][1] : i \in {j \in 1..N : items[j][1] \in Route!Metrics /\ Route!Locked(items, j)}}
    BY DEF OptionsTo, LocksTo
  <2> QED BY <2>1, <2>2, <2>3
<1>12. meant.key = Route!KeyMeant(o, w, Route!Destination(o, w),
                                  Route!MaskMeant(items, o, w, Route!Destination(o, w), m))
  BY DEF Route!RouteMeant
<1> QED BY <1>2, <1>3, <1>7, <1>9, <1>10, <1>11, <1>12

LEMMA RouteCommandRead ==
    ASSUME Route!CommandsTyped,
           NEW items, NEW o, NEW d, NEW g, NEW m, PlainCommand(items, o, d, g, m),
           NEW s, s = Route!Read(items)
    PROVE  AsMeant(s, Route!RouteMeant(items, o, items[d][2], m), g, Route!GatesMeant(items[g][2]))
<1> DEFINE N == Len(items)
           w == items[d][2]
           b == Route!ReadItems(items)[N]
           D == Route!Destination(o, w)
           M == Route!MaskMeant(items, o, w, D, m)
           meant == Route!RouteMeant(items, o, w, m)
           gates == Route!GatesMeant(items[g][2])
           host == (b.forcehost \/ b.ishost) /\ ~b.forcenet
<1>1. /\ N \in Nat /\ DOMAIN items = 1..N /\ d \in 1..N /\ g \in 0..N /\ (g = 0 \/ d < g) /\ m \in 0..N /\ (m = 0 \/ d < m)
      /\ \A i \in 1..N : Route!IsItem(items[i]) /\ (items[i][1] = "-netmask" <=> i = m) /\ (items[i][1] = "arg" <=> i = d \/ i = g)
  BY CommandShape
<1>2. AddressesTo(items, o, d, g, m, N, b) /\ OptionsTo(items, N, b)
  BY ItemsRead
<1>3. s = Route!Finished(b)
  BY DEF Route!Read
<1>4. o = Route!Opts(items) /\ Route!PlainDestination(o, w)
  BY DEF PlainCommand, Route!Plain
<1>5. Route!IsWord(w)
  <2>1. Route!IsItem(items[d]) /\ items[d][1] = "arg"
    BY <1>1
  <2> QED BY <2>1 DEF Route!IsItem
<1> HIDE DEF N, b
<1>6. (ReadTo(N, g) <=> g # 0) /\ (ReadTo(N, m) <=> m # 0)
  BY <1>1 DEF ReadTo
<1>7. Addressed(items, o, d, g, m, N, b) /\ DOMAIN b = ReadFields /\ b.ok = TRUE
  <2>1. N >= d
    BY <1>1
  <2> QED BY <1>2, <2>1 DEF AddressesTo
<1>8. "-netmask" \in o <=> m # 0
  <2>1. o = {items[i][1] : i \in 1..N}
    BY <1>1, <1>4 DEF Route!Opts
  <2>2. m # 0 => m \in 1..N
    BY <1>1
  <2>3. \A i \in 1..N : items[i][1] = "-netmask" <=> i = m
    BY <1>1
  <2>4. 0 \notin 1..N
    OBVIOUS
  <2> QED BY <2>1, <2>2, <2>3, <2>4
<1>9. /\ b.iflag <=> {"-iface", "-interface"} \cap o # {}
      /\ b.forcehost <=> "-host" \in o
      /\ "host" \notin b.flags
      /\ b.inits = meant.inits /\ b.locks = meant.locks
      /\ meant.flags = b.flags \cup {"up"} \cup (IF Route!ToNet(o, w) THEN {} ELSE {"host"})
                               \cup (IF b.iflag THEN {} ELSE {"gateway"})
      /\ meant.key = Route!KeyMeant(o, w, D, M)
  BY <1>1, <1>2, <1>4, OptionsMeant DEF N
<1>10. /\ s.flags = b.flags \cup {"up"} \cup (IF host THEN {"host"} ELSE {}) \cup (IF b.iflag THEN {} ELSE {"gateway"})
       /\ s.ok = b.ok /\ s.addrs = b.addrs /\ s.dst = b.dst /\ s.mask = b.mask
       /\ s.inits = b.inits /\ s.locks = b.locks /\ Route!Tried(s) = Route!Tried(b)
  BY <1>3, <1>7, FinishedIs, ZenonT(60)
<1>11. w[1] \in {"default", "dotted", "name", "slash"}
  BY <1>5 DEF Route!IsWord
<1>12. /\ b.ishost <=> ToHost(o, w)
       /\ b.forcenet <=> "-net" \in o \/ w[1] = "default" \/ m # 0
       /\ "dst" \in b.addrs /\ b.dst = D /\ ("gateway" \in b.addrs <=> g # 0)
       /\ "netmask" \in b.addrs <=> ~ToHost(o, w) \/ m # 0
       /\ m # 0 => b.mask = Route!InetAddr(items[m][2][2])
       /\ m = 0 /\ ~ToHost(o, w) => b.mask = Route!MaskMeant(<<>>, o, w, D, 0)
       /\ g # 0 => Reaches(Route!Tried(b), gates)
  BY <1>6, <1>7 DEF Addressed
<1> HIDE DEF w, meant, gates, D, M
<1>13. host <=> ~Route!ToNet(o, w)
  BY <1>8, <1>9, <1>11, <1>12 DEF Route!ToNet, ToHost
<1> HIDE DEF host
<1>14. s.flags = meant.flags
  BY <1>9, <1>10, <1>13
<1>15. "host" \in s.flags <=> host
  BY <1>9, <1>10
<1>16. ASSUME ~host PROVE "netmask" \in s.addrs /\ s.mask = M
  <2>1. ~ToHost(o, w) \/ m # 0
    BY <1>4, <1>8, <1>11, <1>13, <1>16 DEF Route!ToNet, ToHost, Route!PlainDestination
  <2>2. m # 0 => M = Route!InetAddr(items[m][2][2])
    BY DEF M, Route!MaskMeant
  <2>3. m = 0 => M = Route!MaskMeant(<<>>, o, w, D, 0)
    BY DEF M, Route!MaskMeant
  <2> QED BY <1>10, <1>12, <2>1, <2>2, <2>3
<1>17. Route!Key(s) = meant.key
  <2>1. CASE host
    BY <1>9, <1>10, <1>12, <1>13, <1>15, <2>1 DEF Route!Key, Route!KeyMeant
  <2>2. CASE ~host
    BY <1>9, <1>10, <1>12, <1>13, <1>15, <1>16, <2>2 DEF Route!Key, Route!KeyMeant
  <2> QED BY <2>1, <2>2
<1>18. meant.family = "inet"
  BY DEF meant, Route!RouteMeant
<1>19. AsMeant(s, meant, g, gates)
  BY <1>18, <1>7, <1>9, <1>10, <1>12, <1>14, <1>17 DEF AsMeant
<1> QED
  BY <1>19 DEF meant, gates, w


LEMMA RouteMin ==
    ASSUME NEW S \in SUBSET Nat, NEW k \in S, \A i \in S : k <= i
    PROVE  Route!Min(S) = k
<1>1. \A j \in S : (\A i \in S : j <= i) => j = k
  <2> SUFFICES ASSUME NEW j \in S, \A i \in S : j <= i PROVE j = k
    OBVIOUS
  <2>1. j <= k /\ k <= j /\ j \in Nat /\ k \in Nat
    OBVIOUS
  <2> QED BY <2>1
<1> QED BY <1>1 DEF Route!Min

LEMMA LeastOf ==
    ASSUME NEW S \in SUBSET Nat, S # {}
    PROVE  \E k \in S : \A i \in S : k <= i
<1> DEFINE R == {ss \in Nat \X Nat : ss[1] < ss[2]}
<1>1. PICK k \in S : \A i \in S : <<i, k>> \notin R
  <2>1. IsWellFoundedOn(R, Nat)
    BY NatLessThanWellFounded DEF OpToRel
  <2> HIDE DEF R
  <2> QED BY <2>1, WFMin
<1>2. ASSUME NEW i \in S PROVE k <= i
  <2>1. i \in Nat /\ k \in Nat /\ <<i, k>> \notin R
    BY <1>1
  <2>2. i < k => <<i, k>> \in R
    BY <2>1
  <2> HIDE DEF R
  <2>3. ~(i < k)
    BY <2>1, <2>2
  <2> QED BY <2>1, <2>3
<1> QED BY <1>2

\* Without a gateway it does not matter what is in so_gate.
LEMMA OutcomeWithout ==
    ASSUME NEW t, NEW cmd \in {"add", "change", "delete"}, NEW s, NEW meant, NEW gates, AsMeant(s, meant, 0, gates),
           NEW gate
    PROVE  Route!Requested(t, cmd, s, gate) = Route!Effect(t, cmd, meant, <<>>)
<1> DEFINE old == Route!Same(t, meant.key)
<1>1. /\ "dst" \in s.addrs /\ "gateway" \notin s.addrs /\ Route!Key(s) = meant.key
      /\ s.inits = meant.inits /\ s.locks = meant.locks
  BY DEF AsMeant
<1>2. DOMAIN <<>> = {} /\ {i \in DOMAIN <<>> : <<>>[i] \in RouteNear} = {}
  OBVIOUS
<1>3. CASE cmd = "add"
  <2>1. Route!Requested(t, cmd, s, gate) = t
    BY <1>1, <1>3 DEF Route!Requested, Route!Errno
  <2>2. Route!Effect(t, cmd, meant, <<>>) = t
    BY <1>2, <1>3 DEF Route!Effect
  <2> QED BY <2>1, <2>2
<1>4. CASE cmd = "delete"
  <2>1. Route!Errno(t, cmd, s, gate) = IF old = {} THEN "ESRCH" ELSE "done"
    BY <1>1, <1>4 DEF Route!Errno
  <2>2. Route!Requested(t, cmd, s, gate) = t \ old
    BY <1>1, <1>4, <2>1 DEF Route!Requested
  <2>3. Route!Effect(t, cmd, meant, <<>>) = t \ old
    BY <1>4 DEF Route!Effect
  <2> QED BY <2>2, <2>3
<1>5. CASE cmd = "change"
  <2> DEFINE C(r) == Route!Changed(r, <<>>, meant.inits, meant.locks)
  <2>1. Route!Errno(t, cmd, s, gate) = IF old = {} THEN "ESRCH" ELSE "done"
    BY <1>1, <1>5 DEF Route!Errno
  <2>2. Route!Effect(t, cmd, meant, <<>>) = (t \ old) \cup {C(r) : r \in old}
    BY <1>2, <1>5 DEF Route!Effect
  <2>3. CASE old = {}
    <3>1. Route!Requested(t, cmd, s, gate) = t
      BY <2>1, <2>3 DEF Route!Requested
    <3>2. (t \ old) \cup {C(r) : r \in old} = t
      <4> HIDE DEF C, old
      <4> QED BY <2>3
    <3> QED BY <2>2, <3>1, <3>2
  <2>4. CASE old # {}
    <3>1. Route!Requested(t, cmd, s, gate) = (t \ old) \cup {C(r) : r \in old}
      BY <1>1, <1>5, <2>1, <2>4 DEF Route!Requested
    <3> QED BY <2>2, <3>1
  <2> QED BY <2>3, <2>4
<1> QED BY <1>3, <1>4, <1>5

\* The last attempt is with the first of the gateways that can be reached, if there is one.
LEMMA LastAttempt ==
    ASSUME NEW t, NEW cmd, NEW s, NEW gates, Reaches(Route!Tried(s), gates),
           \A a : Route!Errno(t, cmd, s, a) \in {"ENETUNREACH", "ESRCH"} <=> a \notin RouteNear,
           NEW reached, reached = {i \in DOMAIN gates : gates[i] \in RouteNear}
    PROVE  /\ reached = {} => Route!Attempt(t, cmd, s) \notin RouteNear
           /\ reached # {} => /\ Route!Attempt(t, cmd, s) = gates[Route!Min(reached)]
                              /\ Route!Attempt(t, cmd, s) \in RouteNear
<1> DEFINE q == Route!Tried(s)
           n == Len(q)
           k == Len(gates)
           stops == {i \in DOMAIN q : i = n \/ Route!Errno(t, cmd, s, q[i]) \notin {"ENETUNREACH", "ESRCH"}}
<1>1. n \in Nat /\ k \in Nat \ {0} /\ k <= n /\ DOMAIN q = 1..n /\ DOMAIN gates = 1..k
  BY LengthOfTuple DEF Reaches, IsTuple
<1>2. (\A i \in 1..k : q[i] = gates[i]) /\ \A i \in 1..n : i > k => q[i] \notin RouteNear
  BY DEF Reaches
<1>3. Route!Attempt(t, cmd, s) = q[Route!Min(stops)]
  BY DEF Route!Attempt
<1> HIDE DEF q, n, k
<1>4. stops = {i \in 1..n : i = n \/ q[i] \in RouteNear}
  BY <1>1
<1>5. reached = {i \in 1..k : gates[i] \in RouteNear}
  BY <1>1
<1> HIDE DEF stops
<1>6. CASE reached = {}
  <2>1. \A i \in 1..n : q[i] \notin RouteNear
    <3> SUFFICES ASSUME NEW i \in 1..n PROVE q[i] \notin RouteNear
      OBVIOUS
    <3>1. CASE i > k
      BY <1>2, <3>1
    <3>2. CASE i \in 1..k
      BY <1>2, <1>5, <1>6, <3>2
    <3>3. i > k \/ i \in 1..k
      BY <1>1
    <3> QED BY <3>1, <3>2, <3>3
  <2>2. n \in 1..n
    BY <1>1
  <2>3. stops = {n}
    BY <1>4, <2>1, <2>2
  <2>4. Route!Min(stops) = n
    <3>1. stops \in SUBSET Nat /\ n \in stops /\ \A i \in stops : n <= i
      BY <1>1, <2>3
    <3> QED BY <3>1, RouteMin
  <2> QED BY <1>3, <1>6, <2>1, <2>2, <2>4
<1>7. CASE reached # {}
  <2>1. PICK j \in reached : \A i \in reached : j <= i
    <3>1. reached \in SUBSET Nat
      BY <1>1, <1>5
    <3> QED BY <1>7, <3>1, LeastOf
  <2>2. j \in 1..k /\ j \in 1..n /\ gates[j] \in RouteNear /\ q[j] = gates[j]
    BY <1>1, <1>2, <1>5
  <2>3. Route!Min(reached) = j
    <3>1. reached \in SUBSET Nat
      BY <1>1, <1>5
    <3> QED BY <2>1, <3>1, RouteMin
  <2>4. ASSUME NEW i \in stops PROVE j <= i
    <3>1. i \in 1..n /\ (i = n \/ q[i] \in RouteNear)
      BY <1>4
    <3>2. CASE i \in 1..k /\ q[i] \in RouteNear
      <4>1. i \in reached
        BY <1>2, <1>5, <3>2
      <4> QED BY <2>1, <4>1
    <3>3. CASE i = n
      BY <1>1, <2>2, <3>3
    <3>4. CASE i > k /\ q[i] \in RouteNear
      BY <1>2, <3>1, <3>4
    <3>5. i \in 1..k \/ i > k
      BY <1>1, <3>1
    <3> QED BY <3>1, <3>2, <3>3, <3>4, <3>5
  <2>5. Route!Min(stops) = j
    <3>1. stops \in SUBSET Nat /\ j \in stops
      BY <1>1, <1>4, <2>2
    <3> QED BY <2>4, <3>1, RouteMin
  <2> QED BY <1>3, <1>7, <2>2, <2>3, <2>5
<1> QED BY <1>6, <1>7

LEMMA OutcomeWith ==
    ASSUME NEW t, NEW cmd \in {"add", "change", "delete"}, NEW s, NEW meant, NEW g, g # 0,
           NEW gates, AsMeant(s, meant, g, gates), NEW gate, gate = Route!Attempt(t, cmd, s)
    PROVE  Route!Requested(t, cmd, s, gate) = Route!Effect(t, cmd, meant, gates)
<1> DEFINE old == Route!Same(t, meant.key)
           reached == {i \in DOMAIN gates : gates[i] \in RouteNear}
           near == IF reached = {} THEN <<>> ELSE <<gates[Route!Min(reached)]>>
           C(r) == Route!Changed(r, near, meant.inits, meant.locks)
           E(a) == Route!Errno(t, cmd, s, a)
           X == Route!Requested(t, cmd, s, gate)
           Y == Route!Effect(t, cmd, meant, gates)
<1>1. /\ "dst" \in s.addrs /\ "gateway" \in s.addrs /\ Route!Key(s) = meant.key /\ meant.family = "inet"
      /\ s.inits = meant.inits /\ s.locks = meant.locks /\ s.flags = meant.flags /\ Reaches(Route!Tried(s), gates)
  BY DEF AsMeant
<1>2. gates # <<>> /\ (reached # {} => near # <<>> /\ near[1] = gates[Route!Min(reached)])
  <2>1. Len(gates) # 0
    BY <1>1 DEF Reaches
  <2> HIDE DEF reached
  <2> QED BY <2>1, EmptyIsTuple, ShortTuples
<1>3. ASSUME cmd = "delete" PROVE X = Y
  <2>1. E(gate) = IF old = {} THEN "ESRCH" ELSE "done"
    BY <1>1, <1>3 DEF Route!Errno
  <2>2. X = t \ old
    BY <1>1, <1>3, <2>1 DEF Route!Requested
  <2>3. Y = t \ old
    BY <1>3 DEF Route!Effect
  <2> QED BY <2>2, <2>3
<1>4. ASSUME cmd = "change", old = {} PROVE X = Y
  <2>1. E(gate) = "ESRCH"
    BY <1>1, <1>4 DEF Route!Errno
  <2>2. X = t
    BY <2>1 DEF Route!Requested
  <2>3. Y = t \/ Y = (t \ old) \cup {C(r) : r \in old}
    BY <1>4 DEF Route!Effect
  <2> HIDE DEF old, C, X, Y
  <2> QED BY <1>4, <2>2, <2>3
<1>5. ASSUME cmd = "add" \/ old # {}, cmd # "delete" PROVE X = Y
  <2>1. \A a : E(a) = IF a \notin RouteNear THEN "ENETUNREACH" ELSE IF cmd = "add" /\ old # {} THEN "EEXIST" ELSE "done"
    BY <1>1, <1>5 DEF Route!Errno
  <2>2. /\ reached = {} => gate \notin RouteNear
        /\ reached # {} => gate = gates[Route!Min(reached)] /\ gate \in RouteNear
    <3>1. \A a : E(a) \in {"ENETUNREACH", "ESRCH"} <=> a \notin RouteNear
      BY <2>1
    <3> QED BY <1>1, <3>1, LastAttempt
  <2>3. CASE reached = {}
    <3>1. X = t
      BY <2>1, <2>2, <2>3 DEF Route!Requested
    <3>2. Y = t
      BY <1>2, <1>5, <2>3 DEF Route!Effect
    <3> QED BY <3>1, <3>2
  <2>4. CASE reached # {} /\ cmd = "add" /\ old # {}
    <3>1. X = t
      BY <2>1, <2>2, <2>4 DEF Route!Requested
    <3>2. Y = t
      BY <2>4 DEF Route!Effect
    <3> QED BY <3>1, <3>2
  <2>5. CASE reached # {} /\ cmd = "add" /\ old = {}
    <3>1. X = t \cup {Route!Entry(s, gate)}
      BY <2>1, <2>2, <2>5 DEF Route!Requested
    <3>2. Y = t \cup {Route!With(meant, near[1])}
      BY <1>2, <2>5 DEF Route!Effect
    <3>3. Route!Entry(s, gate) = Route!With(meant, gate)
      BY <1>1 DEF Route!Entry, Route!With
    <3> QED BY <1>2, <2>2, <2>5, <3>1, <3>2, <3>3
  <2>6. CASE reached # {} /\ cmd = "change"
    <3>1. E(gate) = "done"
      BY <2>1, <2>2, <2>6
    <3>2. X = (t \ old) \cup {Route!Changed(r, <<gate>>, meant.inits, meant.locks) : r \in old}
      BY <1>1, <2>6, <3>1 DEF Route!Requested
    <3>3. Y = (t \ old) \cup {C(r) : r \in old}
      BY <1>2, <2>6 DEF Route!Effect
    <3>4. near = <<gate>>
      BY <2>2, <2>6
    <3> QED BY <3>2, <3>3, <3>4
  <2> QED BY <1>5, <2>3, <2>4, <2>5, <2>6
<1> QED BY <1>3, <1>4, <1>5


\* The commands are as they are typed, and the last one did as it says.
CommandInv ==
    /\ IsTuple(todo) /\ \A k \in DOMAIN todo : Route!IsCommand(todo[k])
    /\ pc \in {"flush", "done"} => todo # <<>>
    /\ Route!Commanded

LEMMA NonemptyTuple ==
    ASSUME NEW q, IsTuple(q), q # <<>>
    PROVE  1 \in DOMAIN q
<1>1. PICK n \in Nat : DOMAIN q = 1..n /\ q = [i \in 1..n |-> q[i]]
  BY DEF IsTuple
<1>2. n # 0
  <2> SUFFICES ASSUME n = 0 PROVE FALSE
    OBVIOUS
  <2>1. DOMAIN q = {}
    BY <1>1
  <2>2. IsTuple(<<>>) /\ DOMAIN <<>> = {}
    BY ShortTuples
  <2> QED BY <2>1, <2>2, SameTuple
<1> QED BY <1>1, <1>2

\* What the manual says that the command c makes of the table t is u.
Makes(t, c, o, u) ==
    \A d \in DOMAIN c.items, g, m \in DOMAIN c.items \cup {0} :
        Route!Plain(c.items, o, d, g, m) =>
            u = Route!Effect(t, c.cmd, Route!RouteMeant(c.items, o, c.items[d][2], m),
                             IF g = 0 THEN <<>> ELSE Route!GatesMeant(c.items[g][2]))

LEMMA CommandObeyed ==
    ASSUME Route!CommandsTyped, NEW c, Route!IsCommand(c), c.cmd # "flush",
           NEW s, s = Route!Read(c.items), NEW o, o = Route!Opts(c.items), NEW t, NEW u,
           u = IF s.ok THEN Route!Requested(t, c.cmd, s, Route!Attempt(t, c.cmd, s)) ELSE t
    PROVE  Makes(t, c, o, u)
<1> DEFINE items == c.items
           cmd == c.cmd
           gate == Route!Attempt(t, cmd, s)
<1> SUFFICES ASSUME NEW d \in DOMAIN items, NEW g \in DOMAIN items \cup {0}, NEW m \in DOMAIN items \cup {0},
                    Route!Plain(items, o, d, g, m)
             PROVE  u = Route!Effect(t, cmd, Route!RouteMeant(items, o, items[d][2], m),
                                     IF g = 0 THEN <<>> ELSE Route!GatesMeant(items[g][2]))
  BY DEF Makes
<1> DEFINE meant == Route!RouteMeant(items, o, items[d][2], m)
           gates == Route!GatesMeant(items[g][2])
<1>1. PlainCommand(items, o, d, g, m)
  BY DEF PlainCommand, Route!IsCommand
<1>2. AsMeant(s, meant, g, gates)
  BY <1>1, RouteCommandRead
<1>3. cmd \in {"add", "change", "delete"}
  BY DEF Route!IsCommand
<1> HIDE DEF meant, gates, cmd
<1>4. u = Route!Requested(t, cmd, s, gate)
  BY <1>2 DEF AsMeant, cmd
<1> HIDE DEF items, gate
<1>5. CASE g = 0
  <2>1. u = Route!Effect(t, cmd, meant, <<>>)
    <3>1. AsMeant(s, meant, 0, gates)
      BY <1>2, <1>5
    <3> QED BY <1>3, <1>4, <3>1, OutcomeWithout
  <2> QED BY <1>5, <2>1 DEF meant
<1>6. CASE g # 0
  <2>1. u = Route!Effect(t, cmd, meant, gates)
    BY <1>2, <1>3, <1>4, <1>6, OutcomeWith DEF gate
  <2> QED BY <1>6, <2>1 DEF meant, gates
<1> QED BY <1>5, <1>6

LEMMA NewRouteObeys ==
    ASSUME Route!CommandsTyped, CommandInv, Route!NewRoute
    PROVE  CommandInv'
<1>1. pc = "main" /\ todo # <<>> /\ todo' = todo /\ was' = table /\ pc' = "done"
  BY DEF Route!NewRoute
<1>2. Route!Current.cmd # "flush" /\ Route!Current' = todo[1] /\ Route!Current = todo[1]
  BY <1>1 DEF Route!NewRoute, Route!Current
<1> DEFINE c == todo[1]
           s == Route!Read(c.items)
<1>3. table' = IF s.ok THEN Route!Requested(table, c.cmd, s, Route!Attempt(table, c.cmd, s)) ELSE table
  BY DEF Route!NewRoute, Route!Current
<1>4. Route!IsCommand(c)
  <2>1. 1 \in DOMAIN todo
    BY <1>1, NonemptyTuple DEF CommandInv
  <2> QED BY <2>1 DEF CommandInv
<1>5. Route!Obeys(was, Route!Current.cmd, Route!Current.items, Route!Opts(Route!Current.items))'
  <2> DEFINE o == Route!Opts(c.items)
  <2>1. Makes(table, c, o, table')
    <3>1. c.cmd # "flush" /\ s = Route!Read(c.items) /\ o = Route!Opts(c.items)
      BY <1>2
    <3> HIDE DEF c, s, o
    <3> QED BY <1>3, <1>4, <3>1, CommandObeyed
  <2> QED BY <1>1, <1>2, <2>1 DEF Route!Obeys, Makes
<1> QED BY <1>1, <1>5 DEF CommandInv, Route!Commanded

LEMMA CommandStep ==
    ASSUME Route!CommandsTyped, RouteInv, CommandInv, [Route!Next]_(Route!vars)
    PROVE  CommandInv'
<1>1. CASE Route!NewRoute
  BY <1>1, NewRouteObeys
<1>2. CASE Route!FlushRoutes \/ Route!FlushOne \/ Route!Other
  <2>1. pc' = "flush" /\ todo' = todo /\ todo # <<>>
    <3>1. CASE Route!FlushRoutes
      BY <3>1 DEF Route!FlushRoutes, CommandInv
    <3>2. CASE Route!FlushOne
      BY <3>2 DEF Route!FlushOne, CommandInv
    <3>3. CASE Route!Other
      BY <3>3 DEF Route!Other, CommandInv
    <3> QED BY <1>2, <3>1, <3>2, <3>3
  <2> QED BY <2>1 DEF CommandInv, Route!Commanded
<1>3. CASE Route!FlushEnds
  <2>1. pc = "flush" /\ pc' = "done" /\ todo' = todo
    BY <1>3 DEF Route!FlushEnds
  <2>2. Route!Current' = Route!Current /\ Route!Current.cmd = "flush" /\ todo # <<>>
    BY <2>1 DEF RouteInv, CommandInv, Route!Current
  <2> QED BY <2>1, <2>2 DEF CommandInv, Route!Commanded
<1>4. CASE Route!NextCommand
  <2>1. pc = "done" /\ pc' = "main" /\ todo' = Tail(todo) /\ todo # <<>>
    BY <1>4 DEF Route!NextCommand, CommandInv
  <2> DEFINE S == {todo[i] : i \in DOMAIN todo}
  <2>2. todo \in Seq(S)
    BY TupleIsSeq DEF CommandInv
  <2>3. \A c \in S : Route!IsCommand(c)
    BY DEF CommandInv
  <2> HIDE DEF S
  <2>4. todo' \in Seq(S)
    BY <2>1, <2>2, HeadTailProperties
  <2>5. IsTuple(todo') /\ \A k \in DOMAIN todo' : todo'[k] \in S
    <3>1. IsTuple(todo')
      BY <2>4, TupleIsSeq
    <3>2. \A k \in DOMAIN todo' : todo'[k] \in S
      BY <2>4
    <3> QED BY <3>1, <3>2
  <2>6. \A k \in DOMAIN todo' : Route!IsCommand(todo'[k])
    BY <2>3, <2>5
  <2> QED BY <2>1, <2>5, <2>6, ZenonT(60) DEF CommandInv, Route!Commanded, Route!IsCommand, Route!IsTuple, Route!IsItem, Route!IsWord,
             Route!IsNumbers, IsTuple
<1>5. CASE UNCHANGED Route!vars
  <2>1. todo' = todo /\ pc' = pc /\ table' = table /\ was' = was
    BY <1>5 DEF Route!vars
  <2> QED BY <2>1 DEF CommandInv, Route!Commanded, Route!Obeys, Route!Current
<1> QED BY <1>1, <1>2, <1>3, <1>4, <1>5 DEF Route!Next

LEMMA CommandStart ==
    ASSUME Route!CommandsTyped, Route!Init
    PROVE  CommandInv
<1>1. PICK s \in RouteSessions : todo = s.commands
  BY DEF Route!Init
<1>2. IsTuple(s.commands) /\ \A k \in DOMAIN s.commands : Route!IsCommand(s.commands[k])
  BY DEF Route!CommandsTyped, Route!IsTuple, IsTuple
<1>3. pc = "main"
  BY DEF Route!Init
<1> QED BY <1>1, <1>2, <1>3 DEF CommandInv, Route!Commanded

-----------------------------------------------------------------------------
(* The programs together *)

UserlandInv ==
    /\ program = "gzip" => GzipInv
    /\ program = "pwd_mkdb" => PwdInv
    /\ program = "ping" => PingInv
    /\ program = "ipfwconfig" => EditorInv
    /\ program = "natd" => r1 \in NatdLines
    /\ program = "route" => RouteInv /\ CommandInv

LEMMA UserlandStart == UserlandInit => UserlandInv
<1>1. program = "gzip" /\ Gzip!GzipFileInit => GzipInv
  BY GzipInit, GzipCommandLines
<1>2. program = "pwd_mkdb" /\ PwdMkdb!PwdInit => PwdInv
  BY PwdStart, PwdCasesLoad
<1>3. program = "ping" /\ Ping!PingInit => PingInv
  BY PingStart, PingTableFits
<1>4. program = "ipfwconfig" /\ RuleEditor!EditorInit => EditorInv
  BY EditorStart, EditorAssumption
<1>5. program = "route" /\ Route!Init => RouteInv /\ CommandInv
  BY RouteStart, RouteTables, CommandStart, RouteWords
<1> QED BY <1>1, <1>2, <1>3, <1>4, <1>5 DEF UserlandInit, UserlandInv

LEMMA UserlandStep == UserlandInv /\ [UserlandNext]_vars => UserlandInv'
<1> SUFFICES ASSUME UserlandInv, [UserlandNext]_vars
             PROVE  UserlandInv'
  OBVIOUS
<1>1. program' = program
  BY DEF UserlandNext, vars
<1>2. ASSUME program = "gzip" PROVE GzipInv'
  <2>1. [Gzip!GzipFileNext]_(Gzip!gzipVars)
    BY <1>2 DEF UserlandNext, vars, Gzip!gzipVars
  <2> QED BY <1>2, <2>1, GzipStep DEF UserlandInv
<1>3. ASSUME program = "pwd_mkdb" PROVE PwdInv'
  <2>1. [PwdMkdb!PwdNext]_PwdMkdb!vars
    BY <1>3 DEF UserlandNext, vars, PwdMkdb!vars
  <2> QED BY <1>3, <2>1, PwdStep, PwdCasesLoad DEF UserlandInv
<1>4. ASSUME program = "ping" PROVE PingInv'
  <2>1. [Ping!PingNext]_(Ping!vars)
    BY <1>4 DEF UserlandNext, vars, Ping!vars, Ping!counts, Ping!ends
  <2> QED BY <1>4, <2>1, PingStep, PingTableFits DEF UserlandInv
<1>5. ASSUME program = "ipfwconfig" PROVE EditorInv'
  <2>1. [RuleEditor!EditorNext]_RuleEditor!vars
    BY <1>5 DEF UserlandNext, vars, RuleEditor!vars
  <2> QED BY <1>5, <2>1, EditorStep, EditorAssumption DEF UserlandInv
<1>6. ASSUME program = "natd" PROVE r1' \in NatdLines
  <2>1. r1' = r1
    BY <1>6 DEF UserlandNext, vars
  <2> QED BY <1>6, <2>1 DEF UserlandInv
<1>7. ASSUME program = "route" PROVE RouteInv' /\ CommandInv'
  <2>1. [Route!Next]_(Route!vars)
    BY <1>7 DEF UserlandNext, vars, Route!vars
  <2> QED BY <1>7, <2>1, RouteStep, RouteTables, CommandStep, RouteWords DEF UserlandInv
<1> QED BY <1>1, <1>2, <1>3, <1>4, <1>5, <1>6, <1>7 DEF UserlandInv

LEMMA UserlandKeeps == UserlandSpec => []UserlandInv
BY UserlandStart, UserlandStep, PTL DEF UserlandSpec

\* Whenever gzip is killed and whatever fails: while the output is being written and the
\* handler would remove it, the input is whole; and the input is removed only when the
\* output is whole and the handler lets it be (gzip.c:704-1005).
THEOREM GzipKeepsTexts == UserlandSpec => []TextsKept
<1>1. UserlandInv => TextsKept
  BY DEF UserlandInv, GzipInv, GzipSafe, SafeOutside, Safe, Needed, GzipTypeOK, Gzip!TextsKept, TextsKept
<1> QED BY <1>1, UserlandKeeps, PTL

\* Whatever the runs do between one another's steps, and wherever one is killed or gives up, a
\* database in place is whole, for the old password file or the new one, the two are for the
\* same file unless a run has been stopped between its two moves, and master.passwd is the new
\* file only with the new databases (pwd_mkdb.c:477).
THEOREM PwdMkdbKeepsDatabases == UserlandSpec => []DatabasesWhole
<1>1. UserlandInv => DatabasesWhole
  BY DEF UserlandInv, PwdInv, InPlace, Whose, NewDb, PwdMkdb!DatabasesWhole, PwdMkdb!Agree, DatabasesWhole
<1> QED BY <1>1, UserlandKeeps, PTL

\* Whatever is lost, doubled or late by less than the table: each bit means the last number
\* that has it, because pinger() clears it (ping.c:724) before that number is used, so an
\* echo is counted when its first answer comes and never again.
THEOREM PingCountsEchoes == UserlandSpec => []PingCounts
<1>1. UserlandInv => PingCounts
  BY PingMeans DEF UserlandInv, PingCounts
<1> QED BY <1>1, UserlandKeeps, PTL

\* Whatever the other sessions do meanwhile: a list that does not know of a change is behind,
\* any other one shows the script but for the words that are cut, and so a rule that is
\* deleted takes no other with it; and the screens are what they are in the console
\* (ipfwconfig/rules.c:313-407, filter.c, forward.c).
THEOREM EditorKeepsRules == UserlandSpec => []KeepsRules
<1>1. UserlandInv => KeepsRules
  BY EditorMeans DEF UserlandInv, KeepsRules
<1> QED BY <1>1, UserlandKeeps, PTL

\* Whatever natd's options and its files say: each redirection of ports that it takes, if the
\* numbers that were typed are ports, has its links when natd starts, one for each public port,
\* to the local port, the servers and the remote port that were typed, and no option before
\* or behind it changes one (natd.c:1094-1496, 1617-1702).
THEOREM NatdRedirectsAsTyped == UserlandSpec => []RedirectsAsTyped
<1>1. UserlandInv => RedirectsAsTyped
  <2> SUFFICES ASSUME UserlandInv, program = "natd" PROVE NatdOptions!Redirects(r1)
    BY DEF RedirectsAsTyped
  <2>1. NatdOptions!CommandLine(r1)
    BY NatdCommandLines DEF UserlandInv
  <2> QED BY <2>1, NatdRedirects
<1> QED BY <1>1, UserlandKeeps, PTL

\* Whatever other programs do while route deletes what it read of the table: a deletion takes
\* the one route it is for, so the routes without a gateway stay, and a flush that found each
\* of its routes has taken them all (route.c:217-311).
THEOREM FlushTakesTheGateways == UserlandSpec => []FlushTakesGateways
<1>1. UserlandInv => FlushTakesGateways
  BY RouteMeans DEF UserlandInv, FlushTakesGateways
<1> QED BY <1>1, UserlandKeeps, PTL

\* Whatever options a command has, as often and in whatever order that the manual gives a
\* meaning, and whatever the resolver says of its names: the destination, the mask and the
\* flags that are read make the key and the route that the manual says, the gateways are
\* tried in the resolver's order up to one that can be reached, and the table is what one
\* such request makes of it (route.c:535-1061); and a flush takes the gateways.
THEOREM RouteDoesAsTyped == UserlandSpec => []RoutesAsTyped
<1>1. UserlandInv => RoutesAsTyped
  BY RouteMeans DEF UserlandInv, CommandInv, RoutesAsTyped
<1> QED BY <1>1, UserlandKeeps, PTL

====
