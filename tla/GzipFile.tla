------------------------------ MODULE GzipFile ------------------------------
(***************************************************************************)
(* What gzip does with the files of its command line (usr.bin/gzip/gzip.c, *)
(* zip.c, unzip.c, util.c): names, checks, the output file, the loop over  *)
(* compressed members, and the handler that removes an unfinished output   *)
(* on an error or a signal, which may come between any two steps.          *)
(*                                                                         *)
(* A file is [kind, parts, tail]: a plain text, or compressed members, the *)
(* last perhaps followed by garbage.  A part is a text, Corrupt, or        *)
(* Foreign, a member of a kind that the decompressor turns down without    *)
(* aborting.  A name is <<base, suffix>>.                                  *)
(*                                                                         *)
(* Left out: directories, hard links, standard input, -l, -t and -N, names *)
(* that the file system truncates, and times and modes.                    *)
(***************************************************************************)
EXTENDS Integers, Sequences, SequencesExt

CONSTANTS
    Options,    \* [decompress, to_stdout, force]
    Commands,   \* file names of a command line, a sequence
    Disks       \* files there may be at the start, functions from names

Absent == [kind |-> "absent", parts |-> <<>>, tail |-> FALSE]
Partial == [kind |-> "partial", parts |-> <<>>, tail |-> FALSE]
Corrupt == "corrupt"
Foreign == "foreign"
Gz == "gz"
NoSuffix == ""
NoName == <<"", "">>

VARIABLES
    opt, args, disk,
    pc,
    ifname, ofname,
    remove_ofname,
    part,       \* part_nb: the member being decompressed
    out,        \* what was made of the input so far
    held,       \* the texts on the disk at the start
    agreed,     \* the texts that were overwritten with leave
    unread,     \* the texts of an input that gzip took to end before them
    failed      \* an output file could not be made, or was given up

gzipVars == <<opt, args, disk, pc, ifname, ofname, remove_ofname, part, out,
              held, agreed, unread, failed>>
ghosts == <<held, agreed, unread, failed>>

Texts(file) == ToSet(file.parts) \ {Corrupt, Foreign}
Whole(file) == file.kind \in {"plain", "packed"}
Exists(name) == name \in DOMAIN disk /\ disk[name].kind # "absent"
Packed(name) == <<name[1], Gz>>
In == disk[ifname]
MembersLeft == part < Len(In.parts) \/ In.tail

-----------------------------------------------------------------------------
\* The next file, or the end.
NextFile == pc' = IF args' = <<>> THEN "exit" ELSE "file"
Skip == args' = Tail(args) /\ NextFile

\* get_istat(): a compressed file may be named without its suffix.
GetIstat ==
    /\ pc = "file"
    /\ LET named == Head(args)
           guess == opt.decompress /\ ~Exists(named) /\ named[2] = NoSuffix /\ Exists(Packed(named))
       IN  IF Exists(named) \/ guess
           THEN /\ ifname' = IF guess THEN Packed(named) ELSE named
                /\ pc' = "name" /\ UNCHANGED args
           ELSE Skip /\ UNCHANGED ifname
    /\ part' = 1 /\ out' = <<>>
    /\ UNCHANGED <<opt, disk, ofname, remove_ofname, ghosts>>

\* make_ofname(), then the input is opened, which may fail.
MakeOfname ==
    /\ pc = "name"
    /\ ofname' = IF opt.to_stdout THEN NoName
                 ELSE IF opt.decompress THEN <<ifname[1], NoSuffix>> ELSE Packed(ifname)
    /\ \/ /\ opt.to_stdout \/ (opt.decompress <=> ifname[2] = Gz)
          /\ pc' = (IF opt.decompress THEN "method" ELSE IF opt.to_stdout THEN "work" ELSE "check")
          /\ UNCHANGED args
       \/ Skip
    /\ UNCHANGED <<opt, disk, ifname, remove_ofname, part, out, ghosts>>

\* get_method() of the first member: zcat -f copies what is not compressed.
GetMethod ==
    /\ pc = "method"
    /\ IF In.kind = "packed" \/ (opt.force /\ opt.to_stdout)
       THEN pc' = (IF opt.to_stdout THEN "work" ELSE "check") /\ UNCHANGED args
       ELSE Skip
    /\ UNCHANGED <<opt, disk, ifname, ofname, remove_ofname, part, out, ghosts>>

\* check_ofname(): an existing file is removed with -f, or if the user says so.
CheckOfname ==
    /\ pc = "check"
    /\ \/ ~Exists(ofname) /\ pc' = "flag" /\ UNCHANGED <<disk, args, agreed>>
       \/ /\ Exists(ofname) /\ ofname # ifname
          /\ disk' = [disk EXCEPT ![ofname] = Absent]
          /\ agreed' = agreed \cup Texts(disk[ofname])
          /\ pc' = "flag" /\ UNCHANGED args
       \/ Exists(ofname) /\ (~opt.force \/ ofname = ifname) /\ Skip /\ UNCHANGED <<disk, agreed>>
    /\ UNCHANGED <<opt, ifname, ofname, remove_ofname, part, out, held, unread, failed>>

\* create_outfile(): from here on the handler removes the output.
SetFlag ==
    /\ pc = "flag"
    /\ remove_ofname' = TRUE /\ pc' = "create"
    /\ UNCHANGED <<opt, args, disk, ifname, ofname, part, out, ghosts>>

\* If the file cannot be made the flag stays.
Create ==
    /\ pc = "create"
    /\ \/ disk' = [disk EXCEPT ![ofname] = Partial] /\ pc' = "work" /\ UNCHANGED <<args, failed>>
       \/ failed' = TRUE /\ Skip /\ UNCHANGED disk
    /\ UNCHANGED <<opt, ifname, ofname, remove_ofname, part, out, held, agreed, unread>>

\* abort_gzip(): on SIGINT, SIGTERM or SIGHUP, and on any error() of the program.
Unfinished == IF remove_ofname THEN [disk EXCEPT ![ofname] = Absent] ELSE disk
Abort ==
    /\ pc # "exit"
    /\ disk' = Unfinished /\ pc' = "exit"
    /\ UNCHANGED <<opt, args, ifname, ofname, remove_ofname, part, out, ghosts>>

\* zip(): an error of read() is taken for the end of the input.
ZipInput ==
    /\ pc = "work" /\ ~opt.decompress
    /\ \/ out' = In.parts /\ UNCHANGED unread
       \/ out' = <<>> /\ unread' = unread \cup Texts(In)
    /\ pc' = "close"
    /\ UNCHANGED <<opt, args, disk, ifname, ofname, remove_ofname, part, held, agreed, failed>>

\* unzip() and the others, for one member; on a corrupt one only Abort is left.
\* The loop ends at the end of the input buffer, be it that of the file or not.
Unzip ==
    /\ pc = "work" /\ opt.decompress /\ In.kind = "packed"
    /\ In.parts[part] \notin {Corrupt, Foreign}
    /\ out' = Append(out, In.parts[part])
    /\ \/ MembersLeft /\ pc' = "member" /\ UNCHANGED unread
       \/ pc' = "close" /\ unread' = unread \cup Texts([In EXCEPT !.parts = SubSeq(@, part + 1, Len(@))])
    /\ UNCHANGED <<opt, args, disk, ifname, ofname, remove_ofname, part, held, agreed, failed>>

\* copy(), for zcat -f.
Copy ==
    /\ pc = "work" /\ opt.decompress /\ In.kind = "plain"
    /\ out' = In.parts /\ pc' = "close"
    /\ UNCHANGED <<opt, args, disk, ifname, ofname, remove_ofname, part, ghosts>>

\* get_method() of another member: what is none is garbage, and all is well.
NextMember ==
    /\ pc = "member"
    /\ IF part < Len(In.parts) THEN part' = part + 1 /\ pc' = "work"
       ELSE pc' = "close" /\ UNCHANGED part
    /\ UNCHANGED <<opt, args, disk, ifname, ofname, remove_ofname, out, ghosts>>

\* (*work)() returns ERROR: the output is removed, and the flag stays.
GiveUp ==
    /\ pc = "work" /\ opt.decompress /\ In.kind = "packed" /\ In.parts[part] = Foreign
    /\ IF opt.to_stdout THEN UNCHANGED <<disk, failed>>
       ELSE disk' = [disk EXCEPT ![ofname] = Absent] /\ failed' = TRUE
    /\ Skip
    /\ UNCHANGED <<opt, ifname, ofname, remove_ofname, part, out, held, agreed, unread>>

\* close() writes what is left.
Close ==
    /\ pc = "close"
    /\ IF opt.to_stdout THEN Skip /\ UNCHANGED disk
       ELSE /\ disk' = [disk EXCEPT ![ofname] =
                   [kind |-> IF opt.decompress THEN "plain" ELSE "packed", parts |-> out, tail |-> FALSE]]
            /\ pc' = "copy_stat" /\ UNCHANGED args
    /\ UNCHANGED <<opt, ifname, ofname, remove_ofname, part, out, ghosts>>

\* Mutant: the flag is still set when the input goes.
MutCopyStat ==
    /\ pc = "copy_stat"
    /\ pc' = "unlink"
    /\ UNCHANGED <<opt, args, disk, ifname, ofname, remove_ofname, part, out, ghosts>>

\* copy_stat(): the handler lets the output be, and only then the input goes.
CopyStat ==
    /\ pc = "copy_stat"
    /\ remove_ofname' = FALSE /\ pc' = "unlink"
    /\ UNCHANGED <<opt, args, disk, ifname, ofname, part, out, ghosts>>

UnlinkInput ==
    /\ pc = "unlink"
    /\ disk' = [disk EXCEPT ![ifname] = Absent] /\ pc' = "next"
    /\ UNCHANGED <<opt, args, ifname, ofname, remove_ofname, part, out, ghosts>>

TreatFile ==
    /\ pc = "next" /\ Skip
    /\ UNCHANGED <<opt, disk, ifname, ofname, remove_ofname, part, out, ghosts>>

-----------------------------------------------------------------------------
GzipFileInit ==
    /\ opt \in Options /\ args \in Commands /\ disk \in Disks
    /\ pc = "file" /\ ifname = NoName /\ ofname = NoName
    /\ remove_ofname = FALSE /\ part = 1 /\ out = <<>>
    /\ held = UNION {Texts(disk[n]) : n \in DOMAIN disk}
    /\ agreed = {} /\ unread = {} /\ failed = FALSE

GzipFileNext ==
    \/ GetIstat \/ MakeOfname \/ GetMethod \/ CheckOfname \/ SetFlag \/ Create \/ Abort
    \/ ZipInput \/ Unzip \/ Copy \/ NextMember \/ GiveUp \/ Close \/ CopyStat \/ UnlinkInput \/ TreatFile

\* What a command line and a disk are: names of a base and a suffix, and files of which
\* only a compressed one must hold something.
CommandLines(Bases, Parts) ==
    /\ Options \subseteq [decompress : BOOLEAN, to_stdout : BOOLEAN, force : BOOLEAN]
    /\ Commands \subseteq Seq(Bases \X {NoSuffix, Gz}) \ {<<>>}
    /\ Disks \subseteq [Bases \X {NoSuffix, Gz} ->
            {file \in [kind : {"absent", "plain", "packed"}, parts : Seq(Parts), tail : BOOLEAN] :
                /\ file.kind = "absent" => file.parts = <<>>
                /\ file.kind = "packed" => file.parts # <<>>}]

-----------------------------------------------------------------------------
(* Properties *)

\* Whenever gzip is stopped, and whatever fails: every text that was on the disk is
\* in a complete file, compressed or not, unless it was overwritten with leave or
\* gzip took its file to end before it (zip.c:107, gzip.c:813).  That holds as
\* long as no output of the same run failed, because remove_ofname is then still set
\* when the next file's output is looked for (gzip.c:884-889, 1750).
TextsKept ==
    failed \/ \A t \in held \ (agreed \cup unread) :
                  \E n \in DOMAIN disk : Whole(disk[n]) /\ t \in Texts(disk[n])

=============================================================================
