------------------------------- MODULE Archive -------------------------------
(***************************************************************************)
(* The archive of /etc on a floppy: the main menu's Save                   *)
(* (closedbsd/config/menu.c), the scripts writetcnp and restoretc, and the *)
(* boot menu that imports it (closedbsd/init/init.c).                      *)
(*                                                                         *)
(* Each command is a step that may fail, and the power may go off between  *)
(* any two of them, or inside one that rewrites the floppy.  /etc is a     *)
(* memory file system, and is lost with the power.                         *)
(***************************************************************************)
EXTENDS Integers

CONSTANTS
    Setting,    \* contents of /etc
    Default,    \* the CD's contents of /etc
    Mixed,      \* defaults with part of an archive over them
    None,       \* no archive in the file system
    Torn        \* an archive that ends too early

Content == Setting \cup {Mixed}

ASSUME SettingAssumption ==
    /\ Default \in Setting
    /\ {Mixed, None, Torn} \cap Setting = {}
    /\ Mixed # None /\ Mixed # Torn /\ None # Torn

VARIABLES
    etc,        \* the settings in /etc
    format,     \* how far the floppy is prepared; "fs" is a file system
    file,       \* etc.tar.gz, if there is a file system
    mounted,    \* the floppy is in the mount table
    pc,         \* the command that comes next
    left,       \* runs of writetcnp still to be made
    notice,     \* what the console told the operator last
    clean       \* the present save began with the floppy unmounted, on a floppy
                \* that no command has failed on since

vars == <<etc, format, file, mounted, pc, left, notice, clean>>
disk == <<format, file>>

Saving == {"mount", "fdformat", "disklabel", "newfs", "remount", "umount",
           "wmount", "wtar", "wtarend", "wumount"}

-----------------------------------------------------------------------------
(* Commands *)

\* mount(8) succeeds only on a file system that is not mounted, and may fail then
\* too: no floppy in the drive, drive not ready.  If it fails, nothing changes.
CanMount == format = "fs" /\ ~mounted

\* What a failing command does to the ghost.
Failed == clean' = FALSE

-----------------------------------------------------------------------------
(* Save, at the main menu *)

BeginSave ==
    /\ pc = "idle"
    /\ pc' = "mount"
    /\ clean' = ~mounted
    /\ notice' = "none"
    /\ UNCHANGED <<etc, disk, mounted, left>>

\* The floppy is mounted to see whether it is formatted.
TestMount ==
    /\ pc = "mount" /\ CanMount
    /\ mounted' = TRUE
    /\ pc' = "umount"
    /\ UNCHANGED <<etc, disk, left, notice, clean>>

\* "This floppy is not formatted.  Press a key to format."  Failing on a floppy
\* without a file system is not a failure of the command.
TestMountFails ==
    /\ pc = "mount"
    /\ notice' = "not formatted"
    /\ clean' = (clean /\ ~CanMount)
    /\ pc' = "fdformat"
    /\ UNCHANGED <<etc, disk, mounted, left>>

\* The three commands that prepare the floppy: each leaves an empty one, and each
\* may fail half way (as it does when the power goes off: see PowerOff).
Prepare(command, result, next) ==
    /\ pc = command
    /\ \/ /\ format' = result /\ file' = None
          /\ pc' = next
          /\ UNCHANGED <<notice, clean>>
       \/ /\ \/ UNCHANGED disk
             \/ format' = "raw" /\ file' = None
          /\ notice' = "error" /\ Failed
          /\ pc' = "idle"
    /\ UNCHANGED <<etc, mounted, left>>

\* Mutant: a command that fails is tried again.
MutFormat ==
    /\ pc \in {"fdformat", "disklabel", "newfs"}
    /\ \/ /\ format' = "fs" /\ file' = None
          /\ pc' = "remount"
       \/ UNCHANGED <<disk, pc>>
    /\ notice' = IF notice = "error" THEN "none" ELSE "error"
    /\ UNCHANGED <<etc, mounted, left, clean>>

Format ==
    \/ Prepare("fdformat", "low", "disklabel")
    \/ Prepare("disklabel", "labelled", "newfs")
    \/ Prepare("newfs", "fs", "remount")

\* The new file system stays mounted for the first of two runs of writetcnp, whose
\* own mount then fails.
Remount ==
    /\ pc = "remount"
    /\ \/ /\ CanMount
          /\ mounted' = TRUE
          /\ pc' = "wmount" /\ left' = 2
          /\ UNCHANGED <<notice, clean>>
       \/ /\ notice' = "error" /\ Failed
          /\ pc' = "idle"
          /\ UNCHANGED <<mounted, left>>
    /\ UNCHANGED <<etc, disk>>

\* umount(8) fails while somebody uses the floppy.
Umount ==
    /\ pc = "umount"
    /\ \/ mounted' = FALSE /\ UNCHANGED clean
       \/ Failed /\ UNCHANGED mounted
    /\ pc' = "wmount" /\ left' = 1
    /\ UNCHANGED <<etc, disk, notice>>

-----------------------------------------------------------------------------
(* writetcnp, which looks at no result *)

\* Run by 'Basic', by passwd and at the shell as well.
BeginWrite ==
    /\ pc = "idle"
    /\ pc' = "wmount" /\ left' = 1
    /\ clean' = ~mounted
    /\ notice' = "none"
    /\ UNCHANGED <<etc, disk, mounted>>

WMount ==
    /\ pc = "wmount"
    /\ \/ CanMount /\ mounted' = TRUE /\ UNCHANGED clean
       \/ clean' = (clean /\ mounted) /\ UNCHANGED mounted
    /\ pc' = "wtar"
    /\ UNCHANGED <<etc, disk, left, notice>>

\* tar truncates the old archive first.  Without the floppy, /mnt is on the CD,
\* and nothing can be written.
WTar ==
    /\ pc = "wtar"
    /\ \/ /\ mounted /\ format = "fs"
          /\ file' = Torn
          /\ pc' = "wtarend"
          /\ UNCHANGED clean
       \/ pc' = "wumount" /\ Failed /\ UNCHANGED file
    /\ UNCHANGED <<etc, format, mounted, left, notice>>

\* The floppy may be full, or bad.
WTarEnd ==
    /\ pc = "wtarend"
    /\ \/ file' = etc /\ UNCHANGED clean
       \/ Failed /\ UNCHANGED file
    /\ pc' = "wumount"
    /\ UNCHANGED <<etc, format, mounted, left, notice>>

\* Mutant: one run too many is counted.
MutWUmountCount ==
    /\ pc = "wumount"
    /\ mounted' = FALSE
    /\ left' = left - 1
    /\ pc' = IF left >= 1 THEN "wmount" ELSE "idle"
    /\ UNCHANGED <<etc, disk, notice, clean>>

\* Mutant: the script ends with tar.
MutWUmountNone ==
    /\ pc = "wumount"
    /\ left' = left - 1
    /\ pc' = IF left > 1 THEN "wmount" ELSE "idle"
    /\ notice' = IF left > 1 THEN notice ELSE "done"
    /\ UNCHANGED <<etc, disk, mounted, clean>>

WUmount ==
    /\ pc = "wumount"
    /\ \/ mounted /\ mounted' = FALSE /\ UNCHANGED clean
       \/ Failed /\ UNCHANGED mounted
    /\ left' = left - 1
    /\ pc' = IF left > 1 THEN "wmount" ELSE "idle"
    /\ notice' = IF left > 1 THEN notice ELSE "done"
    /\ UNCHANGED <<etc, disk>>

-----------------------------------------------------------------------------
(* Boot *)

\* do_rc() makes an empty /etc, copies the defaults to it and shows the menu.
PowerOn ==
    /\ pc = "off"
    /\ pc' = "menu"
    /\ etc' = Default
    /\ UNCHANGED <<disk, mounted, left, notice, clean>>

\* "Boot", or a cancelled menu: with the defaults.
BootDefaults ==
    /\ pc = "menu"
    /\ pc' = "idle"
    /\ UNCHANGED <<etc, disk, mounted, left, notice, clean>>

\* "Import": _menu1_im(), which does not pass on that its mount failed.
Import ==
    /\ pc = "menu"
    /\ \/ /\ CanMount
          /\ mounted' = TRUE
          /\ pc' = "untar"
          /\ UNCHANGED notice
       \/ /\ notice' = "imported"
          /\ pc' = "idle"
          /\ UNCHANGED mounted
    /\ UNCHANGED <<etc, disk, left, clean>>

\* Mutant: boot_params stays CD_BOOT, and the defaults are copied once more.
MutUntar ==
    /\ pc = "untar"
    /\ etc' = IF file \in {None, Torn, Default} THEN Default ELSE Mixed
    /\ pc' = "unumount"
    /\ UNCHANGED <<disk, mounted, left, notice, clean>>

\* restoretc: tar over the defaults, which stops anywhere in a torn archive.
Untar ==
    /\ pc = "untar"
    /\ etc' \in CASE file = None -> {Default}
                  [] file = Torn -> {Default, Mixed}
                  [] OTHER       -> {file}
    /\ pc' = "unumount"
    /\ UNCHANGED <<disk, mounted, left, notice, clean>>

\* restoretc leaves /etc first, and nobody else is there: umount succeeds.
UnUmount ==
    /\ pc = "unumount"
    /\ mounted' = FALSE
    /\ notice' = "imported"
    /\ pc' = "idle"
    /\ UNCHANGED <<etc, disk, left, clean>>

-----------------------------------------------------------------------------
(* The operator and the power *)

Configure ==
    /\ pc = "idle" /\ etc # Mixed
    /\ etc' \in Setting
    /\ notice' = "none"
    /\ UNCHANGED <<disk, mounted, pc, left, clean>>

\* Power goes off, or the machine reboots.
PowerOff ==
    /\ pc # "off"
    /\ pc' = "off"
    /\ etc' = Default
    /\ mounted' = FALSE
    /\ notice' = "none"
    /\ UNCHANGED <<disk, left, clean>>

Init ==
    /\ etc = Default
    /\ format \in {"raw", "fs"} /\ file = None
    /\ mounted = FALSE
    /\ pc = "off" /\ left = 0
    /\ notice = "none"
    /\ clean = FALSE

\* What the program does once it was asked to.
Save == \/ TestMount \/ TestMountFails \/ Format \/ Remount \/ Umount
        \/ WMount \/ WTar \/ WTarEnd \/ WUmount
Restore == Untar \/ UnUmount

Next ==
    \/ BeginSave \/ BeginWrite \/ Save
    \/ PowerOn \/ BootDefaults \/ Import \/ Restore
    \/ Configure \/ PowerOff

\* Commands end, and power that is on may stay on.
Fairness == WF_vars(Save) /\ WF_vars(Restore)

Spec == Init /\ [][Next]_vars
FairSpec == Spec /\ Fairness

-----------------------------------------------------------------------------
(* Properties *)

\* Type invariant.
TypeOK ==
    /\ etc \in Content
    /\ format \in {"raw", "low", "labelled", "fs"}
    /\ file \in Content \cup {None, Torn}
    /\ mounted \in BOOLEAN /\ clean \in BOOLEAN
    /\ pc \in Saving \cup {"off", "menu", "untar", "unumount", "idle"}
    /\ left \in 0..2
    /\ notice \in {"none", "not formatted", "error", "done", "imported"}

\* A save during which no command fails leaves a floppy that can be mounted again and
\* whose archive is /etc: on a fresh floppy, where the first of two runs of writetcnp
\* finds it mounted already (menu.c:43-51), and on one that holds an archive.
CleanSaveSaves ==
    pc = "idle" /\ notice = "done" /\ clean => CanMount /\ file = etc

\* Only a save touches the archive, which is at any time some /etc as it was when it
\* was written, or unusable; an import brings it back as it is.
Store == INSTANCE SettingsStore WITH
    archive <- IF format = "fs" /\ file \in Content THEN file ELSE None,
    phase <- CASE pc \in Saving -> "save"
               [] pc = "idle"    -> "up"
               [] OTHER          -> "boot",
    Lost <- None

ImplementsStore == Store!Spec

\* Whatever fails, a save or an import that was begun comes to its end.
Busy == pc \in Saving \cup {"untar", "unumount"}

CommandsEnd == Busy ~> ~Busy

-----------------------------------------------------------------------------
(* What the program says of itself, and does not do *)

\* "This floppy is not formatted.  Press a key to format." (menu.c:21)
SaidUnformatted == notice = "not formatted" /\ pc = "fdformat" => format # "fs"

=============================================================================
