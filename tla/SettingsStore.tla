---------------------------- MODULE SettingsStore ----------------------------
(***************************************************************************)
(* What saving and importing settings promises, whatever commands it takes: *)
(* an archive that only a save touches, that holds the settings as they    *)
(* were when it was written, or nothing any more, and that an import brings *)
(* back unchanged.                                                          *)
(***************************************************************************)
CONSTANTS
    Setting,    \* contents of /etc
    Default,    \* the CD's contents of /etc
    Mixed,      \* defaults with part of an archive over them
    Lost        \* no usable archive

VARIABLES
    etc,        \* the settings in /etc
    archive,    \* the settings in the archive
    phase       \* booting, up (the console edits settings), or saving

vars == <<etc, archive, phase>>

Init ==
    /\ etc = Default
    /\ archive \in {Lost} \cup Setting
    /\ phase = "boot"

\* Before the console comes up, the archive may be imported.
Import ==
    /\ phase = "boot"
    /\ etc' \in IF archive = Lost THEN {Default, Mixed} ELSE {archive}
    /\ UNCHANGED <<archive, phase>>

Start ==
    /\ phase = "boot"
    /\ phase' = "up"
    /\ UNCHANGED <<etc, archive>>

Edit ==
    /\ phase = "up"
    /\ etc' \in Setting
    /\ UNCHANGED <<archive, phase>>

Begin ==
    /\ phase = "up"
    /\ phase' = "save"
    /\ UNCHANGED <<etc, archive>>

\* The old archive goes before the new one is there.
Lose ==
    /\ phase = "save"
    /\ archive' = Lost
    /\ UNCHANGED <<etc, phase>>

Write ==
    /\ phase = "save"
    /\ archive' = etc
    /\ UNCHANGED <<etc, phase>>

\* A save may end badly.
End ==
    /\ phase = "save"
    /\ phase' = "up"
    /\ archive' \in {archive, Lost}
    /\ UNCHANGED etc

\* Losing power loses the settings, and ends a save wherever it is.
Reset ==
    /\ etc' = Default
    /\ phase' = "boot"
    /\ UNCHANGED archive

Next == Import \/ Start \/ Edit \/ Begin \/ Lose \/ Write \/ End \/ Reset

Spec == Init /\ [][Next]_vars

=============================================================================
