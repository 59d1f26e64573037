---------------------------- MODULE ArchiveProofs ----------------------------
(***************************************************************************)
(* Proofs about the archive: type correctness, what an undisturbed save    *)
(* leaves on the floppy, and that Archive implements SettingsStore.        *)
(***************************************************************************)
EXTENDS Archive, TLAPS

\* Runs of writetcnp are counted while one is under way.
Counting ==
    /\ left \in 0..2
    /\ pc \in {"wmount", "wtar", "wtarend", "wumount"} => left \in 1..2

\* The rest of the type invariant: the provers take numbers and truth values apart.
OtherTypes ==
    /\ etc \in Content
    /\ format \in {"raw", "low", "labelled", "fs"}
    /\ file \in Content \cup {None, Torn}
    /\ mounted \in BOOLEAN /\ clean \in BOOLEAN
    /\ pc \in Saving \cup {"off", "menu", "untar", "unumount", "idle"}
    /\ notice \in {"none", "not formatted", "error", "done", "imported"}

\* How far the commands are: restoretc runs on a mounted file system, and an
\* undisturbed save has made of the floppy what its next command expects.
Progress ==
    /\ pc = "untar" => format = "fs"
    /\ clean =>
        /\ pc \in {"mount", "fdformat", "disklabel", "newfs"} => ~mounted
        /\ pc = "remount" => CanMount
        /\ pc = "wmount" /\ mounted => format = "fs"
        /\ pc \in {"wtar", "wtarend", "wumount"} => mounted /\ format = "fs"
        /\ pc = "wumount" => file = etc
        /\ pc = "umount" => format = "fs"
        /\ pc \in {"off", "menu"} => notice # "done"

IInv == OtherTypes /\ Counting /\ Progress /\ CleanSaveSaves

\* Each command keeps the variables in their types.
LEMMA TypeStep == OtherTypes /\ [Next]_vars => OtherTypes'
<1> SUFFICES ASSUME OtherTypes, [Next]_vars PROVE OtherTypes'
  OBVIOUS
<1> USE SettingAssumption DEF OtherTypes, Content, Saving, Failed, disk
<1>1. ASSUME BeginSave PROVE OtherTypes'
  BY <1>1 DEF BeginSave
<1>2. ASSUME BeginWrite PROVE OtherTypes'
  BY <1>2 DEF BeginWrite
<1>3. ASSUME TestMount PROVE OtherTypes'
  BY <1>3 DEF TestMount
<1>4. ASSUME TestMountFails PROVE OtherTypes'
  BY <1>4 DEF TestMountFails
<1>5. ASSUME Prepare("fdformat", "low", "disklabel") PROVE OtherTypes'
  BY <1>5 DEF Prepare
<1>6. ASSUME Prepare("disklabel", "labelled", "newfs") PROVE OtherTypes'
  BY <1>6 DEF Prepare
<1>7. ASSUME Prepare("newfs", "fs", "remount") PROVE OtherTypes'
  BY <1>7 DEF Prepare
<1>8. ASSUME Remount PROVE OtherTypes'
  BY <1>8 DEF Remount
<1>9. ASSUME Umount PROVE OtherTypes'
  BY <1>9 DEF Umount
<1>10. ASSUME WMount PROVE OtherTypes'
  BY <1>10 DEF WMount
<1>11. ASSUME WTar PROVE OtherTypes'
  BY <1>11 DEF WTar
<1>12. ASSUME WTarEnd PROVE OtherTypes'
  BY <1>12 DEF WTarEnd
<1>13. ASSUME WUmount PROVE OtherTypes'
  BY <1>13 DEF WUmount
<1>14. ASSUME PowerOn PROVE OtherTypes'
  BY <1>14 DEF PowerOn
<1>15. ASSUME BootDefaults PROVE OtherTypes'
  BY <1>15 DEF BootDefaults
<1>16. ASSUME Import PROVE OtherTypes'
  BY <1>16 DEF Import
<1>17. ASSUME Untar PROVE OtherTypes'
  BY <1>17 DEF Untar
<1>18. ASSUME UnUmount PROVE OtherTypes'
  BY <1>18 DEF UnUmount
<1>19. ASSUME Configure PROVE OtherTypes'
  BY <1>19 DEF Configure
<1>20. ASSUME PowerOff PROVE OtherTypes'
  BY <1>20 DEF PowerOff
<1>21. CASE UNCHANGED vars
  <2>1. /\ etc' = etc /\ format' = format /\ file' = file /\ mounted' = mounted
        /\ pc' = pc /\ notice' = notice /\ clean' = clean
    BY <1>21 DEF vars
  <2> HIDE DEF Content, Saving
  <2>2. etc' \in Content /\ file' \in Content \cup {None, Torn}
    BY <2>1
  <2>3. format' \in {"raw", "low", "labelled", "fs"} /\ mounted' \in BOOLEAN /\ clean' \in BOOLEAN
    BY <2>1
  <2>4. pc' \in Saving \cup {"off", "menu", "untar", "unumount", "idle"}
    BY <2>1
  <2>5. notice' \in {"none", "not formatted", "error", "done", "imported"}
    BY <2>1
  <2> QED BY <2>2, <2>3, <2>4, <2>5
<1> QED BY <1>1, <1>2, <1>3, <1>4, <1>5, <1>6, <1>7, <1>8, <1>9, <1>10, <1>11,
           <1>12, <1>13, <1>14, <1>15, <1>16, <1>17, <1>18, <1>19, <1>20, <1>21
        DEF Next, Save, Restore, Format

\* Each command keeps the count of runs.
LEMMA CountingStep == Counting /\ [Next]_vars => Counting'
<1> SUFFICES ASSUME Counting, [Next]_vars PROVE Counting'
  OBVIOUS
<1> USE DEF Counting
<1>1. ASSUME BeginSave PROVE Counting'
  BY <1>1 DEF BeginSave
<1>2. ASSUME BeginWrite PROVE Counting'
  BY <1>2 DEF BeginWrite
<1>3. ASSUME TestMount PROVE Counting'
  BY <1>3 DEF TestMount
<1>4. ASSUME TestMountFails PROVE Counting'
  BY <1>4 DEF TestMountFails
<1>5. ASSUME Prepare("fdformat", "low", "disklabel") PROVE Counting'
  BY <1>5 DEF Prepare
<1>6. ASSUME Prepare("disklabel", "labelled", "newfs") PROVE Counting'
  BY <1>6 DEF Prepare
<1>7. ASSUME Prepare("newfs", "fs", "remount") PROVE Counting'
  BY <1>7 DEF Prepare
<1>8. ASSUME Remount PROVE Counting'
  BY <1>8 DEF Remount
<1>9. ASSUME Umount PROVE Counting'
  BY <1>9 DEF Umount
<1>10. ASSUME WMount PROVE Counting'
  BY <1>10 DEF WMount
<1>11. ASSUME WTar PROVE Counting'
  BY <1>11 DEF WTar
<1>12. ASSUME WTarEnd PROVE Counting'
  BY <1>12 DEF WTarEnd
<1>13. ASSUME WUmount PROVE Counting'
  BY <1>13 DEF WUmount
<1>14. ASSUME PowerOn PROVE Counting'
  BY <1>14 DEF PowerOn
<1>15. ASSUME BootDefaults PROVE Counting'
  BY <1>15 DEF BootDefaults
<1>16. ASSUME Import PROVE Counting'
  BY <1>16 DEF Import
<1>17. ASSUME Untar PROVE Counting'
  BY <1>17 DEF Untar
<1>18. ASSUME UnUmount PROVE Counting'
  BY <1>18 DEF UnUmount
<1>19. ASSUME Configure PROVE Counting'
  BY <1>19 DEF Configure
<1>20. ASSUME PowerOff PROVE Counting'
  BY <1>20 DEF PowerOff
<1>21. CASE UNCHANGED vars
  BY <1>21 DEF vars
<1> QED BY <1>1, <1>2, <1>3, <1>4, <1>5, <1>6, <1>7, <1>8, <1>9, <1>10, <1>11,
           <1>12, <1>13, <1>14, <1>15, <1>16, <1>17, <1>18, <1>19, <1>20, <1>21
        DEF Next, Save, Restore, Format

\* Each command that succeeds takes the floppy one step on.
LEMMA CleanStep == IInv /\ [Next]_vars => Progress'
<1> SUFFICES ASSUME IInv, [Next]_vars PROVE Progress'
  OBVIOUS
<1> USE DEF IInv, Progress, CanMount, Failed, disk
<1>1. ASSUME BeginSave PROVE Progress'
  BY <1>1 DEF BeginSave
<1>2. ASSUME BeginWrite PROVE Progress'
  BY <1>2 DEF BeginWrite
<1>3. ASSUME TestMount PROVE Progress'
  BY <1>3 DEF TestMount
<1>4. ASSUME TestMountFails PROVE Progress'
  BY <1>4 DEF TestMountFails
<1>5. ASSUME Prepare("fdformat", "low", "disklabel") PROVE Progress'
  BY <1>5 DEF Prepare
<1>6. ASSUME Prepare("disklabel", "labelled", "newfs") PROVE Progress'
  BY <1>6 DEF Prepare
<1>7. ASSUME Prepare("newfs", "fs", "remount") PROVE Progress'
  BY <1>7 DEF Prepare
<1>8. ASSUME Remount PROVE Progress'
  BY <1>8 DEF Remount
<1>9. ASSUME Umount PROVE Progress'
  BY <1>9 DEF Umount
<1>10. ASSUME WMount PROVE Progress'
  BY <1>10 DEF WMount
<1>11. ASSUME WTar PROVE Progress'
  BY <1>11 DEF WTar
<1>12. ASSUME WTarEnd PROVE Progress'
  BY <1>12 DEF WTarEnd
<1>13. ASSUME WUmount PROVE Progress'
  BY <1>13 DEF WUmount
<1>14. ASSUME PowerOn PROVE Progress'
  BY <1>14 DEF PowerOn
<1>15. ASSUME BootDefaults PROVE Progress'
  BY <1>15 DEF BootDefaults
<1>16. ASSUME Import PROVE Progress'
  BY <1>16 DEF Import
<1>17. ASSUME Untar PROVE Progress'
  BY <1>17 DEF Untar
<1>18. ASSUME UnUmount PROVE Progress'
  BY <1>18 DEF UnUmount
<1>19. ASSUME Configure PROVE Progress'
  BY <1>19 DEF Configure
<1>20. ASSUME PowerOff PROVE Progress'
  BY <1>20 DEF PowerOff
<1>21. CASE UNCHANGED vars
  BY <1>21 DEF vars
<1> QED BY <1>1, <1>2, <1>3, <1>4, <1>5, <1>6, <1>7, <1>8, <1>9, <1>10, <1>11,
           <1>12, <1>13, <1>14, <1>15, <1>16, <1>17, <1>18, <1>19, <1>20, <1>21
        DEF Next, Save, Restore, Format

\* The last command of a save establishes what it promises, and the others do not
\* disturb it.
LEMMA SavedStep == IInv /\ [Next]_vars => CleanSaveSaves'
<1> SUFFICES ASSUME IInv, [Next]_vars PROVE CleanSaveSaves'
  OBVIOUS
<1> USE DEF IInv, Progress, CleanSaveSaves, CanMount, Failed, disk
<1>1. ASSUME BeginSave PROVE CleanSaveSaves'
  BY <1>1 DEF BeginSave
<1>2. ASSUME BeginWrite PROVE CleanSaveSaves'
  BY <1>2 DEF BeginWrite
<1>3. ASSUME TestMount PROVE CleanSaveSaves'
  BY <1>3 DEF TestMount
<1>4. ASSUME TestMountFails PROVE CleanSaveSaves'
  BY <1>4 DEF TestMountFails
<1>5. ASSUME Prepare("fdformat", "low", "disklabel") PROVE CleanSaveSaves'
  BY <1>5 DEF Prepare
<1>6. ASSUME Prepare("disklabel", "labelled", "newfs") PROVE CleanSaveSaves'
  BY <1>6 DEF Prepare
<1>7. ASSUME Prepare("newfs", "fs", "remount") PROVE CleanSaveSaves'
  BY <1>7 DEF Prepare
<1>8. ASSUME Remount PROVE CleanSaveSaves'
  BY <1>8 DEF Remount
<1>9. ASSUME Umount PROVE CleanSaveSaves'
  BY <1>9 DEF Umount
<1>10. ASSUME WMount PROVE CleanSaveSaves'
  BY <1>10 DEF WMount
<1>11. ASSUME WTar PROVE CleanSaveSaves'
  BY <1>11 DEF WTar
<1>12. ASSUME WTarEnd PROVE CleanSaveSaves'
  BY <1>12 DEF WTarEnd
<1>13. ASSUME WUmount PROVE CleanSaveSaves'
  BY <1>13 DEF WUmount
<1>14. ASSUME PowerOn PROVE CleanSaveSaves'
  BY <1>14 DEF PowerOn
<1>15. ASSUME BootDefaults PROVE CleanSaveSaves'
  BY <1>15 DEF BootDefaults
<1>16. ASSUME Import PROVE CleanSaveSaves'
  BY <1>16 DEF Import
<1>17. ASSUME Untar PROVE CleanSaveSaves'
  BY <1>17 DEF Untar
<1>18. ASSUME UnUmount PROVE CleanSaveSaves'
  BY <1>18 DEF UnUmount
<1>19. ASSUME Configure PROVE CleanSaveSaves'
  BY <1>19 DEF Configure
<1>20. ASSUME PowerOff PROVE CleanSaveSaves'
  BY <1>20 DEF PowerOff
<1>21. CASE UNCHANGED vars
  BY <1>21 DEF vars
<1> QED BY <1>1, <1>2, <1>3, <1>4, <1>5, <1>6, <1>7, <1>8, <1>9, <1>10, <1>11,
           <1>12, <1>13, <1>14, <1>15, <1>16, <1>17, <1>18, <1>19, <1>20, <1>21
        DEF Next, Save, Restore, Format

LEMMA InvariantStep == IInv /\ [Next]_vars => IInv'
BY TypeStep, CountingStep, CleanStep, SavedStep DEF IInv

LEMMA Invariant == Spec => []IInv
<1>1. Init => OtherTypes
  BY SettingAssumption DEF Init, OtherTypes, Content, Saving
<1>2. Init => Counting
  BY DEF Init, Counting
<1>3. Init => Progress /\ CleanSaveSaves
  BY DEF Init, Progress, CleanSaveSaves
<1> QED BY <1>1, <1>2, <1>3, InvariantStep, PTL DEF Spec, IInv

\* Whatever fails, and whenever the power goes off, /etc, the floppy and the
\* mount table are in one of the states that the code reckons with.
THEOREM TypeCorrect == Spec => []TypeOK
<1>1. IInv => TypeOK
  BY DEF IInv, OtherTypes, Counting, TypeOK
<1> QED BY <1>1, Invariant, PTL

\* Every save during which no command fails leaves a floppy that can be mounted
\* again and holds the settings.
THEOREM CleanSaveArchives == Spec => []CleanSaveSaves
BY Invariant, PTL DEF IInv

-----------------------------------------------------------------------------
(* The archive as SettingsStore sees it *)

Stored == IF format = "fs" /\ file \in Content THEN file ELSE None
Phase == CASE pc \in Saving -> "save"
           [] pc = "idle"    -> "up"
           [] OTHER          -> "boot"

\* Every step of the floppy is a step of the store, or none.
LEMMA StoreStep == IInv /\ [Next]_vars => [Store!Next]_<<etc, Stored, Phase>>
<1> SUFFICES ASSUME IInv, [Next]_vars
             PROVE  Store!Next \/ UNCHANGED <<etc, Stored, Phase>>
  OBVIOUS
<1> USE SettingAssumption DEF IInv, OtherTypes, Content, Saving, disk, Stored, Phase
<1>1. ASSUME BeginSave \/ BeginWrite PROVE Store!Begin
  BY <1>1 DEF BeginSave, BeginWrite, Store!Begin
<1>2. ASSUME TestMount \/ TestMountFails \/ Umount \/ WMount
      PROVE  UNCHANGED <<etc, Stored, Phase>>
  BY <1>2 DEF TestMount, TestMountFails, Umount, WMount
<1>3. ASSUME Format PROVE Store!Lose \/ Store!End
  <2>1. ASSUME NEW c \in {"fdformat", "disklabel", "newfs"}, NEW r,
               NEW n \in Saving, Prepare(c, r, n)
        PROVE  Store!Lose \/ Store!End
    BY <2>1 DEF Prepare, Store!Lose, Store!End
  <2> QED BY <1>3, <2>1 DEF Format
<1>4. ASSUME Remount PROVE Store!End \/ UNCHANGED <<etc, Stored, Phase>>
  BY <1>4 DEF Remount, Store!End
<1>5. ASSUME WTar PROVE Store!Lose \/ UNCHANGED <<etc, Stored, Phase>>
  BY <1>5 DEF WTar, Store!Lose
<1>6. ASSUME WTarEnd PROVE Store!Write \/ UNCHANGED <<etc, Stored, Phase>>
  BY <1>6 DEF WTarEnd, Store!Write
<1>7. ASSUME WUmount PROVE Store!End \/ UNCHANGED <<etc, Stored, Phase>>
  BY <1>7 DEF WUmount, Store!End
<1>8. ASSUME PowerOn \/ PowerOff PROVE Store!Reset
  BY <1>8 DEF PowerOn, PowerOff, Store!Reset
<1>9. ASSUME BootDefaults \/ UnUmount PROVE Store!Start
  BY <1>9 DEF BootDefaults, UnUmount, Store!Start
<1>10. ASSUME Import PROVE Store!Start \/ UNCHANGED <<etc, Stored, Phase>>
  BY <1>10 DEF Import, Store!Start
<1>11. ASSUME Untar PROVE Store!Import
  <2>1. CASE file \in Content
    BY <1>11, <2>1 DEF Untar, Store!Import, Progress
  <2>2. CASE file \notin Content
    BY <1>11, <2>2 DEF Untar, Store!Import
  <2> QED BY <2>1, <2>2
<1>12. ASSUME Configure PROVE Store!Edit
  BY <1>12 DEF Configure, Store!Edit
<1>13. CASE UNCHANGED vars
  BY <1>13 DEF vars
<1> QED BY <1>1, <1>2, <1>3, <1>4, <1>5, <1>6, <1>7, <1>8, <1>9, <1>10, <1>11,
           <1>12, <1>13 DEF Next, Save, Restore, Store!Next

\* The scripts, the Save screen and the boot menu together keep the promise of
\* SettingsStore: only a save touches the archive, and an import brings back what
\* was written or, if the archive was lost, says nothing.
THEOREM ArchiveImplementsStore == Spec => ImplementsStore
<1>1. Init => Store!Init
  BY SettingAssumption DEF Init, Store!Init, Content, Saving
<1>2. IInv /\ [Next]_vars => [Store!Next]_Store!vars
  BY StoreStep DEF Stored, Phase, Store!vars
<1> QED BY <1>1, <1>2, Invariant, PTL DEF Spec, ImplementsStore, Store!Spec

=============================================================================
