--------------------------- MODULE DiskFilesProofs ---------------------------
(***************************************************************************)
(* What DiskFiles promises, for any number of PIDs, sizes and writes.  No  *)
(* failure and no crash of the commands that rewrite a disk loses what the *)
(* guest wrote: at every moment the data is in the disk or in a .bak; the  *)
(* steps between which it is in neither are single renames; and a VM whose *)
(* disk may be set aside is a linked one, for which start makes no disk.   *)
(* The setting of the size is written after the disk has that size, and a  *)
(* copy is made known as one, by its manifest or configuration, last.      *)
(***************************************************************************)
EXTENDS DiskFiles, TLAPS

FileType == [is : {"none", "partial", "whole"}, data : Nat, size : Nat]

TypeInv ==
    /\ disk \in FileType
    /\ bak \in [Pids -> FileType]
    /\ compactTmp \in [Pids -> FileType]
    /\ size \in Nat
    /\ arg \in Nat
    /\ written \in Nat
    /\ discarded \in Nat
    /\ discarded <= written
    /\ linked \in BOOLEAN
    /\ running \in BOOLEAN

\* The disk has been set aside, and what is in its place is new.
ResetLabels == {"reset_create", "reset_finish", "reset_resize", "reset_efi", "reset_remove"}

\* What each step of a command knows of the files.
StepInv ==
    /\ pc # "idle" => pid \in Pids
    /\ running => pc = "idle" /\ disk.is = "whole"
    /\ pc \in {"launch", "compact_finish", "compact_replace"} => disk.is = "whole"
    /\ pc = "compact_replace" => compactTmp[pid] = disk
    /\ pc = "create_disk" => disk.is = "partial"
    /\ pc \in ResetLabels => linked /\ disk.data = 0
    /\ pc \in ResetLabels \cup {"reset_check"} => op = "reset"

\* A file that is not a whole disk holds nothing, a .bak is never half a disk, and
\* only a linked VM has one.
FileInv ==
    /\ disk.is # "whole" => disk.data = 0
    /\ \A p \in Pids :
        /\ bak[p].is # "whole" => bak[p].data = 0
        /\ bak[p].is # "partial"
        /\ ~linked => bak[p].is = "none"

DiskInv == TypeInv /\ StepInv /\ FileInv /\ DataSurvives /\ DiskIsWhole

-----------------------------------------------------------------------------

\* DiskInv holds before the first command.
LEMMA InitDisk == Init => DiskInv
<1> SUFFICES ASSUME Init PROVE DiskInv
  OBVIOUS
<1>1. size \in Nat
  BY DiskAssumption DEF Init, Sizes
<1>2. NoFile \in FileType /\ Whole(0, size) \in FileType
  BY <1>1 DEF NoFile, Whole, FileType
<1>3. TypeInv
  <2>1. disk \in FileType
    BY <1>2 DEF Init
  <2>2. bak \in [Pids -> FileType] /\ compactTmp \in [Pids -> FileType]
    <3>1. bak = [p \in Pids |-> NoFile] /\ compactTmp = [p \in Pids |-> NoFile]
      BY DEF Init
    <3>2. QED
      BY <1>2, <3>1
  <2>3. linked \in BOOLEAN /\ running \in BOOLEAN
    BY Zenon DEF Init
  <2>4. arg = 0 /\ written = 0 /\ discarded = 0
    BY DEF Init
  <2>5. QED
    BY <1>1, <2>1, <2>2, <2>3, <2>4 DEF TypeInv
<1>4. StepInv
  BY DEF Init, StepInv, ResetLabels
<1>5. FileInv
  BY DEF Init, FileInv, NoFile, Whole
<1>6. QED
  BY <1>3, <1>4, <1>5 DEF Init, DiskInv, DataSurvives, DiskIsWhole, Whole, NoFile

\* A command that begins, or one that dies, leaves the files as they are.
LEMMA BeginKeeps ==
    ASSUME DiskInv, Begin \/ Crash
    PROVE  DiskInv'
<1> USE DEF DiskInv, TypeInv, FileInv, DataSurvives, DiskIsWhole, image, settings
<1>1. CASE Begin
  <2>1. PICK o \in Ops : /\ pc' = FirstStep[o]
                         /\ op' = o
                         /\ arg' \in IF o \in {"set", "resize"} THEN Sizes ELSE {0}
    BY <1>1 DEF Begin
  <2>2. /\ pc' \in {"ensure_disk", "resize", "compact_convert", "reset_check", "delete_disk",
                    "backup_dir", "clone_dir"}
        /\ pc' = "reset_check" => o = "reset"
    BY <2>1, DiskAssumption DEF FirstStep, AllOps
  <2>3. arg' \in Nat
    BY <2>1, DiskAssumption DEF Sizes
  <2>4. StepInv'
    BY <1>1, <2>1, <2>2 DEF Begin, StepInv, ResetLabels
  <2>5. QED
    BY <1>1, <2>3, <2>4 DEF Begin
<1>2. CASE Crash
  <2>1. StepInv'
    BY <1>2 DEF Crash, Return, StepInv, ResetLabels
  <2>2. QED
    BY <1>2, <2>1 DEF Crash, Return
<1>3. QED
  BY <1>1, <1>2

\* start creates a disk only where there is none, and then the guest has no data.
LEMMA StartKeeps ==
    ASSUME DiskInv, StartStep
    PROVE  DiskInv'
<1> USE DEF DiskInv, TypeInv, StepInv, FileInv, DataSurvives, DiskIsWhole, FileType, image,
            settings, Goto, Return, ResetLabels
<1>1. CASE EnsureDisk
  BY <1>1 DEF EnsureDisk, Partial
<1>2. CASE CreateDisk
  BY <1>2 DEF CreateDisk, Whole, NoFile, Partial
<1>3. CASE Launch
  BY <1>3 DEF Launch
<1>4. QED
  BY <1>1, <1>2, <1>3 DEF StartStep

\* A resize keeps what is in the disk.
LEMMA ResizeKeeps ==
    ASSUME DiskInv, ResizeStep
    PROVE  DiskInv'
<1> USE DEF DiskInv, TypeInv, StepInv, FileInv, DataSurvives, DiskIsWhole, FileType, image,
            settings, Goto, Return, Fail, AfterResize, ResetLabels
<1>1. CASE ResizeDisk
  BY <1>1 DEF ResizeDisk
<1>2. CASE AppendSettings
  BY <1>2 DEF AppendSettings
<1>3. QED
  BY <1>1, <1>2 DEF ResizeStep

\* compact replaces the disk by a file that holds the same.
LEMMA CompactKeeps ==
    ASSUME DiskInv, CompactStep
    PROVE  DiskInv'
<1> USE DEF DiskInv, TypeInv, StepInv, FileInv, DataSurvives, DiskIsWhole, FileType, Goto, Return,
            settings, ResetLabels
<1>1. CASE CompactConvert
  BY <1>1 DEF CompactConvert, Partial
<1>2. CASE CompactFinish
  BY <1>2 DEF CompactFinish, NoFile
<1>3. CASE CompactReplace
  BY <1>3 DEF CompactReplace, NoFile
<1>4. QED
  BY <1>1, <1>2, <1>3 DEF CompactStep

\* The error path of reset puts the disk back or leaves the .bak.
LEMMA RollBackKeeps ==
    ASSUME DiskInv, pc \in ResetLabels, RollBack,
           UNCHANGED <<compactTmp, settings, running, written, discarded>>
    PROVE  DiskInv'
BY SMTT(30)
   DEF DiskInv, TypeInv, StepInv, FileInv, DataSurvives, DiskIsWhole, FileType, RollBack, Return, NoFile, settings, ResetLabels

\* reset keeps the old disk in the .bak until the new one is complete.
LEMMA ResetKeeps ==
    ASSUME DiskInv, ResetStep
    PROVE  DiskInv'
<1> USE DEF DiskInv, TypeInv, StepInv, FileInv, DataSurvives, DiskIsWhole, FileType, Goto, Return,
            Fail, image, settings, ResetLabels
<1>1. CASE ResetCheck
  <2>1. CASE UNCHANGED <<disk, bak>>
    BY <1>1, <2>1 DEF ResetCheck, NoFile
  <2>2. CASE /\ linked
             /\ bak[pid].is = "none"
             /\ bak' = [bak EXCEPT ![pid] = disk]
             /\ disk' = NoFile
             /\ Goto("reset_create")
    <3>1. pid \in Pids /\ UNCHANGED <<compactTmp, settings, running, written, discarded>> /\ ~running
      BY <1>1 DEF ResetCheck
    <3>2. TypeInv'
      BY <2>2, <3>1 DEF NoFile
    <3>3. StepInv'
      BY <1>1, <2>2, <3>1 DEF ResetCheck, NoFile
    <3>4. FileInv'
      BY <2>2, <3>1 DEF NoFile
    <3>5. DataSurvives'
      BY <2>2, <3>1 DEF NoFile
    <3>6. QED
      BY <2>2, <3>1, <3>2, <3>3, <3>4, <3>5 DEF NoFile
  <2>3. QED
    BY <1>1, <2>1, <2>2 DEF ResetCheck
<1>2. CASE ResetCreate
  BY <1>2, RollBackKeeps DEF ResetCreate
<1>3. CASE ResetFinish
  BY <1>3, RollBackKeeps DEF ResetFinish, Whole
<1>4. CASE ResetResize
  BY <1>4, RollBackKeeps DEF ResetResize, Whole
<1>5. CASE ResetEfiVars
  <2>1. /\ UNCHANGED <<disk, bak, compactTmp, settings, running, written, discarded>>
        /\ Goto("reset_remove") \/ Return
        /\ pc \in ResetLabels
    BY <1>5 DEF ResetEfiVars
  <2>2. QED
    BY <2>1
<1>6. CASE ResetRemoveBak
  <2>1. CASE Fail
    BY <1>6, <2>1 DEF ResetRemoveBak
  <2>2. CASE /\ bak' = [bak EXCEPT ![pid] = NoFile]
             /\ discarded' = IF bak[pid].data = written THEN written ELSE discarded
             /\ Return
             /\ UNCHANGED <<disk, compactTmp, settings, running, written>>
    <3>1. pid \in Pids /\ ~running /\ linked
      BY <1>6 DEF ResetRemoveBak
    <3>2. TypeInv'
      BY <2>2, <3>1 DEF NoFile
    <3>3. StepInv' /\ FileInv'
      BY <2>2, <3>1 DEF NoFile
    <3>4. DataSurvives'
      BY <2>2, <3>1
    <3>5. QED
      BY <2>2, <3>1, <3>2, <3>3, <3>4
  <2>3. QED
    BY <1>6, <2>1, <2>2 DEF ResetRemoveBak
<1>7. QED
  BY <1>1, <1>2, <1>3, <1>4, <1>5, <1>6 DEF ResetStep

\* delete-disk discards what it removes.
LEMMA DeleteKeeps ==
    ASSUME DiskInv, DeleteStep
    PROVE  DiskInv'
<1> USE DEF DiskInv, TypeInv, StepInv, FileInv, DataSurvives, DiskIsWhole, FileType, Goto, Return,
            Fail, image, settings, ResetLabels
<1>1. CASE DeleteDisk
  BY <1>1 DEF DeleteDisk, NoFile
<1>2. CASE DeleteEfiVars
  BY <1>2 DEF DeleteEfiVars
<1>3. QED
  BY <1>1, <1>2 DEF DeleteStep

\* backup and clone only read the disk.
LEMMA CopiesKeep ==
    ASSUME DiskInv, BackupStep \/ CloneStep
    PROVE  DiskInv'
<1>1. /\ UNCHANGED <<image, settings, running, written, discarded>>
      /\ Return \/ \E l \in {"backup_disk", "backup_convert", "backup_conf", "backup_efi",
                             "backup_manifest", "clone_disk", "clone_convert", "clone_conf",
                             "clone_write"} : Goto(l)
      /\ pc # "idle"
  <2>1. CASE BackupStep
    BY <2>1
       DEF BackupStep, BackupDir, BackupDisk, BackupConvert, BackupConf, BackupEfiVars,
           BackupManifest, BackupFails, BackupUnchanged
  <2>2. CASE CloneStep
    BY <2>2
       DEF CloneStep, CloneDir, CloneDisk, CloneConvert, CloneConf, CloneWrite, CloneFails,
           CloneUnchanged
  <2>3. QED
    BY <2>1, <2>2
<1>2. QED
  BY <1>1
     DEF DiskInv, TypeInv, StepInv, FileInv, DataSurvives, DiskIsWhole, Goto, Return, image,
         settings, ResetLabels

\* The guest writes to the disk of a running VM, which is whole.
LEMMA GuestKeeps ==
    ASSUME DiskInv, GuestWrites \/ QemuExit \/ UNCHANGED vars
    PROVE  DiskInv'
<1> USE DEF DiskInv, TypeInv, StepInv, FileInv, DataSurvives, DiskIsWhole, FileType, command,
            image, settings, ResetLabels
<1>1. CASE GuestWrites
  BY <1>1 DEF GuestWrites
<1>2. CASE QemuExit
  BY <1>2 DEF QemuExit
<1>3. CASE UNCHANGED vars
  BY <1>3 DEF vars
<1>4. QED
  BY <1>1, <1>2, <1>3

\* DiskInv is inductive.
LEMMA NextDisk == DiskInv /\ [Next]_vars => DiskInv'
BY BeginKeeps, StartKeeps, ResizeKeeps, CompactKeeps, ResetKeeps, DeleteKeeps, CopiesKeep,
   GuestKeeps DEF Next

\* Wherever reset, compact, set, delete-disk, backup or clone fails or dies, and
\* however often, what the guest wrote last stays in the disk or in a .bak
\* until a reset or delete-disk discards it.
THEOREM DataSurvivesHolds == Spec => []DataSurvives
<1>1. DiskInv => DataSurvives
  BY DEF DiskInv
<1>2. QED
  BY <1>1, InitDisk, NextDisk, PTL DEF Spec

\* A disk in place is whole, but for a blank one of a VM without data (the rename
\* of create_cloud_overlay and of replace_file).
THEOREM DiskIsWholeHolds == Spec => []DiskIsWhole
<1>1. DiskInv => DiskIsWhole
  BY DEF DiskInv
<1>2. QED
  BY <1>1, InitDisk, NextDisk, PTL DEF Spec

\* start makes a blank disk only for a VM whose guest has no data anywhere: the
\* test of ensure_disk for cloud_base_img is what an interrupted reset needs.
THEOREM BlankOnlyWithoutDataHolds == Spec => BlankOnlyWithoutData
<1> DEFINE Blank == disk.is = "none" /\ op = "start" /\ disk'.is # "none" => discarded = written
<1>1. DiskInv /\ [Next]_vars => [Blank]_vars
  <2> SUFFICES ASSUME DiskInv, Next, disk.is = "none", op = "start", disk'.is # "none"
               PROVE  discarded = written
    OBVIOUS
  <2>1. EnsureDisk \/ UNCHANGED disk
    <3> USE DEF DiskInv, StepInv, image
    <3>1. CASE Begin \/ Crash \/ GuestWrites \/ QemuExit
      BY <3>1 DEF Begin, Crash, GuestWrites, QemuExit
    <3>2. CASE StartStep
      BY <3>2 DEF StartStep, CreateDisk, Launch
    <3>3. CASE ResizeStep
      BY <3>3 DEF ResizeStep, ResizeDisk, AppendSettings, Fail
    <3>4. CASE CompactStep
      BY <3>4 DEF CompactStep, CompactConvert, CompactFinish, CompactReplace
    <3>5. CASE ResetStep
      BY <3>5
         DEF ResetStep, ResetCheck, ResetCreate, ResetFinish, ResetResize, ResetEfiVars,
             ResetRemoveBak, ResetLabels
    <3>6. CASE DeleteStep
      BY <3>6 DEF DeleteStep, DeleteDisk, DeleteEfiVars, NoFile, Fail
    <3>7. CASE BackupStep
      BY <3>7
         DEF BackupStep, BackupDir, BackupDisk, BackupConvert, BackupConf, BackupEfiVars,
             BackupManifest, BackupUnchanged
    <3>8. CASE CloneStep
      BY <3>8
         DEF CloneStep, CloneDir, CloneDisk, CloneConvert, CloneConf, CloneWrite, CloneUnchanged
    <3>9. QED
      BY <3>1, <3>2, <3>3, <3>4, <3>5, <3>6, <3>7, <3>8 DEF Next
  <2>2. EnsureDisk /\ ~linked
    BY <2>1 DEF EnsureDisk
  <2>3. QED
    BY <2>2 DEF DiskInv, TypeInv, FileInv, DataSurvives, FileType
<1>2. QED
  BY <1>1, InitDisk, NextDisk, PTL DEF Spec, BlankOnlyWithoutData

-----------------------------------------------------------------------------
(* The setting follows the disk: set --disk-size gets to its append with a *)
(* disk that has the new size.                                             *)

SizeInv ==
    /\ pc \in {"resize", "set_append"} => arg \in Sizes
    /\ pc = "set_append" => disk.is = "whole" /\ disk.size = arg

LEMMA InitSize == Init => SizeInv
  BY DEF Init, SizeInv

LEMMA NextSize == DiskInv /\ SizeInv /\ [Next]_vars => SizeInv'
<1> SUFFICES ASSUME DiskInv, SizeInv, [Next]_vars PROVE SizeInv'
  OBVIOUS
<1>1. CASE Begin
  <2>1. PICK o \in Ops : /\ pc' = FirstStep[o]
                         /\ arg' \in IF o \in {"set", "resize"} THEN Sizes ELSE {0}
    BY <1>1 DEF Begin
  <2> QED BY <2>1, DiskAssumption DEF FirstStep, AllOps, SizeInv, Sizes
<1>2. CASE ResizeDisk
  BY <1>2 DEF ResizeDisk, AfterResize, Goto, Return, SizeInv, DiskInv, TypeInv, FileType, Sizes
<1>3. CASE AppendSettings \/ Crash
  BY <1>3 DEF AppendSettings, Crash, Fail, Return, SizeInv
<1>4. CASE StartStep \/ CompactStep \/ ResetStep \/ DeleteStep
  <2>1. pc' \notin {"resize", "set_append"}
    BY <1>4 DEF StartStep, EnsureDisk, CreateDisk, Launch, CompactStep, CompactConvert,
       CompactFinish, CompactReplace, ResetStep, ResetCheck, RollBack, ResetCreate, ResetFinish,
       ResetResize, ResetEfiVars, ResetRemoveBak, DeleteStep, DeleteDisk, DeleteEfiVars, Fail,
       Goto, Return
  <2> QED BY <2>1 DEF SizeInv
<1>5. CASE BackupStep \/ CloneStep
  <2>1. pc' \notin {"resize", "set_append"}
    BY <1>5 DEF BackupStep, BackupDir, BackupDisk, BackupConvert, BackupConf, BackupEfiVars,
       BackupManifest, BackupFails, CloneStep, CloneDir, CloneDisk, CloneConvert, CloneConf,
       CloneWrite, CloneFails, Goto, Return
  <2> QED BY <2>1 DEF SizeInv
<1>6. CASE GuestWrites \/ QemuExit
  BY <1>6 DEF GuestWrites, QemuExit, command, image, SizeInv, DiskInv, StepInv
<1>7. CASE UNCHANGED vars
  BY <1>7 DEF vars, command, image, SizeInv, Sizes
<1> QED BY <1>1, <1>2, <1>3, <1>4, <1>5, <1>6, <1>7 DEF Next, ResizeStep

\* The configuration gets a disk size only when the disk has it, wherever
\* set --disk-size fails or dies between qemu-img resize and the append.
THEOREM SettingFollowsDiskHolds == Spec => SettingFollowsDisk
<1> DEFINE Follows == size' # size => disk.is = "whole" /\ disk.size = size'
<1>1. SizeInv /\ [Next]_vars => [Follows]_vars
  <2> SUFFICES ASSUME SizeInv, Next, size' # size
               PROVE  disk.is = "whole" /\ disk.size = size'
    OBVIOUS
  <2>1. AppendSettings
    <3>1. CASE Begin \/ StartStep \/ CompactStep \/ ResetStep \/ DeleteStep \/ ResizeDisk
      BY <3>1 DEF Begin, StartStep, EnsureDisk, CreateDisk, Launch, CompactStep, CompactConvert,
         CompactFinish, CompactReplace, ResetStep, ResetCheck, ResetCreate, ResetFinish,
         ResetResize, ResetEfiVars, ResetRemoveBak, DeleteStep, DeleteDisk, DeleteEfiVars, Fail,
         ResizeDisk, settings
    <3>2. CASE BackupStep \/ CloneStep \/ GuestWrites \/ QemuExit \/ Crash
      BY <3>2 DEF BackupStep, BackupDir, BackupDisk, BackupConvert, BackupConf, BackupEfiVars,
         BackupManifest, BackupUnchanged, CloneStep, CloneDir, CloneDisk, CloneConvert, CloneConf,
         CloneWrite, CloneUnchanged, GuestWrites, QemuExit, Crash, settings
    <3> QED BY <3>1, <3>2 DEF Next, ResizeStep
  <2> QED BY <2>1 DEF AppendSettings, Fail, settings, SizeInv
<1> QED BY <1>1, InitDisk, NextDisk, InitSize, NextSize, PTL DEF Spec, SettingFollowsDisk

-----------------------------------------------------------------------------
(* Types: the files, and the sizes on both sides of the bounds.            *)

Backups ==
    [dir : BOOLEAN, disk : Files, conf : 0 .. MaxSize, efiVars : BOOLEAN, manifest : BOOLEAN]

Clones == [dir : BOOLEAN, disk : Files, conf : {"none", "partial", "whole"}]

\* The images that commands make.
LEMMA NewFiles ==
    /\ NoFile \in Files /\ Partial \in Files
    /\ \A n \in Sizes : Whole(0, n) \in Files
    /\ Whole(0, 1) \in Files
    /\ NoBackup \in Backups /\ NoClone \in Clones
<1>1. 0 \in 0 .. MaxSize /\ 0 \in 0 .. MaxWrites /\ 1 \in Sizes /\ Sizes \subseteq 0 .. MaxSize
  BY DiskAssumption DEF Sizes
<1>2. NoFile \in Files /\ Partial \in Files
  BY <1>1 DEF NoFile, Partial, Files
<1>3. \A n \in Sizes : Whole(0, n) \in Files
  BY <1>1 DEF Whole, Files
<1> QED BY <1>1, <1>2, <1>3 DEF NoBackup, NoClone, Backups, Clones

\* What a file keeps of its type when a part of it changes.
LEMMA ChangedFiles ==
    ASSUME NEW f \in Files
    PROVE  /\ \A n \in 0 .. MaxSize : [f EXCEPT !.size = n] \in Files
           /\ \A d \in 0 .. MaxWrites : [f EXCEPT !.data = d] \in Files
  BY DEF Files

LEMMA InitTypes == Init => TypeOK
<1> SUFFICES ASSUME Init PROVE TypeOK
  OBVIOUS
<1>1. 0 \in 0 .. MaxSize /\ 0 \in 0 .. MaxWrites
  BY DiskAssumption
<1>2. linked \in BOOLEAN /\ running \in BOOLEAN /\ efiVars \in BOOLEAN
  BY Zenon DEF Init
<1>3. disk \in Files /\ overlayTmp \in Files /\ size \in Sizes
  BY NewFiles DEF Init
<1>4. bak \in [Pids -> Files] /\ compactTmp \in [Pids -> Files]
  BY NewFiles DEF Init
<1>5. backup \in Backups /\ clone \in Clones
  BY NewFiles DEF Init
<1>6. pc \in Labels /\ op \in Ops \cup {"none"} /\ pid \in Pids \cup {NoPid}
  BY DEF Init, Labels
<1> QED BY <1>1, <1>2, <1>3, <1>4, <1>5, <1>6 DEF Init, TypeOK, Backups, Clones

\* What a step does to the command, and to the rest.
CommandTypes ==
    pc \in Labels /\ op \in Ops \cup {"none"} /\ pid \in Pids \cup {NoPid} /\ arg \in 0 .. MaxSize

RestTypes ==
    /\ linked \in BOOLEAN /\ running \in BOOLEAN /\ efiVars \in BOOLEAN
    /\ disk \in Files /\ overlayTmp \in Files
    /\ bak \in [Pids -> Files] /\ compactTmp \in [Pids -> Files]
    /\ size \in Sizes
    /\ backup \in Backups /\ clone \in Clones
    /\ written \in 0 .. MaxWrites /\ discarded \in 0 .. MaxWrites

LEMMA TypeParts == TypeOK <=> CommandTypes /\ RestTypes
  BY DEF TypeOK, CommandTypes, RestTypes, Backups, Clones

LEMMA ReturnTypes ==
    ASSUME Return
    PROVE  CommandTypes'
<1>1. 0 \in 0 .. MaxSize
  BY DiskAssumption
<1> QED BY <1>1 DEF Return, CommandTypes, Labels

LEMMA GotoTypes ==
    ASSUME CommandTypes, NEW l \in Labels, Goto(l)
    PROVE  CommandTypes'
  BY DEF Goto, CommandTypes, Labels

\* Commands go from label to label.
LEMMA CommandSteps ==
    ASSUME TypeOK, [Next]_vars
    PROVE  CommandTypes'
<1>1. CommandTypes
  BY TypeParts
<1>2. CASE Begin
  <2>1. PICK o \in Ops : /\ pc' = FirstStep[o]
                         /\ op' = o
                         /\ arg' \in IF o \in {"set", "resize"} THEN Sizes ELSE {0}
    BY <1>2 DEF Begin
  <2>2. pc' \in Labels
    BY <2>1, DiskAssumption DEF FirstStep, AllOps, Labels
  <2>3. arg' \in 0 .. MaxSize
    BY <2>1, DiskAssumption DEF Sizes
  <2> QED BY <1>2, <2>1, <2>2, <2>3 DEF Begin, CommandTypes
<1>3. CASE StartStep \/ ResizeStep \/ CompactStep \/ ResetStep \/ DeleteStep
  <2>1. Return \/ \E l \in Labels : Goto(l)
    BY <1>3 DEF StartStep, EnsureDisk, CreateDisk, Launch, ResizeStep, ResizeDisk, AfterResize,
       AppendSettings, CompactStep, CompactConvert, CompactFinish, CompactReplace, ResetStep,
       ResetCheck, RollBack, ResetCreate, ResetFinish, ResetResize, ResetEfiVars, ResetRemoveBak,
       DeleteStep, DeleteDisk, DeleteEfiVars, Fail, Labels
  <2> QED BY <1>1, <2>1, ReturnTypes, GotoTypes
<1>4. CASE BackupStep \/ CloneStep
  <2>1. Return \/ \E l \in Labels : Goto(l)
    BY <1>4 DEF BackupStep, BackupDir, BackupDisk, BackupConvert, BackupConf, BackupEfiVars,
       BackupManifest, BackupFails, CloneStep, CloneDir, CloneDisk, CloneConvert, CloneConf,
       CloneWrite, CloneFails, Labels
  <2> QED BY <1>1, <2>1, ReturnTypes, GotoTypes
<1>5. CASE GuestWrites \/ QemuExit \/ UNCHANGED vars
  BY <1>1, <1>5 DEF GuestWrites, QemuExit, vars, command, CommandTypes
<1>6. CASE Crash
  BY <1>6, ReturnTypes DEF Crash
<1> QED BY <1>2, <1>3, <1>4, <1>5, <1>6 DEF Next

\* The steps of the commands that rewrite the disk.
LEMMA ImageSteps ==
    ASSUME DiskInv, TypeOK, SizeInv, StartStep \/ ResizeStep \/ CompactStep \/ ResetStep \/ DeleteStep
    PROVE  RestTypes'
<1> USE NewFiles
<1>1. RestTypes /\ arg \in 0 .. MaxSize
  BY TypeParts DEF TypeOK
<1>2. pid \in Pids
  BY DEF DiskInv, StepInv, StartStep, EnsureDisk, CreateDisk, Launch, ResizeStep, ResizeDisk,
         AppendSettings, CompactStep, CompactConvert, CompactFinish, CompactReplace, ResetStep,
         ResetCheck, ResetCreate, ResetFinish, ResetResize, ResetEfiVars, ResetRemoveBak,
         DeleteStep, DeleteDisk, DeleteEfiVars
<1>3. CASE StartStep
  BY <1>1, <1>3 DEF StartStep, EnsureDisk, CreateDisk, Launch, RestTypes, settings, copies, image
<1>4. CASE ResizeStep
  <2>1. disk' \in Files
    BY <1>1, <1>4, ChangedFiles DEF ResizeStep, ResizeDisk, AppendSettings, Fail, RestTypes, image
  <2>2. size' \in Sizes
    <3>1. CASE AppendSettings
      BY <1>1, <3>1 DEF AppendSettings, Fail, RestTypes, settings, SizeInv
    <3>2. CASE ResizeDisk
      BY <1>1, <3>2 DEF ResizeDisk, RestTypes, settings
    <3> QED BY <1>4, <3>1, <3>2 DEF ResizeStep
  <2> QED BY <1>1, <1>4, <2>1, <2>2
          DEF ResizeStep, ResizeDisk, AppendSettings, Fail, RestTypes, settings, copies, image
<1>5. CASE CompactStep
  BY <1>1, <1>2, <1>5 DEF CompactStep, CompactConvert, CompactFinish, CompactReplace, RestTypes,
     settings, copies
<1>6. CASE ResetStep
  <2>1. bak[pid].data \in 0 .. MaxWrites
    BY <1>1, <1>2 DEF RestTypes, Files
  <2> QED BY <1>1, <1>2, <1>6, <2>1 DEF ResetStep, ResetCheck, RollBack, ResetCreate, ResetFinish,
          ResetResize, ResetEfiVars, ResetRemoveBak, Fail, RestTypes, settings, copies, image
<1>7. CASE DeleteStep
  <2>1. disk.data \in 0 .. MaxWrites
    BY <1>1 DEF RestTypes, Files
  <2> QED BY <1>1, <1>7, <2>1 DEF DeleteStep, DeleteDisk, DeleteEfiVars, Fail, RestTypes,
          settings, copies, image
<1> QED BY <1>3, <1>4, <1>5, <1>6, <1>7

\* The steps of backup and clone.
LEMMA CopySteps ==
    ASSUME TypeOK, BackupStep \/ CloneStep
    PROVE  RestTypes'
<1> USE NewFiles
<1>1. RestTypes
  BY TypeParts
<1>2. 0 .. MaxSize # {} /\ Sizes \subseteq 0 .. MaxSize
  BY DiskAssumption DEF Sizes
<1>3. CASE BackupStep
  <2>1. backup' \in Backups
    BY <1>1, <1>2, <1>3 DEF BackupStep, BackupDir, BackupDisk, BackupConvert, BackupConf,
       BackupEfiVars, BackupManifest, BackupFails, RestTypes, Backups
  <2> QED BY <1>1, <1>3, <2>1 DEF BackupStep, BackupDir, BackupDisk, BackupConvert, BackupConf,
          BackupEfiVars, BackupManifest, BackupUnchanged, RestTypes, settings, image
<1>4. CASE CloneStep
  <2>1. clone' \in Clones
    BY <1>1, <1>4 DEF CloneStep, CloneDir, CloneDisk, CloneConvert, CloneConf, CloneWrite,
       CloneFails, RestTypes, Clones
  <2> QED BY <1>1, <1>4, <2>1 DEF CloneStep, CloneDir, CloneDisk, CloneConvert, CloneConf,
          CloneWrite, CloneUnchanged, RestTypes, settings, image
<1> QED BY <1>3, <1>4

\* The rest follows from the types of what a step starts from.
LEMMA RestSteps ==
    ASSUME DiskInv, TypeOK, SizeInv, [Next]_vars
    PROVE  RestTypes'
<1>1. RestTypes
  BY TypeParts
<1>2. CASE Begin
  BY <1>1, <1>2, NewFiles DEF Begin, RestTypes, image, settings
<1>3. CASE GuestWrites
  <2>1. written + 1 \in 0 .. MaxWrites
    BY <1>1, <1>3, DiskAssumption DEF GuestWrites, RestTypes
  <2>2. disk' \in Files
    BY <1>1, <1>3, <2>1, ChangedFiles DEF GuestWrites, RestTypes
  <2> QED BY <1>1, <1>3, <2>1, <2>2 DEF GuestWrites, RestTypes, settings, copies
<1>4. CASE QemuExit \/ Crash \/ UNCHANGED vars
  BY <1>1, <1>4 DEF QemuExit, Crash, vars, RestTypes, image, settings, copies
<1> QED BY <1>2, <1>3, <1>4, ImageSteps, CopySteps DEF Next

LEMMA NextTypes == DiskInv /\ TypeOK /\ SizeInv /\ [Next]_vars => TypeOK'
  BY CommandSteps, RestSteps DEF TypeOK, CommandTypes, RestTypes, Backups, Clones

\* Every state is well typed: no command gets past its last step or takes a disk, a setting
\* or a copy out of the range of sizes.
THEOREM DiskTypeCorrectness == Spec => []TypeOK
  BY InitDisk, NextDisk, InitSize, NextSize, InitTypes, NextTypes, PTL DEF Spec

-----------------------------------------------------------------------------
(* backup and clone: what they have put in the copy by each of their steps. *)

BackupLabels == {"backup_conf", "backup_efi", "backup_manifest"}

CloneLabels == {"clone_conf", "clone_write"}

CopyInv ==
    /\ pc \in BackupLabels \cup {"backup_convert"} => disk.is = "whole"
    /\ pc \in BackupLabels => backup.disk = disk
    /\ pc \in {"backup_efi", "backup_manifest"} => backup.conf = size
    /\ pc = "backup_manifest" => backup.efiVars = efiVars
    /\ pc \in CloneLabels \cup {"clone_convert"} => disk.is = "whole"
    /\ pc \in CloneLabels \cup {"clone_disk", "clone_convert"} => clone.dir /\ clone.conf # "whole"
    /\ pc = "clone_dir" => clone.conf # "whole"
    /\ pc \in CloneLabels => clone.disk.is = "whole"
    /\ CloneIsWhole

CopyPlaces ==
    BackupLabels \cup CloneLabels \cup {"backup_convert", "clone_dir", "clone_disk", "clone_convert"}

LEMMA InitCopies == Init => CopyInv
  BY DEF Init, CopyInv, BackupLabels, CloneLabels, CloneIsWhole, NoClone

\* Only backup and clone touch the copies, and what they copy stands still meanwhile.
LEMMA OthersLeaveCopies ==
    ASSUME CopyInv, clone' = clone, pc' \notin CopyPlaces
    PROVE  CopyInv'
  BY DEF CopyInv, CopyPlaces, CloneIsWhole, BackupLabels, CloneLabels

LEMMA BackupSteps ==
    ASSUME TypeOK, CopyInv, BackupStep
    PROVE  CopyInv'
<1>1. backup \in [dir : BOOLEAN, disk : Files, conf : 0 .. MaxSize, efiVars : BOOLEAN,
                  manifest : BOOLEAN]
  BY DEF TypeOK
<1>2. disk' = disk /\ size' = size /\ efiVars' = efiVars /\ clone' = clone
  BY DEF BackupStep, BackupDir, BackupDisk, BackupConvert, BackupConf, BackupEfiVars,
         BackupManifest, BackupUnchanged, image, settings
<1>3. CASE pc' = "idle"
  BY <1>2, <1>3, OthersLeaveCopies DEF CopyPlaces, BackupLabels, CloneLabels
<1> USE DEF Goto, Return, BackupFails, BackupLabels, CloneLabels
<1>4. CASE BackupDir \/ BackupDisk
  BY <1>1, <1>2, <1>4 DEF BackupDir, BackupDisk, CopyInv, CloneIsWhole
<1>5. CASE BackupConvert
  BY <1>1, <1>2, <1>3, <1>5 DEF BackupConvert, CopyInv, CloneIsWhole
<1>6. CASE BackupConf
  BY <1>1, <1>2, <1>3, <1>6 DEF BackupConf, CopyInv, CloneIsWhole
<1>7. CASE BackupEfiVars
  BY <1>1, <1>2, <1>3, <1>7 DEF BackupEfiVars, CopyInv, CloneIsWhole
<1>8. CASE BackupManifest
  BY <1>3, <1>8 DEF BackupManifest
<1> QED BY <1>4, <1>5, <1>6, <1>7, <1>8 DEF BackupStep

LEMMA CloneSteps ==
    ASSUME TypeOK, CopyInv, CloneStep
    PROVE  CopyInv'
<1>1. clone \in [dir : BOOLEAN, disk : Files, conf : {"none", "partial", "whole"}]
  BY DEF TypeOK
<1>2. disk' = disk /\ size' = size /\ efiVars' = efiVars /\ backup' = backup
  BY DEF CloneStep, CloneDir, CloneDisk, CloneConvert, CloneConf, CloneWrite, CloneUnchanged,
         image, settings
<1> USE DEF Goto, Return, CloneFails, BackupLabels, CloneLabels
<1>3. CASE CloneDir
  BY <1>1, <1>2, <1>3 DEF CloneDir, CopyInv, CloneIsWhole
<1>7. CASE CloneDisk
  <2>1. clone.dir /\ clone.conf # "whole"
    BY <1>7 DEF CloneDisk, CopyInv
  <2>2. clone'.conf # "whole"
    <3>1. clone' \in {NoClone, clone, [clone EXCEPT !.disk = Partial],
                      [clone EXCEPT !.dir = FALSE, !.disk = NoFile]}
      BY <1>7 DEF CloneDisk
    <3>2. NoClone.conf = "none" /\ [clone EXCEPT !.disk = Partial].conf = clone.conf
      BY <1>1 DEF NoClone
    <3>3. [clone EXCEPT !.dir = FALSE, !.disk = NoFile].conf = clone.conf
      BY <1>1
    <3> QED BY <2>1, <3>1, <3>2, <3>3
  <2>3. pc' \notin CopyPlaces \/ (pc' = "clone_convert" /\ disk.is = "whole" /\ clone'.dir)
    BY <1>1, <1>7, <2>1 DEF CloneDisk, CopyPlaces
  <2> QED BY <1>2, <2>2, <2>3 DEF CopyPlaces, CopyInv, CloneIsWhole
<1>4. CASE CloneConvert
  BY <1>1, <1>2, <1>4 DEF CloneConvert, CopyInv, CloneIsWhole
<1>5. CASE CloneConf
  BY <1>1, <1>2, <1>5 DEF CloneConf, CopyInv, CloneIsWhole
<1>6. CASE CloneWrite
  BY <1>1, <1>2, <1>6 DEF CloneWrite, CopyInv, CloneIsWhole
<1> QED BY <1>3, <1>4, <1>5, <1>6, <1>7 DEF CloneStep

LEMMA NextCopies == DiskInv /\ TypeOK /\ CopyInv /\ [Next]_vars => CopyInv'
<1> SUFFICES ASSUME DiskInv, TypeOK, CopyInv, [Next]_vars PROVE CopyInv'
  OBVIOUS
<1>1. CASE Begin
  <2>1. PICK o \in Ops : pc' = FirstStep[o]
    BY <1>1 DEF Begin
  <2>2. pc' \in {"ensure_disk", "resize", "compact_convert", "reset_check", "delete_disk",
                 "backup_dir", "clone_dir"}
    BY <2>1, DiskAssumption DEF FirstStep, AllOps
  <2> QED BY <1>1, <2>2
          DEF Begin, CopyInv, BackupLabels, CloneLabels, CloneIsWhole, NoClone
<1>2. CASE StartStep \/ ResizeStep \/ CompactStep \/ ResetStep \/ DeleteStep \/ Crash
  <2>1. clone' = clone
    BY <1>2 DEF StartStep, EnsureDisk, CreateDisk, Launch, ResizeStep, ResizeDisk, AppendSettings,
       CompactStep, CompactConvert, CompactFinish, CompactReplace, ResetStep, ResetCheck,
       ResetCreate, ResetFinish, ResetResize, ResetEfiVars, ResetRemoveBak, DeleteStep, DeleteDisk,
       DeleteEfiVars, Crash, Fail, copies
  <2>2. pc' \notin CopyPlaces
    BY <1>2 DEF StartStep, EnsureDisk, CreateDisk, Launch, ResizeStep, ResizeDisk, AfterResize,
       AppendSettings, CompactStep, CompactConvert, CompactFinish, CompactReplace, ResetStep,
       ResetCheck, RollBack, ResetCreate, ResetFinish, ResetResize, ResetEfiVars, ResetRemoveBak,
       DeleteStep, DeleteDisk, DeleteEfiVars, Crash, Fail, Goto, Return, CopyPlaces, BackupLabels,
       CloneLabels
  <2> QED BY <2>1, <2>2, OthersLeaveCopies
<1>3. CASE GuestWrites \/ QemuExit
  <2>1. clone' = clone /\ pc' = pc /\ pc = "idle"
    BY <1>3 DEF GuestWrites, QemuExit, command, copies, DiskInv, StepInv
  <2> QED BY <2>1, OthersLeaveCopies DEF CopyPlaces, BackupLabels, CloneLabels
<1>4. CASE UNCHANGED vars
  BY <1>4 DEF vars, command, image, settings, copies, CopyInv, CloneIsWhole
<1> QED BY <1>1, <1>2, <1>3, <1>4, BackupSteps, CloneSteps DEF Next

\* A clone that has its configuration has all of its disk, whichever step of clone failed
\* or was the last.
THEOREM CloneIsWholeHolds == Spec => []CloneIsWhole
<1>1. CopyInv => CloneIsWhole
  BY DEF CopyInv
<1> QED BY <1>1, InitDisk, NextDisk, DiskTypeCorrectness, InitCopies, NextCopies, PTL DEF Spec

\* A backup.json is written only for a backup that holds the disk, the configuration and
\* the UEFI variables as they are at that moment.
THEOREM BackupIsCompleteHolds == Spec => BackupIsComplete
<1> DEFINE Complete == ~backup.manifest /\ backup'.manifest =>
                         /\ backup'.disk = disk /\ disk.is = "whole"
                         /\ backup'.conf = size
                         /\ backup'.efiVars = efiVars
<1>1. TypeOK /\ CopyInv /\ [Next]_vars => [Complete]_vars
  <2> SUFFICES ASSUME TypeOK, CopyInv, Next
               PROVE  Complete
    OBVIOUS
  <2>1. backup \in [dir : BOOLEAN, disk : Files, conf : 0 .. MaxSize, efiVars : BOOLEAN,
                    manifest : BOOLEAN]
    BY DEF TypeOK
  <2>2. CASE BackupManifest
    BY <2>1, <2>2 DEF BackupManifest, BackupFails, NoBackup, CopyInv, BackupLabels
  <2>3. CASE BackupStep /\ ~BackupManifest
    BY <2>1, <2>3 DEF BackupStep, BackupDir, BackupDisk, BackupConvert, BackupConf, BackupEfiVars,
       BackupFails, NoBackup
  <2>4. CASE Begin
    BY <2>4 DEF Begin, NoBackup
  <2>5. CASE StartStep \/ ResizeStep \/ CompactStep \/ ResetStep \/ DeleteStep
    BY <2>5 DEF StartStep, EnsureDisk, CreateDisk, Launch, ResizeStep, ResizeDisk, AppendSettings,
       CompactStep, CompactConvert, CompactFinish, CompactReplace, ResetStep, ResetCheck,
       ResetCreate, ResetFinish, ResetResize, ResetEfiVars, ResetRemoveBak, DeleteStep, DeleteDisk,
       DeleteEfiVars, Fail, copies
  <2>6. CASE CloneStep \/ GuestWrites \/ QemuExit \/ Crash
    BY <2>6 DEF CloneStep, CloneDir, CloneDisk, CloneConvert, CloneConf, CloneWrite, CloneUnchanged,
       GuestWrites, QemuExit, Crash, copies
  <2> QED BY <2>2, <2>3, <2>4, <2>5, <2>6 DEF Next
<1> QED BY <1>1, InitDisk, NextDisk, DiskTypeCorrectness, InitCopies, NextCopies, PTL
        DEF Spec, BackupIsComplete

=============================================================================
