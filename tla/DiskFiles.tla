------------------------------ MODULE DiskFiles ------------------------------
(***************************************************************************)
(* The files of one VM's disk under the commands that rewrite them: start  *)
(* (which creates a missing disk), set --disk-size, disk resize, compact   *)
(* and convert, reset, delete-disk, backup and clone, where any step may   *)
(* fail and vmctl may die between any two.  The commands hold the VM's     *)
(* operation lock, so they follow one another (module VmLifecycle); what   *)
(* an interrupted one leaves is what the next one finds.                   *)
(***************************************************************************)
EXTENDS Naturals

CONSTANTS
    Pids,       \* of vmctl processes: they name the temporary files
    NoPid,
    MaxSize,    \* bound on disk sizes; a base image has size 1
    MaxWrites,  \* bound on what the guest writes
    Ops,
    Faults

AllOps == {"start", "set", "resize", "compact", "reset", "delete_disk", "backup", "clone"}

\* crash: vmctl dies between two steps; io_error: an operation on a file, or
\* qemu-img, fails.
AllFaults == {"crash", "io_error"}

ASSUME DiskAssumption ==
    /\ NoPid \notin Pids
    /\ MaxSize \in Nat \ {0}
    /\ MaxWrites \in Nat
    /\ Ops \subseteq AllOps
    /\ Faults \subseteq AllFaults

VARIABLES
    pc, op,
    pid,        \* the process that carries out the command
    arg,        \* the size it was given
    linked,     \* whether the VM has a cloud base image and a seed
    running,    \* whether QEMU runs
    disk,       \* disk_img
    overlayTmp, \* disk.qcow2.tmp, of create_cloud_overlay
    bak,        \* .disk.qcow2.vmctl-reset-<pid>.bak
    compactTmp, \* .disk.qcow2.vmctl-compact-<pid>.tmp
    size,       \* disk_size in the configuration
    efiVars,    \* whether the VM has UEFI variables
    backup,     \* the destination of backup
    clone,      \* the VM that clone makes
    written,    \* what the guest wrote last (auxiliary)
    discarded   \* what of it a reset or a delete-disk has done away with (auxiliary)

command == <<pc, op, pid, arg>>
image == <<disk, overlayTmp, bak, compactTmp>>
settings == <<linked, size>>
copies == <<backup, clone>>
vars == <<command, image, settings, copies, running, efiVars, written, discarded>>

Sizes == 1 .. MaxSize

\* A disk image: what it holds (0: nothing of the guest's), and its virtual size.
Whole(data, n) == [is |-> "whole", data |-> data, size |-> n]

NoFile == [is |-> "none", data |-> 0, size |-> 0]

\* What qemu-img leaves when it is interrupted.
Partial == [is |-> "partial", data |-> 0, size |-> 0]

NoBackup == [dir |-> FALSE, disk |-> NoFile, conf |-> 0, efiVars |-> FALSE, manifest |-> FALSE]

NoClone == [dir |-> FALSE, disk |-> NoFile, conf |-> "none"]

Init ==
    /\ pc = "idle"
    /\ op = "none"
    /\ pid = NoPid
    /\ arg = 0
    /\ linked \in BOOLEAN
    /\ running = FALSE
    /\ size \in Sizes
    /\ disk = IF linked THEN Whole(0, size) ELSE NoFile
    /\ overlayTmp = NoFile
    /\ bak = [p \in Pids |-> NoFile]
    /\ compactTmp = [p \in Pids |-> NoFile]
    /\ efiVars = FALSE
    /\ backup = NoBackup
    /\ clone = NoClone
    /\ written = 0
    /\ discarded = 0

-----------------------------------------------------------------------------

Goto(label) == pc' = label /\ UNCHANGED <<op, pid, arg>>

\* The command returns, with success or with an error.
Return ==
    /\ pc' = "idle"
    /\ op' = "none"
    /\ pid' = NoPid
    /\ arg' = 0

IoError == "io_error" \in Faults

\* The command fails and leaves everything as it is.
Fail == IoError /\ Return /\ UNCHANGED <<image, settings, copies, running, efiVars, written, discarded>>

FirstStep ==
    [start |-> "ensure_disk", set |-> "resize", resize |-> "resize",
     compact |-> "compact_convert", reset |-> "reset_check", delete_disk |-> "delete_disk",
     backup |-> "backup_dir", clone |-> "clone_dir"]

\* Every command but start refuses to work while QEMU runs; a running VM is
\* not started.  A backup or clone has a destination of its own: what became of
\* an earlier one is settled.
Begin ==
    /\ pc = "idle"
    /\ ~running
    /\ \E o \in Ops :
        /\ pc' = FirstStep[o]
        /\ op' = o
        /\ arg' \in IF o \in {"set", "resize"} THEN Sizes ELSE {0}
    /\ pid' \in Pids
    /\ backup' = NoBackup
    /\ clone' = NoClone
    /\ UNCHANGED <<image, settings, running, efiVars, written, discarded>>

-----------------------------------------------------------------------------
(* start.                                                                  *)

\* Mutant: a missing disk is always created.
EnsureDisk_AnyVm ==
    /\ pc = "ensure_disk"
    /\ \/ disk.is = "whole" /\ Goto("launch") /\ UNCHANGED disk
       \/ disk.is = "partial" /\ Return /\ UNCHANGED disk
       \/ disk.is = "none" /\ Goto("create_disk") /\ disk' = Partial
    /\ UNCHANGED <<overlayTmp, bak, compactTmp, settings, copies, running, efiVars, written, discarded>>

\* ensure_disk: a disk that is there is only looked at; a cloud disk is never
\* created here.
EnsureDisk ==
    /\ pc = "ensure_disk"
    /\ \/ disk.is = "whole" /\ Goto("launch") /\ UNCHANGED disk
       \/ disk.is = "partial" /\ Return /\ UNCHANGED disk
       \/ disk.is = "none" /\ linked /\ Return /\ UNCHANGED disk
       \/ disk.is = "none" /\ ~linked /\ Goto("create_disk") /\ disk' = Partial
    /\ UNCHANGED <<overlayTmp, bak, compactTmp, settings, copies, running, efiVars, written, discarded>>

\* qemu-img create finishes; where it fails it may leave what it has done.
CreateDisk ==
    /\ pc = "create_disk"
    /\ \/ disk' = Whole(0, size) /\ Goto("launch")
       \/ IoError /\ disk' \in {NoFile, Partial} /\ Return
    /\ UNCHANGED <<overlayTmp, bak, compactTmp, settings, copies, running, efiVars, written, discarded>>

\* The plan copies the UEFI variables, and QEMU comes up or does not.
Launch ==
    /\ pc = "launch"
    /\ efiVars' = TRUE
    /\ running' \in BOOLEAN
    /\ Return
    /\ UNCHANGED <<image, settings, copies, written, discarded>>

-----------------------------------------------------------------------------
(* set --disk-size and disk resize.                                        *)

AfterResize == IF op = "set" THEN Goto("set_append") ELSE Return

\* Mutant: a resize that fails does not keep the setting from being written.
ResizeDisk_StatusIgnored ==
    /\ pc = "resize"
    /\ disk' \in {disk, [disk EXCEPT !.size = arg]}
    /\ AfterResize
    /\ UNCHANGED <<overlayTmp, bak, compactTmp, settings, copies, running, efiVars, written, discarded>>

\* disk_resize: qemu-img resize, refused for a smaller size without --shrink, and
\* then disk_info, which may fail when the disk has its new size.
ResizeDisk ==
    /\ pc = "resize"
    /\ \/ /\ disk.is = "whole"
          /\ op = "set" => arg >= disk.size
          /\ disk' = [disk EXCEPT !.size = arg]
          /\ AfterResize \/ (IoError /\ Return)
       \/ /\ disk.is # "whole" \/ arg < disk.size \/ IoError
          /\ Return
          /\ UNCHANGED disk
    /\ UNCHANGED <<overlayTmp, bak, compactTmp, settings, copies, running, efiVars, written, discarded>>

\* Mutant: an absolute size is taken for an increment.
AppendSettings_Relative ==
    /\ pc = "set_append"
    /\ size' = size + arg
    /\ Return
    /\ UNCHANGED <<linked, image, copies, running, efiVars, written, discarded>>

\* set_vm opens the configuration before it resizes, and appends to it after.
AppendSettings ==
    /\ pc = "set_append"
    /\ \/ /\ size' = arg
          /\ Return
          /\ UNCHANGED <<linked, image, copies, running, efiVars, written, discarded>>
       \/ Fail

-----------------------------------------------------------------------------
(* disk compact: convert to a temporary file, then replace the disk.       *)

CompactConvert ==
    /\ pc = "compact_convert"
    /\ \/ /\ disk.is = "whole"
          /\ compactTmp[pid].is = "none"
          /\ compactTmp' = [compactTmp EXCEPT ![pid] = Partial]
          /\ Goto("compact_finish")
       \/ /\ disk.is # "whole" \/ compactTmp[pid].is # "none" \/ IoError
          /\ Return
          /\ UNCHANGED compactTmp
    /\ UNCHANGED <<disk, overlayTmp, bak, settings, copies, running, efiVars, written, discarded>>

CompactFinish ==
    /\ pc = "compact_finish"
    /\ \/ /\ compactTmp' = [compactTmp EXCEPT ![pid] = disk]
          /\ Goto("compact_replace")
       \/ /\ IoError
          /\ compactTmp' \in {compactTmp, [compactTmp EXCEPT ![pid] = NoFile]}
          /\ Return
    /\ UNCHANGED <<disk, overlayTmp, bak, settings, copies, running, efiVars, written, discarded>>

\* replace_file is a rename.
CompactReplace ==
    /\ pc = "compact_replace"
    /\ \/ /\ disk' = compactTmp[pid]
          /\ compactTmp' = [compactTmp EXCEPT ![pid] = NoFile]
       \/ /\ IoError
          /\ compactTmp' \in {compactTmp, [compactTmp EXCEPT ![pid] = NoFile]}
          /\ UNCHANGED disk
    /\ Return
    /\ UNCHANGED <<overlayTmp, bak, settings, copies, running, efiVars, written, discarded>>

-----------------------------------------------------------------------------
(* reset.                                                                  *)

\* Mutant: the old disk is removed at once.
ResetCheck_Removes ==
    /\ pc = "reset_check"
    /\ linked
    /\ disk' = NoFile
    /\ Goto("reset_create")
    /\ UNCHANGED <<bak, overlayTmp, compactTmp, settings, copies, running, efiVars, written, discarded>>

\* reset_cloud_vm refuses a VM that is not a linked one, a bad base and an old
\* .bak of this PID; else the disk that is there is moved out of the way.
ResetCheck ==
    /\ pc = "reset_check"
    /\ \/ /\ linked
          /\ bak[pid].is = "none"
          /\ bak' = [bak EXCEPT ![pid] = disk]
          /\ disk' = NoFile
          /\ Goto("reset_create")
       \/ /\ ~linked \/ bak[pid].is # "none" \/ IoError
          /\ Return
          /\ UNCHANGED <<disk, bak>>
    /\ UNCHANGED <<overlayTmp, compactTmp, settings, copies, running, efiVars, written, discarded>>

\* The error path removes a new disk and moves the old one back; it ignores its
\* own failures.
RollBack ==
    /\ \/ /\ disk' = bak[pid]
          /\ bak' = [bak EXCEPT ![pid] = NoFile]
       \/ IoError /\ disk' \in {disk, NoFile} /\ UNCHANGED bak
    /\ Return

\* Mutant: the overlay is made in place.
ResetCreate_InPlace ==
    /\ pc = "reset_create"
    /\ disk' = Partial
    /\ Goto("reset_finish")
    /\ UNCHANGED <<bak, overlayTmp, compactTmp, settings, copies, running, efiVars, written, discarded>>

\* create_cloud_overlay: to a temporary file whose name is always the same.
ResetCreate ==
    /\ pc = "reset_create"
    /\ \/ /\ overlayTmp.is = "none"
          /\ overlayTmp' = Partial
          /\ Goto("reset_finish")
          /\ UNCHANGED <<disk, bak>>
       \/ /\ overlayTmp.is # "none" \/ IoError
          /\ RollBack
          /\ UNCHANGED overlayTmp
    /\ UNCHANGED <<compactTmp, settings, copies, running, efiVars, written, discarded>>

ResetFinish ==
    /\ pc = "reset_finish"
    /\ \/ /\ disk' = Whole(0, 1)
          /\ overlayTmp' = NoFile
          /\ Goto("reset_resize")
          /\ UNCHANGED bak
       \/ /\ IoError
          /\ RollBack
          /\ overlayTmp' \in {NoFile, overlayTmp}
    /\ UNCHANGED <<compactTmp, settings, copies, running, efiVars, written, discarded>>

\* disk_resize to the size in the configuration.
ResetResize ==
    /\ pc = "reset_resize"
    /\ \/ /\ disk' = Whole(0, size)
          /\ Goto("reset_efi")
          /\ UNCHANGED bak
       \/ IoError /\ RollBack
    /\ UNCHANGED <<overlayTmp, compactTmp, settings, copies, running, efiVars, written, discarded>>

\* From here on the disk is reset, and a failure leaves the .bak.
ResetEfiVars ==
    /\ pc = "reset_efi"
    /\ \/ /\ efiVars' = FALSE
          /\ Goto("reset_remove")
          /\ UNCHANGED <<image, settings, copies, running, written, discarded>>
       \/ Fail

ResetRemoveBak ==
    /\ pc = "reset_remove"
    /\ \/ /\ bak' = [bak EXCEPT ![pid] = NoFile]
          /\ discarded' = IF bak[pid].data = written THEN written ELSE discarded
          /\ Return
          /\ UNCHANGED <<disk, overlayTmp, compactTmp, settings, copies, running, efiVars, written>>
       \/ Fail

\* delete-disk: the disk first, then the UEFI variables.
DeleteDisk ==
    /\ pc = "delete_disk"
    /\ \/ /\ disk' = NoFile
          /\ discarded' = IF disk.data = written THEN written ELSE discarded
          /\ Goto("delete_efi")
          /\ UNCHANGED <<overlayTmp, bak, compactTmp, settings, copies, running, efiVars, written>>
       \/ Fail

DeleteEfiVars ==
    /\ pc = "delete_efi"
    /\ \/ /\ efiVars' = FALSE
          /\ Return
          /\ UNCHANGED <<image, settings, copies, running, written, discarded>>
       \/ Fail

-----------------------------------------------------------------------------
(* backup.                                                                 *)

BackupUnchanged == UNCHANGED <<image, settings, clone, running, efiVars, written, discarded>>

\* A backup that fails removes its directory, if it can.
BackupFails ==
    /\ IoError
    /\ backup' = NoBackup \/ UNCHANGED backup
    /\ Return

\* create_dir: a destination that exists, a backup or the rest of one, is refused.
BackupDir ==
    /\ pc = "backup_dir"
    /\ \/ backup' = [NoBackup EXCEPT !.dir = TRUE] /\ Goto("backup_disk")
       \/ UNCHANGED backup /\ Return
    /\ BackupUnchanged

\* disk_convert and disk_info; the disk must be there.
BackupDisk ==
    /\ pc = "backup_disk"
    /\ \/ disk.is = "whole" /\ backup' = [backup EXCEPT !.disk = Partial] /\ Goto("backup_convert")
       \/ disk.is # "whole" /\ backup' = NoBackup /\ Return
       \/ BackupFails
    /\ BackupUnchanged

BackupConvert ==
    /\ pc = "backup_convert"
    /\ (backup' = [backup EXCEPT !.disk = disk] /\ Goto("backup_conf")) \/ BackupFails
    /\ BackupUnchanged

\* Mutant: the UEFI variables are forgotten.
BackupConf_SkipsVars ==
    /\ pc = "backup_conf"
    /\ (backup' = [backup EXCEPT !.conf = size] /\ Goto("backup_manifest")) \/ BackupFails
    /\ BackupUnchanged

BackupConf ==
    /\ pc = "backup_conf"
    /\ (backup' = [backup EXCEPT !.conf = size] /\ Goto("backup_efi")) \/ BackupFails
    /\ BackupUnchanged

BackupEfiVars ==
    /\ pc = "backup_efi"
    /\ \/ backup' = [backup EXCEPT !.efiVars = efiVars] /\ Goto("backup_manifest")
       \/ BackupFails
    /\ BackupUnchanged

\* backup.json, atomically.
BackupManifest ==
    /\ pc = "backup_manifest"
    /\ (backup' = [backup EXCEPT !.manifest = TRUE] /\ Return) \/ BackupFails
    /\ BackupUnchanged

-----------------------------------------------------------------------------
(* clone.                                                                  *)

CloneUnchanged == UNCHANGED <<image, settings, backup, running, efiVars, written, discarded>>

CloneFails ==
    /\ IoError
    /\ clone' = [clone EXCEPT !.dir = FALSE, !.disk = NoFile] \/ UNCHANGED clone
    /\ Return

\* The source must have a disk; a target that has a configuration or data, whole or
\* the rest of an interrupted clone, is refused.
CloneDir ==
    /\ pc = "clone_dir"
    /\ \/ /\ disk.is # "none"
          /\ clone' = [clone EXCEPT !.dir = TRUE]
          /\ Goto("clone_disk")
       \/ Return /\ UNCHANGED clone
    /\ CloneUnchanged

\* create_cloud_seed and disk_convert, which does not read a broken disk.
CloneDisk ==
    /\ pc = "clone_disk"
    /\ \/ disk.is = "whole" /\ clone' = [clone EXCEPT !.disk = Partial] /\ Goto("clone_convert")
       \/ disk.is # "whole" /\ clone' = NoClone /\ Return
       \/ CloneFails
    /\ CloneUnchanged

\* Mutant: nobody looks at the exit status of qemu-img.
CloneConvert_StatusIgnored ==
    /\ pc = "clone_convert"
    /\ clone' = [clone EXCEPT !.disk = disk] \/ UNCHANGED clone
    /\ Goto("clone_conf")
    /\ CloneUnchanged

CloneConvert ==
    /\ pc = "clone_convert"
    /\ (clone' = [clone EXCEPT !.disk = disk] /\ Goto("clone_conf")) \/ CloneFails
    /\ CloneUnchanged

\* write_new_config creates the file and then writes it.
CloneConf ==
    /\ pc = "clone_conf"
    /\ (clone' = [clone EXCEPT !.conf = "partial"] /\ Goto("clone_write")) \/ CloneFails
    /\ CloneUnchanged

CloneWrite ==
    /\ pc = "clone_write"
    /\ \/ clone' = [clone EXCEPT !.conf = "whole"] /\ Return
       \/ /\ IoError
          /\ clone' \in [dir : {clone.dir}, disk : {clone.disk}, conf : {"none", "partial"}]
                        \cup [dir : {FALSE}, disk : {NoFile}, conf : {"none", "partial"}]
          /\ Return
    /\ CloneUnchanged

-----------------------------------------------------------------------------
(* The guest and the environment.                                          *)

GuestWrites ==
    /\ running
    /\ written < MaxWrites
    /\ written' = written + 1
    /\ disk' = [disk EXCEPT !.data = written + 1]
    /\ UNCHANGED <<command, overlayTmp, bak, compactTmp, settings, copies, running, efiVars, discarded>>

QemuExit ==
    /\ running
    /\ running' = FALSE
    /\ UNCHANGED <<command, image, settings, copies, efiVars, written, discarded>>

Crash ==
    /\ "crash" \in Faults
    /\ pc # "idle"
    /\ Return
    /\ UNCHANGED <<image, settings, copies, running, efiVars, written, discarded>>

-----------------------------------------------------------------------------

StartStep == EnsureDisk \/ CreateDisk \/ Launch

ResizeStep == ResizeDisk \/ AppendSettings

CompactStep == CompactConvert \/ CompactFinish \/ CompactReplace

ResetStep ==
    \/ ResetCheck \/ ResetCreate \/ ResetFinish \/ ResetResize \/ ResetEfiVars
    \/ ResetRemoveBak

DeleteStep == DeleteDisk \/ DeleteEfiVars

BackupStep ==
    \/ BackupDir \/ BackupDisk \/ BackupConvert \/ BackupConf \/ BackupEfiVars
    \/ BackupManifest

CloneStep == CloneDir \/ CloneDisk \/ CloneConvert \/ CloneConf \/ CloneWrite

Next ==
    \/ Begin \/ StartStep \/ ResizeStep \/ CompactStep \/ ResetStep \/ DeleteStep
    \/ BackupStep \/ CloneStep \/ GuestWrites \/ QemuExit \/ Crash

Spec == Init /\ [][Next]_vars

-----------------------------------------------------------------------------
(* Properties.                                                             *)

Labels ==
    {"idle", "ensure_disk", "create_disk", "launch", "resize", "set_append",
     "compact_convert", "compact_finish", "compact_replace", "reset_check",
     "reset_create", "reset_finish", "reset_resize", "reset_efi", "reset_remove",
     "delete_disk", "delete_efi", "backup_dir", "backup_disk", "backup_convert",
     "backup_conf", "backup_efi", "backup_manifest", "clone_dir", "clone_disk",
     "clone_convert", "clone_conf", "clone_write"}

Files == [is : {"none", "partial", "whole"}, data : 0 .. MaxWrites, size : 0 .. MaxSize]

TypeOK ==
    /\ pc \in Labels
    /\ op \in Ops \cup {"none"}
    /\ pid \in Pids \cup {NoPid}
    /\ arg \in 0 .. MaxSize
    /\ linked \in BOOLEAN
    /\ running \in BOOLEAN
    /\ disk \in Files
    /\ overlayTmp \in Files
    /\ bak \in [Pids -> Files]
    /\ compactTmp \in [Pids -> Files]
    /\ size \in Sizes
    /\ efiVars \in BOOLEAN
    /\ backup \in [dir : BOOLEAN, disk : Files, conf : 0 .. MaxSize, efiVars : BOOLEAN,
                   manifest : BOOLEAN]
    /\ clone \in [dir : BOOLEAN, disk : Files, conf : {"none", "partial", "whole"}]
    /\ written \in 0 .. MaxWrites
    /\ discarded \in 0 .. MaxWrites

\* What the guest wrote last is in the disk or in a file that reset set aside,
\* until a reset or delete-disk that got as far as to discard it.
DataSurvives ==
    discarded = written \/ disk.data = written \/ \E p \in Pids : bak[p].data = written

\* A disk in place is never half a disk, but for the blank one of a VM that has
\* none: no crash or failure of compact or reset leaves the VM with such a file.
DiskIsWhole ==
    disk.is = "partial" => ~linked /\ discarded = written

\* start makes a blank disk only for a VM whose guest has no data anywhere: not for
\* one whose reset was interrupted with the old disk set aside.
BlankOnlyWithoutData ==
    [][disk.is = "none" /\ op = "start" /\ disk'.is # "none" => discarded = written]_vars

\* The configuration never comes to promise a disk size that the disk does not have:
\* however set --disk-size fails or is cut short, the setting follows the resize.
SettingFollowsDisk ==
    [][size' # size => disk.is = "whole" /\ disk.size = size']_vars

\* A backup.json is written only when the backup holds all of the disk as it is, the
\* configuration, and the UEFI variables if the VM has them.
BackupIsComplete ==
    [][~backup.manifest /\ backup'.manifest =>
         /\ backup'.disk = disk /\ disk.is = "whole"
         /\ backup'.conf = size
         /\ backup'.efiVars = efiVars]_vars

\* A clone that has its configuration has all of its disk.
CloneIsWhole ==
    clone.conf = "whole" => clone.dir /\ clone.disk.is = "whole"

\* Nothing that an interrupted reset leaves behind keeps the next reset from making
\* the overlay.
ResetIsNotBlocked ==
    pc = "reset_create" => overlayTmp.is = "none"

=============================================================================
