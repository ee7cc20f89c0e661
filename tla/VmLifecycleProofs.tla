-------------------------- MODULE VmLifecycleProofs --------------------------
(***************************************************************************)
(* Proofs about VmLifecycle, for any number of clients and launches: its   *)
(* types, and as long as no command deletes the VM the lock, QEMU and its  *)
(* record, the helpers and theirs, what a stop leaves, and that all this   *)
(* is AbstractVm.                                                          *)
(***************************************************************************)
EXTENDS VmLifecycleInvariant, TLAPS

(* How a step changes the client that takes it.                            *)

\* A step from one point of a command to another.
Advance(c) ==
    \E l \in LockedLabels, n \in Launches \cup {NoLaunch} :
        /\ Goto(c, l)
        /\ seen' = seen \/ seen' = [seen EXCEPT ![c] = n]
        /\ UNCHANGED <<op, launch, holds>>
        /\ l \in StartLabels => op[c] \in StartOps
        /\ l \in SeenLabels => seen'[c] \in Launches

\* A client whose command ends (Return) has nothing left that CommandInv asks for.
LEMMA ReturnCommand ==
    ASSUME ClientTypeOK, CommandInv, NEW c \in Clients, Return(c)
    PROVE  ClientTypeOK' /\ CommandInv'
BY ConstantsAssumption
   DEF ClientTypeOK, CommandInv, Return, Labels, LockedLabels, StartLabels, StopLabels,
       DiskLabels, StartOps, SeenLabels

\* A client that goes on to a step its command allows keeps CommandInv.
LEMMA AdvanceCommand ==
    ASSUME ClientTypeOK, CommandInv, NEW c \in Clients, Critical(c), Advance(c)
    PROVE  ClientTypeOK' /\ CommandInv'
BY DEF ClientTypeOK, CommandInv, Advance, Goto, Critical, Labels, LockedLabels, StartLabels,
   StopLabels, DiskLabels

\* Every step of start_vm_loaded is taken under the lock, and returns or advances.
LEMMA StartCommand ==
    ASSUME ClientTypeOK, CommandInv, NEW c \in Clients, StartStep(c)
    PROVE  Critical(c) /\ (Return(c) \/ Advance(c))
<1>1. pc[c] \in StartLabels
  BY DEF StartStep, StartCheck, StartPrepare, StartVirtiofsd, RecordVirtiofsd, StartTpm, RecordTpm,
     CheckIpcEndpoints, SpawnQemu, WritePid, EarlyExit, PostStart, UndoKill, UndoWait, GuestWait,
     At, StartLabels
<1>2. Return(c) \/ \E l \in StartLabels : Step(c, l)
  BY DEF StartStep, StartCheck, StartPrepare, StartVirtiofsd, RecordVirtiofsd, FallBackTo9p,
     StartTpm, RecordTpm, CheckIpcEndpoints, SpawnQemu, WritePid, EarlyExit, PostStart,
     UndoKill, UndoWait, GuestWait, StartLabels
<1>3. ASSUME NEW l \in StartLabels, Step(c, l)
      PROVE  Advance(c)
  BY <1>1, <1>3 DEF Step, Advance, CommandInv, LockedLabels, StartLabels, SeenLabels
<1>4. QED
  BY <1>1, <1>2, <1>3 DEF Critical, LockedLabels

\* So does every step of stop, restart, kill and guest shutdown.
LEMMA StopCommand ==
    ASSUME ClientTypeOK, CommandInv, NEW c \in Clients, StopStep(c)
    PROVE  Critical(c) /\ (Return(c) \/ Advance(c))
<1>1. pc[c] \in StopLabels
  BY DEF StopStep, RestartPreflight, StopCheck, RequestShutdown, StopKill, StopWait, ForceKill,
     ForceWait, FinishStop, KillCheck, GuestCheck, GuestRequest, GuestExit, KillAndWait, At,
     StopLabels
<1>2. \/ Return(c)
      \/ \E l \in {"stop_check"} : Step(c, l)
      \/ \E l \in SeenLabels, n \in Launches : StepSeen(c, l, n)
      \/ pc[c] \in SeenLabels /\ \E l \in SeenLabels : Step(c, l)
      \/ op[c] \in StartOps /\ StepSeen(c, "start_check", NoLaunch)
  BY DEF StopStep, RestartPreflight, StopCheck, RequestShutdown, StopKill, StopWait, ForceKill,
     ForceWait, FinishStop, KillCheck, GuestCheck, GuestRequest, GuestExit, KillAndWait, AfterStop,
     At, SeenLabels, StartOps
<1>3. QED
  BY <1>1, <1>2 DEF Step, StepSeen, Goto, Advance, CommandInv, ClientTypeOK, Critical, LockedLabels,
     StartLabels, StopLabels, SeenLabels

\* And every step of work on a stopped disk, if nothing is deleted.
LEMMA FileCommand ==
    ASSUME ClientTypeOK, CommandInv, NoneDeletes, NEW c \in Clients, FileStep(c)
    PROVE  Critical(c) /\ (Return(c) \/ Advance(c)) /\ (DiskCheck(c) \/ DiskWork(c))
<1>1. DiskCheck(c) \/ DiskWork(c)
  BY DEF FileStep, DeleteCheck, DeleteFiles, DeleteStateDir, At, NoneDeletes, DeleteLabels
<1>2. QED
  BY <1>1 DEF DiskCheck, DiskWork, At, Step, Advance, Critical, LockedLabels, DiskLabels,
     StartLabels, SeenLabels

-----------------------------------------------------------------------------
(* Type correctness.                                                       *)

\* Every step of start_vm_loaded keeps the types of files and processes.
LEMMA StartTypes ==
    ASSUME TypeOK, CommandInv, NEW c \in Clients, StartStep(c)
    PROVE  FilesTypeOK' /\ ProcsTypeOK'
<1> USE DEF TypeOK, FilesTypeOK, ProcsTypeOK, files, procs, RemoveRuntime, StopHelpers
<1>1. launch[c] \in Launches
  BY DEF StartStep, StartCheck, StartPrepare, StartVirtiofsd, RecordVirtiofsd, StartTpm, RecordTpm,
         CheckIpcEndpoints, SpawnQemu, WritePid, EarlyExit, PostStart, UndoKill, UndoWait,
         GuestWait, At, StartLabels, CommandInv
<1>2. CASE StartCheck(c)
  BY <1>2 DEF StartCheck
<1>3. CASE StartPrepare(c)
  BY <1>3 DEF StartPrepare
<1>4. CASE StartVirtiofsd(c)
  <2>1. helper' \in [Helpers -> SUBSET Launches]
    BY <1>1, <1>4 DEF StartVirtiofsd, FallBackTo9p, SpawnHelper, Helpers
  <2>2. helperFile' \in [Helpers -> Launches \cup {NoLaunch}]
    BY <1>1, <1>4 DEF StartVirtiofsd, FallBackTo9p, SpawnHelper, Helpers
  <2>3. QED
    BY <1>4, <2>1, <2>2 DEF StartVirtiofsd, FallBackTo9p
<1>5. CASE RecordVirtiofsd(c)
  BY <1>1, <1>5 DEF RecordVirtiofsd, FallBackTo9p, RecordHelper, DiscardHelper, Helpers
<1>6. CASE StartTpm(c)
  <2>1. helper' \in [Helpers -> SUBSET Launches]
    BY <1>1, <1>6 DEF StartTpm, SpawnHelper, Helpers
  <2>2. helperFile' \in [Helpers -> Launches \cup {NoLaunch}]
    BY <1>1, <1>6 DEF StartTpm, SpawnHelper, Helpers
  <2>3. QED
    BY <1>6, <2>1, <2>2 DEF StartTpm
<1>7. CASE RecordTpm(c)
  BY <1>1, <1>7 DEF RecordTpm, RecordHelper, Helpers
<1>8. CASE CheckIpcEndpoints(c)
  BY <1>8 DEF CheckIpcEndpoints
<1>9. CASE SpawnQemu(c)
  BY <1>1, <1>9 DEF SpawnQemu
<1>10. CASE WritePid(c)
  <2>1. qemu' \in [Launches -> {"none", "live", "dying"}]
    BY <1>1, <1>10 DEF WritePid
  <2>2. helperFile' \in [Helpers -> Launches \cup {NoLaunch}] /\ helper' \in [Helpers -> SUBSET Launches]
    BY <1>10 DEF WritePid
  <2>3. QED
    BY <1>1, <1>10, <2>1, <2>2 DEF WritePid
<1>11. CASE EarlyExit(c)
  BY <1>11 DEF EarlyExit
<1>12. CASE PostStart(c)
  BY <1>12 DEF PostStart
<1>13. CASE UndoKill(c)
  BY <1>1, <1>13 DEF UndoKill, Signal, RefuseSignal
<1>14. CASE UndoWait(c)
  BY <1>14 DEF UndoWait
<1>15. CASE GuestWait(c)
  BY <1>15 DEF GuestWait
<1>16. QED
  BY <1>2, <1>3, <1>4, <1>5, <1>6, <1>7, <1>8, <1>9, <1>10, <1>11, <1>12, <1>13, <1>14, <1>15
     DEF StartStep

\* So does every step of stop, restart, kill and guest shutdown.
LEMMA StopTypes ==
    ASSUME TypeOK, CommandInv, NEW c \in Clients, StopStep(c)
    PROVE  FilesTypeOK' /\ ProcsTypeOK'
<1> USE DEF TypeOK, FilesTypeOK, ProcsTypeOK, files, procs, RemoveRuntime, StopHelpers
<1>1. CASE StopCheck(c)
  BY <1>1 DEF StopCheck
<1>2. CASE FinishStop(c)
  BY <1>2 DEF FinishStop
<1>3. CASE StopKill(c) \/ ForceKill(c)
  BY <1>3 DEF StopKill, ForceKill, KillAndWait, Signal, RefuseSignal
<1>4. CASE UNCHANGED <<files, procs>>
  BY <1>4
<1>5. QED
  BY <1>1, <1>2, <1>3, <1>4
     DEF StopStep, RestartPreflight, RequestShutdown, StopWait, ForceWait, KillCheck, GuestCheck,
         GuestRequest, GuestExit

\* So does work on a stopped disk, and every step of delete-vm.
LEMMA FileTypes ==
    ASSUME TypeOK, CommandInv, NEW c \in Clients, FileStep(c)
    PROVE  TypeOK' /\ CommandInv'
<1>1. FilesTypeOK' /\ ProcsTypeOK'
  BY DEF TypeOK, FilesTypeOK, ProcsTypeOK, files, procs, FileStep, DiskCheck, DiskWork, DeleteCheck,
         DeleteFiles, DeleteStateDir
<1>2. CASE Return(c)
  BY <1>1, <1>2, ReturnCommand DEF TypeOK
<1>3. CASE \E l \in {"disk_work", "delete_files"} : Step(c, l)
  BY <1>1, <1>3
     DEF TypeOK, ClientTypeOK, CommandInv, Step, Goto, Labels, LockedLabels, StartLabels, StopLabels,
         DiskLabels, SeenLabels, FileStep, DiskCheck, DiskWork, DeleteCheck, DeleteFiles,
         DeleteStateDir, At, Return
<1>4. CASE /\ At(c, "delete_files") /\ Goto(c, "delete_state_dir")
           /\ holds' = [holds EXCEPT ![c] = NoInode] /\ UNCHANGED <<op, launch, seen>>
  BY <1>1, <1>4
     DEF TypeOK, ClientTypeOK, CommandInv, At, Goto, Labels, LockedLabels, StartLabels, StopLabels,
         DiskLabels, SeenLabels
<1>5. QED
  BY <1>2, <1>3, <1>4 DEF FileStep, DiskCheck, DiskWork, DeleteCheck, DeleteFiles, DeleteStateDir

\* No step of a command that holds the lock breaks the type invariant.
LEMMA LockedStepTypes ==
    ASSUME TypeOK, CommandInv, NEW c \in Clients, StartStep(c) \/ StopStep(c) \/ FileStep(c)
    PROVE  TypeOK' /\ CommandInv'
<1>1. CASE StartStep(c) \/ StopStep(c)
  <2>1. ClientTypeOK' /\ CommandInv'
    BY <1>1, StartCommand, StopCommand, ReturnCommand, AdvanceCommand DEF TypeOK
  <2>2. FilesTypeOK' /\ ProcsTypeOK'
    BY <1>1, StartTypes, StopTypes
  <2>3. QED
    BY <2>1, <2>2 DEF TypeOK
<1>2. QED
  BY <1>1, FileTypes

\* No step at all breaks the type invariant or CommandInv.
LEMMA NextTypes ==
    ASSUME TypeOK, CommandInv, [Next]_vars
    PROVE  TypeOK' /\ CommandInv'
<1> USE DEF TypeOK, FilesTypeOK, ProcsTypeOK, files, procs
<1>1. ASSUME NEW c \in Clients, Begin(c)
      PROVE  TypeOK' /\ CommandInv'
  BY <1>1, ConstantsAssumption
     DEF Begin, Goto, At, ClientTypeOK, CommandInv, Labels, LockedLabels, StartLabels, StopLabels,
         DiskLabels, StartOps, SeenLabels
<1>2. ASSUME NEW c \in Clients, AcquireVmLock(c)
      PROVE  TypeOK' /\ CommandInv'
  <2>0. op[c] \in AllOps
    BY <1>2, ConstantsAssumption DEF AcquireVmLock, At, CommandInv
  <2>1. /\ FirstStep[op[c]] \in LockedLabels \ SeenLabels
        /\ FirstStep[op[c]] \in StartLabels => op[c] \in StartOps
    BY <2>0
       DEF AllOps, FirstStep, LockedLabels, StartLabels, StopLabels, DiskLabels, StartOps,
           SeenLabels
  <2>2. ClientTypeOK' /\ CommandInv'
    BY <1>2, <2>1 DEF AcquireVmLock, At, Goto, ClientTypeOK, CommandInv, Labels
  <2>3. QED
    BY <1>2, <2>2 DEF AcquireVmLock
<1>3. ASSUME NEW c \in Clients, LockBusy(c)
      PROVE  TypeOK' /\ CommandInv'
  BY <1>3, ReturnCommand DEF LockBusy
<1>4. ASSUME NEW c \in Clients, StartStep(c) \/ StopStep(c) \/ FileStep(c)
      PROVE  TypeOK' /\ CommandInv'
  BY <1>4, LockedStepTypes
<1>5. ASSUME NEW c \in Clients, ClientCrash(c)
      PROVE  TypeOK' /\ CommandInv'
  <2>1. ClientTypeOK' /\ CommandInv'
    BY <1>5, ReturnCommand DEF ClientCrash
  <2>2. \A k \in Kinds : LiveOf(k) \subseteq Launches
    BY DEF LiveOf, AliveQemus, Kinds
  <2>3. orphans' \in [Kinds -> SUBSET Launches]
    BY <1>5, <2>2 DEF ClientCrash
  <2>4. QED
    BY <1>5, <2>1, <2>3 DEF ClientCrash
<1>6. ASSUME NEW n \in Launches, QemuExit(n)
      PROVE  TypeOK' /\ CommandInv'
  BY <1>6 DEF QemuExit, client, ClientTypeOK, CommandInv, Kinds
<1>7. ASSUME NEW h \in Helpers, NEW n \in Launches, HelperExit(h, n)
      PROVE  TypeOK' /\ CommandInv'
  BY <1>7 DEF HelperExit, client, ClientTypeOK, CommandInv, Kinds
<1>8. CASE UNCHANGED vars
  BY <1>8 DEF vars, client, ClientTypeOK, CommandInv
<1>9. QED
  BY <1>1, <1>2, <1>3, <1>4, <1>5, <1>6, <1>7, <1>8 DEF Next, ClientStep

-----------------------------------------------------------------------------
(* The lock.                                                               *)

\* Nobody deletes the VM where the command is not given.
LEMMA NextDeletes ==
    ASSUME TypeOK, CommandInv, NoneDeletes, "delete" \notin Ops, [Next]_vars
    PROVE  NoneDeletes'
<1> USE DEF NoneDeletes, DeleteLabels
<1>1. ASSUME NEW c \in Clients, NEW l, pc' = [pc EXCEPT ![c] = l], l \notin DeleteLabels
      PROVE  NoneDeletes'
  BY <1>1 DEF TypeOK, ClientTypeOK
<1>2. ASSUME NEW c \in Clients, Begin(c) \/ LockBusy(c) \/ ClientCrash(c)
      PROVE  NoneDeletes'
  BY <1>1, <1>2 DEF Begin, LockBusy, ClientCrash, Return, Goto
<1>3. ASSUME NEW c \in Clients, AcquireVmLock(c)
      PROVE  NoneDeletes'
  <2>0. op[c] \in AllOps \ {"delete"}
    BY <1>3, ConstantsAssumption DEF AcquireVmLock, At, CommandInv
  <2>1. FirstStep[op[c]] \notin DeleteLabels
    BY <2>0 DEF AllOps, FirstStep
  <2>2. QED
    BY <1>1, <1>3, <2>1 DEF AcquireVmLock, Goto
<1>4. ASSUME NEW c \in Clients, StartStep(c) \/ StopStep(c) \/ DiskCheck(c) \/ DiskWork(c)
      PROVE  NoneDeletes'
  <2>1. Return(c) \/ \E l \in StartLabels \cup StopLabels \cup {"disk_work"} : Goto(c, l)
    BY <1>4 DEF StartStep, StartCheck, StartPrepare, StartVirtiofsd, RecordVirtiofsd, FallBackTo9p,
       StartTpm, RecordTpm, CheckIpcEndpoints, SpawnQemu, WritePid, EarlyExit, PostStart,
       UndoKill, UndoWait, GuestWait, StopStep, RestartPreflight, StopCheck, RequestShutdown,
       StopKill, StopWait, ForceKill, ForceWait, FinishStop, KillCheck, GuestCheck, GuestRequest,
       GuestExit, KillAndWait, AfterStop, DiskCheck, DiskWork, Step, StepSeen, StartLabels, StopLabels
  <2>2. QED
    BY <1>1, <2>1 DEF Return, Goto, StartLabels, StopLabels
<1>5. ASSUME NEW c \in Clients, FileStep(c)
      PROVE  NoneDeletes'
  BY <1>4, <1>5, FileCommand DEF TypeOK
<1>6. CASE UNCHANGED client
  BY <1>6 DEF client
<1>7. QED
  BY <1>2, <1>3, <1>4, <1>5, <1>6 DEF Next, ClientStep, QemuExit, HelperExit, vars

\* A command in progress leaves operation.lock alone and takes no other lock.
LEMMA LockedStepKeepsLockFile ==
    ASSUME TypeOK, CommandInv, NoneDeletes, NEW c \in Clients, StartStep(c) \/ StopStep(c) \/ FileStep(c)
    PROVE  UNCHANGED lockFile
BY FileCommand
   DEF StartStep, StartCheck, StartPrepare, StartVirtiofsd, RecordVirtiofsd, StartTpm, RecordTpm,
       CheckIpcEndpoints, SpawnQemu, WritePid, EarlyExit, PostStart, UndoKill, UndoWait, GuestWait,
       StopStep, RestartPreflight, StopCheck, RequestShutdown, StopKill, StopWait, ForceKill,
       ForceWait, FinishStop, KillCheck, GuestCheck, GuestRequest, GuestExit, KillAndWait,
       DiskCheck, DiskWork, TypeOK, files

\* The part of the invariant about the lock is inductive: no step of Next breaks it.
LEMMA NextLock ==
    ASSUME LockIInv, "delete" \notin Ops, [Next]_vars
    PROVE  LockInv'
<1> USE DEF LockIInv, TypeOK, ClientTypeOK, FilesTypeOK, LockInv, Critical
<1>1. ASSUME NEW c \in Clients, Begin(c)
      PROVE  LockInv'
  BY <1>1 DEF Begin, Goto, At, LockedLabels, StartLabels, StopLabels, DiskLabels, files
<1>2. ASSUME NEW c \in Clients, AcquireVmLock(c)
      PROVE  LockInv'
  BY <1>2, ConstantsAssumption DEF AcquireVmLock, At, Goto
<1>3. ASSUME NEW c \in Clients, Return(c), UNCHANGED lockFile
      PROVE  LockInv'
  BY <1>3, ConstantsAssumption DEF Return, LockedLabels, StartLabels, StopLabels, DiskLabels
<1>4. ASSUME NEW c \in Clients, Critical(c), Advance(c), UNCHANGED lockFile
      PROVE  LockInv'
  BY <1>4 DEF Advance, Goto
<1>5. ASSUME NEW c \in Clients, StartStep(c) \/ StopStep(c) \/ FileStep(c)
      PROVE  LockInv'
  BY <1>3, <1>4, <1>5, StartCommand, StopCommand, FileCommand, LockedStepKeepsLockFile
<1>6. ASSUME NEW c \in Clients, LockBusy(c) \/ ClientCrash(c)
      PROVE  LockInv'
  BY <1>3, <1>6 DEF LockBusy, ClientCrash, files
<1>7. CASE UNCHANGED client /\ UNCHANGED files
  BY <1>7 DEF client, files
<1>8. QED
  BY <1>1, <1>2, <1>5, <1>6, <1>7 DEF Next, ClientStep, QemuExit, HelperExit, vars

\* It holds before the first command.
LEMMA InitLock == Init => LockIInv
<1> SUFFICES ASSUME Init PROVE LockIInv
  OBVIOUS
<1>1. ClientTypeOK
  BY DEF Init, ClientTypeOK, Labels
<1>2. FilesTypeOK /\ ProcsTypeOK
  BY DEF Init, FilesTypeOK, ProcsTypeOK
<1>3. CommandInv /\ NoneDeletes
  BY DEF Init, CommandInv, NoneDeletes, StartOps, StartLabels, SeenLabels, DeleteLabels
<1>4. LockInv
  BY ConstantsAssumption
     DEF Init, LockInv, Critical, LockedLabels, StartLabels, StopLabels, DiskLabels
<1>5. QED
  BY <1>1, <1>2, <1>3, <1>4 DEF LockIInv, TypeOK

\* Without delete-vm the variables keep their types and the lock invariant is
\* inductive.
THEOREM LockInvariance ==
    ASSUME "delete" \notin Ops
    PROVE  Spec => []LockIInv
<1>1. LockIInv /\ [Next]_vars => LockIInv'
  BY NextTypes, NextDeletes, NextLock DEF LockIInv
<1>2. QED
  BY <1>1, InitLock, PTL DEF Spec

\* Whatever the interleaving of the vmctl processes, and wherever they crash, two
\* of them are never in the middle of commands on one VM (acquire_vm_lock).
THEOREM MutualExclusionHolds ==
    ASSUME "delete" \notin Ops
    PROVE  Spec => []MutualExclusion
<1>1. LockIInv => MutualExclusion
  BY DEF LockIInv, LockInv, MutualExclusion
<1>2. QED
  BY <1>1, LockInvariance, PTL

-----------------------------------------------------------------------------
(* QEMU, vm.pid and the launches.                                          *)

\* The part of IInv beyond the lock.
ProcessInv == LaunchInv /\ PidFileInv /\ OrphanInv /\ RunningIsRecorded

\* A client in its critical section is the only one there.
LEMMA Alone ==
    ASSUME LockIInv, NEW c \in Clients, NEW d \in Clients, Critical(c), Critical(d)
    PROVE  c = d
BY DEF LockIInv, LockInv

\* Every step of start_vm_loaded keeps what IInv says of vm.pid and the processes.
LEMMA StartProcesses ==
    ASSUME IInv, LockIInv', "slow_exit" \notin Faults, "kill_fails" \notin Faults,
           NEW c \in Clients, StartStep(c)
    PROVE  ProcessInv'
<1> USE Alone, ConstantsAssumption
    DEF LockIInv, TypeOK, ClientTypeOK, FilesTypeOK, ProcsTypeOK, CommandInv, Critical,
            LockedLabels, StartLabels, StopLabels, DiskLabels, SeenLabels, StartOps,
            BringUpLabels, WatchLabels, LaunchedLabels, At, Goto, Step, StepSeen, Return, files, procs,
            IInv, ProcessInv, LaunchInv, PidFileInv, OrphanInv, RunningIsRecorded,
            Running, Stopped, Alive, Known, AliveQemus, Launching
<1>1. CASE StartCheck(c)
  BY <1>1 DEF StartCheck, RemoveRuntime
<1>2. CASE StartPrepare(c)
  BY <1>2 DEF StartPrepare
<1>3. CASE StartVirtiofsd(c)
  <2>1. LaunchInv'
    BY <1>3 DEF StartVirtiofsd, FallBackTo9p
  <2>2. PidFileInv'
    BY <1>3 DEF StartVirtiofsd, FallBackTo9p
  <2>3. OrphanInv'
    BY <1>3 DEF StartVirtiofsd, FallBackTo9p
  <2>4. RunningIsRecorded'
    BY <1>3 DEF StartVirtiofsd, FallBackTo9p
  <2>5. QED
    BY <2>1, <2>2, <2>3, <2>4
<1>4. CASE RecordVirtiofsd(c)
  <2>1. LaunchInv'
    BY <1>4 DEF RecordVirtiofsd, FallBackTo9p
  <2>2. PidFileInv'
    BY <1>4 DEF RecordVirtiofsd, FallBackTo9p
  <2>3. OrphanInv'
    BY <1>4 DEF RecordVirtiofsd, FallBackTo9p
  <2>4. RunningIsRecorded'
    BY <1>4 DEF RecordVirtiofsd, FallBackTo9p
  <2>5. QED
    BY <2>1, <2>2, <2>3, <2>4
<1>5. CASE StartTpm(c)
  <2>1. LaunchInv'
    BY SMTT(30), <1>5 DEF StartTpm
  <2>2. PidFileInv'
    BY <1>5 DEF StartTpm
  <2>3. OrphanInv'
    BY <1>5 DEF StartTpm
  <2>4. RunningIsRecorded'
    BY <1>5 DEF StartTpm
  <2>5. QED
    BY <2>1, <2>2, <2>3, <2>4
<1>6. CASE RecordTpm(c)
  <2>1. LaunchInv'
    BY SMTT(30), <1>6 DEF RecordTpm
  <2>2. PidFileInv'
    BY <1>6 DEF RecordTpm
  <2>3. OrphanInv'
    BY <1>6 DEF RecordTpm
  <2>4. RunningIsRecorded'
    BY <1>6 DEF RecordTpm
  <2>5. QED
    BY <2>1, <2>2, <2>3, <2>4
<1>7. CASE CheckIpcEndpoints(c)
  BY SMTT(30), <1>7 DEF CheckIpcEndpoints
<1>8. CASE SpawnQemu(c)
  <2>1. LaunchInv'
    BY SMTT(30), <1>8 DEF SpawnQemu
  <2>2. PidFileInv'
    BY <1>8 DEF SpawnQemu
  <2>3. OrphanInv'
    BY <1>8 DEF SpawnQemu
  <2>4. RunningIsRecorded'
    BY <1>8 DEF SpawnQemu
  <2>5. QED
    BY <2>1, <2>2, <2>3, <2>4
<1>9. CASE WritePid(c)
  <2>1. LaunchInv'
    BY SMTT(30), <1>9 DEF WritePid
  <2>2. PidFileInv'
    BY <1>9 DEF WritePid
  <2>3. OrphanInv'
    BY <1>9 DEF WritePid
  <2>4. RunningIsRecorded'
    BY <1>9 DEF WritePid
  <2>5. QED
    BY <2>1, <2>2, <2>3, <2>4
<1>10. CASE EarlyExit(c)
  BY SMTT(30), <1>10 DEF EarlyExit, RemoveRuntime
<1>11. CASE PostStart(c)
  BY <1>11 DEF PostStart
<1>12. CASE UndoKill(c)
  BY <1>12 DEF UndoKill, Signal, RefuseSignal
<1>13. CASE UndoWait(c)
  BY <1>13 DEF UndoWait, RemoveRuntime, MayTimeOut
<1>14. CASE GuestWait(c)
  BY <1>14 DEF GuestWait
<1>15. QED
  BY <1>1, <1>2, <1>3, <1>4, <1>5, <1>6, <1>7, <1>8, <1>9, <1>10, <1>11, <1>12, <1>13, <1>14
     DEF StartStep

\* So does every step of stop, restart, kill and guest shutdown.
LEMMA StopProcesses ==
    ASSUME IInv, LockIInv', "slow_exit" \notin Faults, "kill_fails" \notin Faults,
           NEW c \in Clients, StopStep(c)
    PROVE  ProcessInv'
<1> USE Alone, ConstantsAssumption
    DEF LockIInv, TypeOK, ClientTypeOK, FilesTypeOK, ProcsTypeOK, CommandInv, Critical,
            LockedLabels, StartLabels, StopLabels, DiskLabels, SeenLabels, StartOps,
            BringUpLabels, WatchLabels, LaunchedLabels, At, Goto, Step, StepSeen, Return, files, procs,
            IInv, ProcessInv, LaunchInv, PidFileInv, OrphanInv, RunningIsRecorded,
            Running, Stopped, Alive, Known, AliveQemus, Launching
<1>1. CASE RestartPreflight(c)
  BY SMTT(30), <1>1 DEF RestartPreflight
<1>2. CASE StopCheck(c)
  BY SMTT(30), <1>2 DEF StopCheck, RemoveRuntime, AfterStop
<1>3. CASE RequestShutdown(c)
  BY SMTT(30), <1>3 DEF RequestShutdown
<1>4. CASE StopKill(c)
  BY <1>4 DEF StopKill, KillAndWait, Signal, RefuseSignal
<1>5. CASE StopWait(c)
  <2>1. LaunchInv'
    BY <1>5 DEF StopWait
  <2>2. PidFileInv'
    BY <1>5 DEF StopWait
  <2>3. OrphanInv'
    BY <1>5 DEF StopWait
  <2>4. RunningIsRecorded'
    BY <1>5 DEF StopWait
  <2>5. QED
    BY <2>1, <2>2, <2>3, <2>4
<1>6. CASE ForceKill(c)
  BY <1>6 DEF ForceKill, KillAndWait, Signal, RefuseSignal
<1>7. CASE ForceWait(c)
  BY <1>7 DEF ForceWait
<1>8. CASE FinishStop(c)
  <2>1. LaunchInv'
    BY SMTT(30), <1>8 DEF FinishStop, RemoveRuntime, AfterStop
  <2>2. PidFileInv'
    BY <1>8 DEF FinishStop, RemoveRuntime, AfterStop
  <2>3. OrphanInv'
    BY <1>8 DEF FinishStop, RemoveRuntime, AfterStop
  <2>4. RunningIsRecorded'
    BY <1>8 DEF FinishStop, RemoveRuntime, AfterStop
  <2>5. QED
    BY <2>1, <2>2, <2>3, <2>4
<1>9. CASE KillCheck(c)
  BY SMTT(30), <1>9 DEF KillCheck
<1>10. CASE GuestCheck(c)
  BY SMTT(30), <1>10 DEF GuestCheck
<1>11. CASE GuestRequest(c)
  BY SMTT(30), <1>11 DEF GuestRequest
<1>12. CASE GuestExit(c)
  <2>1. LaunchInv'
    BY SMTT(30), <1>12 DEF GuestExit
  <2>2. PidFileInv'
    BY <1>12 DEF GuestExit
  <2>3. OrphanInv'
    BY <1>12 DEF GuestExit
  <2>4. RunningIsRecorded'
    BY <1>12 DEF GuestExit
  <2>5. QED
    BY <2>1, <2>2, <2>3, <2>4
<1>13. QED
  BY <1>1, <1>2, <1>3, <1>4, <1>5, <1>6, <1>7, <1>8, <1>9, <1>10, <1>11, <1>12
     DEF StopStep

\* And every step of work on a stopped disk.
LEMMA FileProcesses ==
    ASSUME IInv, LockIInv', "slow_exit" \notin Faults, "kill_fails" \notin Faults,
           NEW c \in Clients, DiskCheck(c) \/ DiskWork(c)
    PROVE  ProcessInv'
<1> USE Alone, ConstantsAssumption
    DEF LockIInv, TypeOK, ClientTypeOK, FilesTypeOK, ProcsTypeOK, CommandInv, Critical,
            LockedLabels, StartLabels, StopLabels, DiskLabels, SeenLabels, StartOps,
            BringUpLabels, WatchLabels, LaunchedLabels, At, Goto, Step, StepSeen, Return, files, procs,
            IInv, ProcessInv, LaunchInv, PidFileInv, OrphanInv, RunningIsRecorded,
            Running, Stopped, Alive, Known, AliveQemus, Launching
<1>1. CASE DiskCheck(c)
  BY <1>1 DEF DiskCheck
<1>2. CASE DiskWork(c)
  BY <1>2 DEF DiskWork
<1>3. QED
  BY <1>1, <1>2

\* IInv is preserved by every step where SIGKILL works.
LEMMA NextProcesses ==
    ASSUME IInv, LockIInv', "delete" \notin Ops, "slow_exit" \notin Faults,
           "kill_fails" \notin Faults, [Next]_vars
    PROVE  ProcessInv'
<1> USE ConstantsAssumption
    DEF LockIInv, TypeOK, ClientTypeOK, FilesTypeOK, ProcsTypeOK, CommandInv, Critical,
            LockedLabels, StartLabels, StopLabels, DiskLabels, SeenLabels, StartOps,
            BringUpLabels, WatchLabels, LaunchedLabels, At, Goto, Step, StepSeen, Return, files, procs,
            IInv, ProcessInv, LaunchInv, PidFileInv, OrphanInv, RunningIsRecorded,
            Running, Stopped, Alive, Known, AliveQemus, Launching
<1>1. ASSUME NEW c \in Clients, Begin(c)
      PROVE  ProcessInv'
  BY <1>1 DEF Begin, Free
<1>2. ASSUME NEW c \in Clients, AcquireVmLock(c)
      PROVE  ProcessInv'
  <2>1. op[c] \in AllOps \ {"delete"}
    BY <1>2 DEF AcquireVmLock
  <2>2. FirstStep[op[c]] \notin SeenLabels \cup BringUpLabels \cup LaunchedLabels \cup {"disk_work"}
    BY <2>1 DEF AllOps, FirstStep
  <2>3. QED
    BY <1>2, <2>2 DEF AcquireVmLock
<1>3. ASSUME NEW c \in Clients, LockBusy(c)
      PROVE  ProcessInv'
  BY <1>3 DEF LockBusy
<1>4. ASSUME NEW c \in Clients, StartStep(c) \/ StopStep(c)
      PROVE  ProcessInv'
  BY <1>4, StartProcesses, StopProcesses
<1>5. ASSUME NEW c \in Clients, FileStep(c)
      PROVE  ProcessInv'
  <2>1. DiskCheck(c) \/ DiskWork(c)
    BY <1>5 DEF FileStep, DeleteCheck, DeleteFiles, DeleteStateDir, At, IInv, LockIInv, NoneDeletes,
       DeleteLabels
  <2>2. QED
    BY <2>1, FileProcesses
<1>6. ASSUME NEW c \in Clients, ClientCrash(c)
      PROVE  ProcessInv'
  BY <1>6, Alone DEF ClientCrash, RecordLabel, LiveOf, Kinds
<1>7. ASSUME NEW n \in Launches, QemuExit(n)
      PROVE  ProcessInv'
  BY <1>7 DEF QemuExit, client, Kinds
<1>8. ASSUME NEW h \in Helpers, NEW n \in Launches, HelperExit(h, n)
      PROVE  ProcessInv'
  BY <1>8 DEF HelperExit, client, Kinds, Helpers
<1>9. CASE UNCHANGED vars
  BY <1>9 DEF vars, client
<1>10. QED
  BY <1>1, <1>2, <1>3, <1>4, <1>5, <1>6, <1>7, <1>8, <1>9 DEF Next, ClientStep

\* IInv is inductive when a SIGKILL can be sent and ends its process in time.
THEOREM ProcessInvariance ==
    ASSUME "delete" \notin Ops, "slow_exit" \notin Faults, "kill_fails" \notin Faults
    PROVE  Spec => []IInv
<1>1. Init => IInv
  <2> SUFFICES ASSUME Init PROVE IInv
    OBVIOUS
  <2>1. LockIInv
    BY InitLock
  <2>2. ProcessInv
    BY ConstantsAssumption
       DEF Init, ProcessInv, LaunchInv, PidFileInv, OrphanInv, RunningIsRecorded, BringUpLabels,
           WatchLabels, SeenLabels, Kinds, Known, AliveQemus, Alive
  <2>3. QED
    BY <2>1, <2>2 DEF IInv, ProcessInv
<1>2. IInv /\ [Next]_vars => IInv'
  BY NextTypes, NextDeletes, NextLock, NextProcesses DEF IInv, LockIInv, ProcessInv
<1>3. QED
  BY <1>1, <1>2, PTL DEF Spec

\* A QEMU that is alive is found through vm.pid, unless the vmctl that spawned it
\* died before write_pid.
THEOREM RunningIsRecordedHolds ==
    ASSUME "delete" \notin Ops, "slow_exit" \notin Faults, "kill_fails" \notin Faults
    PROVE  Spec => []RunningIsRecorded
<1>1. IInv => RunningIsRecorded
  BY DEF IInv
<1>2. QED
  BY <1>1, ProcessInvariance, PTL

\* The VM never has two QEMU processes, leaving those of crashed launches aside
\* (start_vm_loaded checks vm.pid under the lock and records what it spawns).
THEOREM AtMostOneQemuHolds ==
    ASSUME "delete" \notin Ops, "slow_exit" \notin Faults, "kill_fails" \notin Faults
    PROVE  Spec => []AtMostOneQemu
<1>1. IInv => AtMostOneQemu
  BY Alone, ConstantsAssumption
     DEF IInv, LockIInv, TypeOK, ClientTypeOK, RunningIsRecorded, PidFileInv, BringUpLabels,
         AtMostOneQemu, Launching, At, Known, AliveQemus, Critical, LockedLabels, StartLabels
<1>2. QED
  BY <1>1, ProcessInvariance, PTL

\* While qemu-img works on the disk of a VM that was found stopped, no QEMU of
\* that VM comes up (require_stopped_disk, ensure_delete_allowed, ensure_disk).
THEOREM DiskWorkWhileStoppedHolds ==
    ASSUME "delete" \notin Ops, "slow_exit" \notin Faults, "kill_fails" \notin Faults
    PROVE  Spec => []DiskWorkWhileStopped
<1>1. IInv => DiskWorkWhileStopped
  BY Alone, ConstantsAssumption
     DEF IInv, LockIInv, TypeOK, NoneDeletes, DeleteLabels, RunningIsRecorded, PidFileInv,
         BringUpLabels, DiskWorkWhileStopped, DiskInUse, Launching, At, Known, AliveQemus, Running,
         Stopped, Critical, LockedLabels, StartLabels, DiskLabels
<1>2. QED
  BY <1>1, ProcessInvariance, PTL

-----------------------------------------------------------------------------
(* The helpers and their records.                                          *)

\* Every step of start_vm_loaded keeps what HelperInv says of the helpers.
LEMMA StartHelpers ==
    ASSUME HelperInv, LockIInv, LockIInv', "kill_fails" \notin Faults,
           NEW c \in Clients, StartStep(c)
    PROVE  HelperInv'
<1> USE Alone, ConstantsAssumption
    DEF LockIInv, TypeOK, ClientTypeOK, FilesTypeOK, ProcsTypeOK, CommandInv, Critical,
        LockedLabels, StartLabels, StopLabels, DiskLabels, StartOps, At, Goto, Step, Return,
        files, procs, HelperInv, HelperFileInv, HelpersAreRecorded, RecordLabel, Kinds, Helpers
<1>1. CASE StartCheck(c)
  BY <1>1 DEF StartCheck, RemoveRuntime, StopHelpers
<1>2. CASE StartPrepare(c)
  BY <1>2 DEF StartPrepare
<1>3. CASE StartVirtiofsd(c)
  BY <1>3 DEF StartVirtiofsd, FallBackTo9p, SpawnHelper
<1>4. CASE RecordVirtiofsd(c)
  BY <1>4 DEF RecordVirtiofsd, FallBackTo9p, RecordHelper, DiscardHelper
<1>5. CASE StartTpm(c)
  BY <1>5 DEF StartTpm, SpawnHelper, StopHelpers
<1>6. CASE RecordTpm(c)
  BY <1>6 DEF RecordTpm, RecordHelper
<1>7. CASE CheckIpcEndpoints(c)
  BY <1>7 DEF CheckIpcEndpoints, StopHelpers
<1>8. CASE SpawnQemu(c)
  BY <1>8 DEF SpawnQemu, StopHelpers
<1>9. CASE WritePid(c)
  BY <1>9 DEF WritePid, StopHelpers
<1>10. CASE EarlyExit(c)
  BY <1>10 DEF EarlyExit, RemoveRuntime, StopHelpers
<1>11. CASE PostStart(c)
  BY <1>11 DEF PostStart
<1>12. CASE UndoKill(c)
  BY <1>12 DEF UndoKill
<1>13. CASE UndoWait(c)
  BY <1>13 DEF UndoWait, RemoveRuntime, StopHelpers
<1>14. CASE GuestWait(c)
  BY <1>14 DEF GuestWait
<1>15. QED
  BY <1>1, <1>2, <1>3, <1>4, <1>5, <1>6, <1>7, <1>8, <1>9, <1>10, <1>11, <1>12, <1>13, <1>14
     DEF StartStep

\* So does every step of stop, restart, kill and guest shutdown, and of disk work.
LEMMA StopHelpersKeeps ==
    ASSUME HelperInv, LockIInv, LockIInv', "kill_fails" \notin Faults,
           NEW c \in Clients, StopStep(c) \/ DiskCheck(c) \/ DiskWork(c)
    PROVE  HelperInv'
<1> USE Alone, ConstantsAssumption
    DEF LockIInv, TypeOK, ClientTypeOK, FilesTypeOK, ProcsTypeOK, CommandInv, Critical,
        LockedLabels, StartLabels, StopLabels, DiskLabels, StartOps, At, Goto, Step, StepSeen, Return,
        files, procs, HelperInv, HelperFileInv, HelpersAreRecorded, RecordLabel, Kinds, Helpers
<1>1. CASE StopCheck(c)
  BY <1>1 DEF StopCheck, RemoveRuntime, StopHelpers, AfterStop
<1>2. CASE FinishStop(c)
  BY <1>2 DEF FinishStop, RemoveRuntime, StopHelpers, AfterStop
<1>3. CASE RestartPreflight(c) \/ RequestShutdown(c) \/ StopWait(c) \/ ForceWait(c)
  BY <1>3 DEF RestartPreflight, RequestShutdown, StopWait, ForceWait
<1>4. CASE StopKill(c) \/ ForceKill(c)
  BY <1>4 DEF StopKill, ForceKill, KillAndWait
<1>5. CASE KillCheck(c) \/ GuestCheck(c) \/ GuestRequest(c) \/ GuestExit(c)
  BY <1>5 DEF KillCheck, GuestCheck, GuestRequest, GuestExit
<1>6. CASE DiskCheck(c) \/ DiskWork(c)
  BY <1>6 DEF DiskCheck, DiskWork
<1>7. QED
  BY <1>1, <1>2, <1>3, <1>4, <1>5, <1>6 DEF StopStep

\* HelperInv is preserved by every step where a helper can be killed.
LEMMA NextHelpers ==
    ASSUME HelperInv, LockIInv, LockIInv', "delete" \notin Ops, "kill_fails" \notin Faults,
           [Next]_vars
    PROVE  HelperInv'
<1> USE ConstantsAssumption
    DEF LockIInv, TypeOK, ClientTypeOK, FilesTypeOK, ProcsTypeOK, CommandInv, At, Goto, Return,
        files, procs, HelperInv, HelperFileInv, HelpersAreRecorded, RecordLabel, Kinds, Helpers
<1>1. ASSUME NEW c \in Clients, Begin(c)
      PROVE  HelperInv'
  BY <1>1 DEF Begin
<1>2. ASSUME NEW c \in Clients, AcquireVmLock(c)
      PROVE  HelperInv'
  <2>1. op[c] \in AllOps \ {"delete"}
    BY <1>2 DEF AcquireVmLock
  <2>2. FirstStep[op[c]] \notin {"start_prepare", "virtiofsd_spawn", "virtiofsd_record",
                                  "swtpm_spawn", "swtpm_record", "qemu_record"}
    BY <2>1 DEF AllOps, FirstStep
  <2>3. QED
    BY <1>2, <2>2 DEF AcquireVmLock
<1>3. ASSUME NEW c \in Clients, LockBusy(c)
      PROVE  HelperInv'
  BY <1>3 DEF LockBusy
<1>4. ASSUME NEW c \in Clients, StartStep(c) \/ StopStep(c) \/ FileStep(c)
      PROVE  HelperInv'
  BY <1>4, FileCommand, StartHelpers, StopHelpersKeeps
<1>5. ASSUME NEW c \in Clients, ClientCrash(c)
      PROVE  HelperInv'
  BY <1>5 DEF ClientCrash, LiveOf
<1>6. ASSUME NEW n \in Launches, QemuExit(n)
      PROVE  HelperInv'
  BY <1>6 DEF QemuExit, client
<1>7. ASSUME NEW h \in Helpers, NEW n \in Launches, HelperExit(h, n)
      PROVE  HelperInv'
  BY <1>7 DEF HelperExit, client
<1>8. CASE UNCHANGED vars
  BY <1>8 DEF vars, client
<1>9. QED
  BY <1>1, <1>2, <1>3, <1>4, <1>5, <1>6, <1>7, <1>8 DEF Next, ClientStep

\* HelperInv is inductive as soon as the lock works and a helper can be killed.
THEOREM HelperInvariance ==
    ASSUME "delete" \notin Ops, "kill_fails" \notin Faults
    PROVE  Spec => []HelperInv
<1>1. Init => HelperInv
  BY DEF Init, HelperInv, HelperFileInv, HelpersAreRecorded, Helpers
<1>2. HelperInv /\ LockIInv /\ LockIInv' /\ [Next]_vars => HelperInv'
  BY NextHelpers
<1>3. QED
  BY <1>1, <1>2, LockInvariance, PTL DEF Spec

\* A swtpm or virtiofsd that runs is found through its PID file, unless the vmctl
\* that spawned it died before it wrote the file: whatever fails on the way of a
\* start, and wherever a later one is undone.
THEOREM HelpersAreRecordedHolds ==
    ASSUME "delete" \notin Ops, "kill_fails" \notin Faults
    PROVE  Spec => []HelpersAreRecorded
<1>1. HelperInv => HelpersAreRecorded
  BY DEF HelperInv
<1>2. QED
  BY <1>1, HelperInvariance, PTL

-----------------------------------------------------------------------------
(* What stop leaves.                                                       *)

\* Only the client in its critical section touches vm.pid.
LEMMA PidFileStep ==
    ASSUME LockIInv, "delete" \notin Ops, Next, pidFile' # pidFile
    PROVE  \E d \in Clients : Critical(d) /\ (StartStep(d) \/ StopStep(d))
<1>1. ASSUME NEW c \in Clients, FileStep(c)
      PROVE  FALSE
  BY <1>1, FileCommand DEF DiskCheck, DiskWork, files, LockIInv, TypeOK
<1>2. \E d \in Clients : StartStep(d) \/ StopStep(d)
  BY <1>1 DEF Next, ClientStep, Begin, AcquireVmLock, LockBusy, ClientCrash, QemuExit, HelperExit,
     files
<1>3. QED
  BY <1>2, StartCommand, StopCommand DEF LockIInv, TypeOK

\* stop, restart, kill and guest shutdown, once they have seen QEMU end, leave no
\* socket, no PID record and no process behind: for nobody else has been able to
\* start anything since (the removal of the runtime files, under the lock).
THEOREM StopLeavesNothingHolds ==
    ASSUME "delete" \notin Ops, "slow_exit" \notin Faults, "kill_fails" \notin Faults
    PROVE  Spec => StopLeavesNothing
<1> DEFINE Leaves ==
        \A c \in Clients :
          At(c, "remove_runtime") /\ pidFile # NoLaunch /\ pidFile' = NoLaunch =>
            /\ ~sockets'
            /\ \A h \in Helpers : helper'[h] \subseteq orphans[h]
            /\ Known' = {}
<1>1. IInv /\ HelperInv /\ [Next]_vars => [Leaves]_vars
  <2> SUFFICES ASSUME IInv, HelperInv, Next, NEW c \in Clients,
                      At(c, "remove_runtime"), pidFile # NoLaunch, pidFile' = NoLaunch
               PROVE  /\ ~sockets'
                      /\ \A h \in Helpers : helper'[h] \subseteq orphans[h]
                      /\ Known' = {}
    OBVIOUS
  <2>1. LockIInv /\ Critical(c)
    BY DEF IInv, Critical, At, LockedLabels, StopLabels
  <2>2. StartStep(c) \/ StopStep(c)
    BY <2>1, PidFileStep, Alone
  <2>3. FinishStop(c)
    BY <2>2
       DEF At, StartStep, StartCheck, StartPrepare, StartVirtiofsd, RecordVirtiofsd, StartTpm,
           RecordTpm, CheckIpcEndpoints, SpawnQemu, WritePid, EarlyExit, PostStart, UndoKill,
           UndoWait, GuestWait, StopStep, RestartPreflight, StopCheck, RequestShutdown, StopKill,
           StopWait, ForceKill, ForceWait, KillCheck, GuestCheck, GuestRequest, GuestExit,
           KillAndWait
  <2>4. \A d \in Clients : pc[d] \notin {"qemu_record", "swtpm_record", "virtiofsd_record"}
    BY <2>1, Alone DEF At, Critical, LockedLabels, StartLabels
  <2>5. \A h \in Helpers : helper'[h] \subseteq orphans[h]
    <3> TAKE h \in Helpers
    <3>1. helper'[h] = helper[h] \ {helperFile[h]}
      BY <2>3 DEF FinishStop, RemoveRuntime, StopHelpers
    <3>2. RecordLabel[h] \in {"swtpm_record", "virtiofsd_record"}
      BY DEF RecordLabel, Helpers
    <3>3. QED
      BY <2>4, <3>1, <3>2 DEF HelperInv, HelpersAreRecorded, At
  <2>6. Known = {}
    BY <2>1, <2>4
       DEF IInv, RunningIsRecorded, Launching, PidFileInv, SeenLabels, At, Known, AliveQemus, Alive
  <2>7. QED
    BY <2>3, <2>5, <2>6 DEF FinishStop, RemoveRuntime, Known, AliveQemus, Alive
<1>2. QED
  BY <1>1, ProcessInvariance, HelperInvariance, PTL DEF Spec, StopLeavesNothing

-----------------------------------------------------------------------------
(* VmLifecycle implements AbstractVm.                                      *)

\* The client that a set with one or no client stands for.
LEMMA TheClientIs ==
    ASSUME NEW S
    PROVE  /\ S = {} => TheClient(S) = NoClient
           /\ \A c \in S : S = {c} => TheClient(S) = c
BY DEF TheClient

\* The mapped state: the client in its critical section, or none, owns the VM, and
\* the one that works on the disk, or none, is the worker.
MappedClients ==
    /\ \A c \in Clients : Critical(c) => Owner = c
    /\ (\A c \in Clients : ~Critical(c)) => Owner = NoClient
    /\ \A c \in Clients : DiskInUse(c) => Worker = c
    /\ (\A c \in Clients : ~DiskInUse(c)) => Worker = NoClient

\* The lock makes the mapping well-defined: one client owns the VM, or none.
LEMMA MappedInv == LockIInv => MappedClients
<1> SUFFICES ASSUME LockIInv PROVE MappedClients
  OBVIOUS
<1>1. \A c \in Clients : DiskInUse(c) => Critical(c)
  BY DEF DiskInUse, Critical, LockedLabels, StartLabels, DiskLabels
<1>2. ASSUME NEW c \in Clients, Critical(c)
      PROVE  Owner = c
  <2>1. {d \in Clients : Critical(d)} = {c}
    BY <1>2, Alone
  <2>2. QED
    BY <2>1, TheClientIs DEF Owner
<1>3. ASSUME NEW c \in Clients, DiskInUse(c)
      PROVE  Worker = c
  <2>1. {d \in Clients : DiskInUse(d)} = {c}
    BY <1>1, <1>3, Alone
  <2>2. QED
    BY <2>1, TheClientIs DEF Worker
<1>4. ASSUME \A c \in Clients : ~Critical(c)
      PROVE  Owner = NoClient
  <2>1. {d \in Clients : Critical(d)} = {}
    BY <1>4
  <2>2. QED
    BY <2>1, TheClientIs DEF Owner
<1>5. ASSUME \A c \in Clients : ~DiskInUse(c)
      PROVE  Worker = NoClient
  <2>1. {d \in Clients : DiskInUse(d)} = {}
    BY <1>5
  <2>2. QED
    BY <2>1, TheClientIs DEF Worker
<1>6. QED
  BY <1>2, <1>3, <1>4, <1>5 DEF MappedClients

\* A step that leaves every client in or out of its critical section, and of the disk,
\* and the known processes, is a stutter.
LEMMA MappedStutter ==
    ASSUME \A c \in Clients : /\ Critical(c)' <=> Critical(c)
                              /\ DiskInUse(c)' <=> DiskInUse(c),
           Known' = Known
    PROVE  UNCHANGED Abstract!vars
<1>1. {c \in Clients : Critical(c)'} = {c \in Clients : Critical(c)}
  OBVIOUS
<1>2. {c \in Clients : DiskInUse(c)'} = {c \in Clients : DiskInUse(c)}
  OBVIOUS
<1>3. Owner' = Owner /\ Worker' = Worker
  BY <1>1, <1>2 DEF Owner, Worker
<1>4. QED
  BY <1>3 DEF Abstract!vars

\* A step of AbstractVm, or of none of its variables.
AbstractStep == Abstract!Next \/ UNCHANGED Abstract!vars

\* A command that ends gives the VM up.
LEMMA MappedReturn ==
    ASSUME LockIInv, MappedClients, MappedClients', NEW c \in Clients, Critical(c), Return(c),
           Known' \subseteq Known
    PROVE  AbstractStep
<1>1. \A d \in Clients : ~Critical(d)' /\ ~DiskInUse(d)'
  BY Alone
     DEF LockIInv, TypeOK, ClientTypeOK, Return, Critical, DiskInUse, LockedLabels, StartLabels,
         StopLabels, DiskLabels
<1>2. Owner = c /\ Owner' = NoClient /\ Worker' = NoClient
  BY <1>1 DEF MappedClients
<1>3. Abstract!Release(c)
  BY <1>2 DEF Abstract!Release
<1>4. QED
  BY <1>3 DEF AbstractStep, Abstract!Next

\* A step within a command leaves the VM to its owner; the worker is the client while
\* it is at one of the labels of DiskInUse.
LEMMA MappedAdvance ==
    ASSUME LockIInv, MappedClients, MappedClients', NEW c \in Clients, Critical(c),
           NEW l \in LockedLabels, Goto(c, l)
    PROVE  /\ Owner = c /\ Owner' = c
           /\ Worker = IF DiskInUse(c) THEN c ELSE NoClient
           /\ Worker' = IF l \in {"disk_work", "delete_files", "start_prepare"} THEN c ELSE NoClient
<1>1. /\ pc'[c] = l
      /\ \A d \in Clients : d # c => pc'[d] = pc[d] /\ ~Critical(d)
  BY Alone DEF LockIInv, TypeOK, ClientTypeOK, Goto
<1>2. \A d \in Clients : d # c => ~DiskInUse(d) /\ ~DiskInUse(d)'
  BY <1>1 DEF Critical, DiskInUse, LockedLabels, StartLabels, DiskLabels
<1>3. Critical(c)' /\ (DiskInUse(c)' <=> l \in {"disk_work", "delete_files", "start_prepare"})
  BY <1>1 DEF Critical, DiskInUse
<1>4. QED
  BY <1>2, <1>3 DEF MappedClients

\* Under the lock, a VM that is found stopped has no QEMU but orphans.
LEMMA StoppedIsKnown ==
    ASSUME IInv, NEW c \in Clients, Critical(c), pc[c] # "qemu_record", Stopped
    PROVE  Known = {}
BY Alone, ConstantsAssumption
   DEF IInv, RunningIsRecorded, Launching, At, Known, AliveQemus, Stopped, Running, Critical,
       LockedLabels, StartLabels

\* The steps of start_vm_loaded, but for those that bring up QEMU or end its launch,
\* leave every QEMU process alone.
LEMMA StartKeepsKnown ==
    ASSUME TypeOK, NEW c \in Clients, StartStep(c), ~SpawnQemu(c), ~WritePid(c)
    PROVE  Known' = Known
<1>1. orphans' = orphans
  BY DEF StartStep, StartCheck, StartPrepare, StartVirtiofsd, RecordVirtiofsd, StartTpm, RecordTpm,
         CheckIpcEndpoints, EarlyExit, PostStart, UndoKill, UndoWait, GuestWait, procs
<1>2. qemu' = qemu \/ UndoKill(c)
  BY DEF StartStep, StartCheck, StartPrepare, StartVirtiofsd, RecordVirtiofsd, StartTpm, RecordTpm,
         CheckIpcEndpoints, EarlyExit, PostStart, UndoWait, GuestWait, procs
<1>3. \A n \in Launches : Alive(n)' <=> Alive(n)
  BY <1>2 DEF TypeOK, ProcsTypeOK, UndoKill, Signal, RefuseSignal, Alive
<1>4. QED
  BY <1>1, <1>3 DEF Known, AliveQemus

\* Where a command neither takes up nor finishes work on the disk it moves nothing of
\* AbstractVm.
LEMMA MappedQuiet ==
    ASSUME LockIInv, MappedClients, MappedClients', NEW c \in Clients, Critical(c),
           ~DiskInUse(c),
           NEW l \in LockedLabels \ {"disk_work", "delete_files", "start_prepare"}, Goto(c, l),
           Known' = Known
    PROVE  AbstractStep
BY MappedAdvance DEF AbstractStep, Abstract!vars

\* A client that has found the VM stopped takes up work on its disk.
LEMMA MappedBeginWork ==
    ASSUME IInv, MappedClients, MappedClients', NEW c \in Clients, Critical(c),
           pc[c] # "qemu_record", Stopped,
           NEW l \in {"disk_work", "start_prepare"}, Goto(c, l), Known' = Known
    PROVE  AbstractStep
<1>1. l \in LockedLabels
  BY DEF LockedLabels, StartLabels, DiskLabels
<1>2. Owner = c /\ Owner' = c /\ Worker' = c
  BY <1>1, MappedAdvance DEF IInv
<1>3. Known = {} /\ Known' = {}
  BY StoppedIsKnown
<1>4. Abstract!BeginWork(c)
  BY <1>2, <1>3 DEF Abstract!BeginWork
<1>5. QED
  BY <1>4 DEF AbstractStep, Abstract!Next

\* Every step of start_vm_loaded is one of AbstractVm: the disk is worked on between
\* the check of the state and the spawns, and QEMU is launched where none is known.
LEMMA MappedStart ==
    ASSUME IInv, MappedClients, MappedClients', NEW c \in Clients, StartStep(c)
    PROVE  AbstractStep
<1> USE DEF At, Step
<1>0. LockIInv /\ TypeOK /\ Critical(c) /\ (Return(c) \/ Advance(c))
  BY StartCommand DEF IInv, LockIInv, TypeOK
<1>1. CASE Return(c) /\ ~SpawnQemu(c) /\ ~WritePid(c)
  BY <1>0, <1>1, StartKeepsKnown, MappedReturn
<1>2. CASE StartCheck(c)
  <2>1. Known' = Known
    BY <1>0, <1>2, StartKeepsKnown DEF StartCheck, SpawnQemu, WritePid
  <2>2. CASE Goto(c, "guest_wait")
    BY <1>0, <1>2, <2>1, <2>2, MappedQuiet DEF StartCheck, DiskInUse, LockedLabels, StartLabels
  <2>3. CASE Stopped /\ Goto(c, "start_prepare")
    BY <1>0, <1>2, <2>1, <2>3, MappedBeginWork DEF StartCheck
  <2>4. QED
    BY <1>2, <2>2, <2>3 DEF StartCheck
<1>3. CASE StartPrepare(c) /\ ~Return(c)
  <2>1. Goto(c, "virtiofsd_spawn") /\ DiskInUse(c) /\ Known' = Known
    BY <1>3 DEF StartPrepare, DiskInUse, procs, Known, AliveQemus, Alive
  <2>2. Owner = c /\ Owner' = c /\ Worker = c /\ Worker' = NoClient
    BY <1>0, <2>1, MappedAdvance DEF LockedLabels, StartLabels
  <2>3. Abstract!EndWork(c)
    BY <2>1, <2>2 DEF Abstract!EndWork
  <2>4. QED
    BY <2>3 DEF AbstractStep, Abstract!Next
<1>4. CASE SpawnQemu(c)
  <2>1. /\ launch[c] \in Launches /\ launch[c] \notin orphans["qemu"]
        /\ pidFile = NoLaunch /\ ~DiskInUse(c)
    BY <1>4
       DEF SpawnQemu, IInv, LockIInv, CommandInv, StartLabels, LaunchInv, PidFileInv,
           BringUpLabels, DiskInUse
  <2>2. Known = {}
    BY <1>0, <1>4, <2>1, StoppedIsKnown, ConstantsAssumption DEF SpawnQemu, Stopped, Running
  <2>3. CASE /\ qemu' = [qemu EXCEPT ![launch[c]] = "live"]
             /\ Goto(c, "qemu_record")
    <3>1. Known' = {launch[c]}
      BY <1>0, <1>4, <2>1, <2>2, <2>3
         DEF SpawnQemu, TypeOK, ProcsTypeOK, Known, AliveQemus, Alive
    <3>2. Owner = c /\ Owner' = c /\ Worker = NoClient /\ Worker' = NoClient
      BY <1>0, <2>1, <2>3, MappedAdvance DEF LockedLabels, StartLabels
    <3>3. Abstract!Launch(c, launch[c])
      BY <2>2, <3>1, <3>2 DEF Abstract!Launch
    <3>4. QED
      BY <2>1, <3>3 DEF AbstractStep, Abstract!Next
  <2>4. CASE Return(c) /\ UNCHANGED qemu
    BY <1>0, <1>4, <2>4, MappedReturn DEF SpawnQemu, Known, AliveQemus, Alive
  <2>5. QED
    BY <1>4, <2>3, <2>4 DEF SpawnQemu
<1>5. CASE WritePid(c)
  <2>1. ~DiskInUse(c)
    BY <1>5 DEF WritePid, DiskInUse
  <2>2. CASE Goto(c, "early_exit") /\ UNCHANGED qemu
    <3>1. Known' = Known
      BY <1>5, <2>2 DEF WritePid, Known, AliveQemus, Alive
    <3>2. QED
      BY <1>0, <2>1, <2>2, <3>1, MappedQuiet DEF LockedLabels, StartLabels
  <2>3. CASE Return(c) /\ qemu' = [qemu EXCEPT ![launch[c]] = "none"]
    <3>1. Known' \subseteq Known
      BY <1>0, <1>5, <2>3 DEF WritePid, TypeOK, ProcsTypeOK, Known, AliveQemus, Alive
    <3>2. QED
      BY <1>0, <2>3, <3>1, MappedReturn
  <2>4. QED
    BY <1>5, <2>2, <2>3 DEF WritePid
<1>6. CASE ~Return(c) /\ ~StartCheck(c) /\ ~StartPrepare(c) /\ ~SpawnQemu(c) /\ ~WritePid(c)
  <2>1. /\ pc[c] # "start_prepare"
        /\ \E l \in StartLabels \ {"start_prepare"} : Goto(c, l)
    BY <1>6
       DEF StartStep, StartVirtiofsd, RecordVirtiofsd, FallBackTo9p, StartTpm, RecordTpm,
           CheckIpcEndpoints, EarlyExit, PostStart, UndoKill, UndoWait, GuestWait, StartLabels
  <2>2. ~DiskInUse(c)
    BY <1>0, <1>6, <2>1
       DEF StartStep, StartVirtiofsd, RecordVirtiofsd, StartTpm, RecordTpm, CheckIpcEndpoints,
           EarlyExit, PostStart, UndoKill, UndoWait, GuestWait, DiskInUse
  <2>3. Known' = Known
    BY <1>0, <1>6, StartKeepsKnown
  <2>4. QED
    BY <1>0, <2>1, <2>2, <2>3, MappedQuiet DEF LockedLabels, StartLabels
<1>7. QED
  BY <1>1, <1>2, <1>3, <1>4, <1>5, <1>6

\* Every step of stop, restart, kill and guest shutdown ends the command or moves
\* nothing: a signal does not end QEMU by itself.
LEMMA MappedStop ==
    ASSUME IInv, MappedClients, MappedClients', NEW c \in Clients, StopStep(c)
    PROVE  AbstractStep
<1>1. LockIInv /\ TypeOK /\ Critical(c)
  BY StopCommand DEF IInv, LockIInv, TypeOK
<1>2. pc[c] \in StopLabels /\ (Return(c) \/ \E l \in StopLabels \cup {"start_check"} : Goto(c, l))
  BY DEF StopStep, RestartPreflight, StopCheck, RequestShutdown, StopKill, StopWait, ForceKill,
     ForceWait, FinishStop, KillCheck, GuestCheck, GuestRequest, GuestExit, KillAndWait, AfterStop,
     At, Step, StepSeen, StopLabels
<1>3. Known' = Known
  <2>1. orphans' = orphans /\ (qemu' = qemu \/ StopKill(c) \/ ForceKill(c))
    BY DEF StopStep, RestartPreflight, StopCheck, RequestShutdown, StopKill, StopWait, ForceKill,
       ForceWait, FinishStop, KillCheck, GuestCheck, GuestRequest, GuestExit, KillAndWait, procs
  <2>2. \A n \in Launches : Alive(n)' <=> Alive(n)
    BY <1>1, <2>1
       DEF TypeOK, ProcsTypeOK, StopKill, ForceKill, KillAndWait, Signal, RefuseSignal, Alive
  <2>3. QED
    BY <2>1, <2>2 DEF Known, AliveQemus
<1>4. CASE Return(c)
  BY <1>1, <1>3, <1>4, MappedReturn
<1>5. ASSUME NEW l \in StopLabels \cup {"start_check"}, Goto(c, l)
      PROVE  AbstractStep
  <2>1. l \in LockedLabels \ {"disk_work", "delete_files", "start_prepare"} /\ ~DiskInUse(c)
    BY <1>2 DEF LockedLabels, StartLabels, StopLabels, DiskInUse
  <2>2. QED
    BY <1>1, <1>3, <1>5, <2>1, MappedQuiet
<1>6. QED
  BY <1>2, <1>4, <1>5

\* So are the steps of disk work.
LEMMA MappedFile ==
    ASSUME IInv, MappedClients, MappedClients', NEW c \in Clients, FileStep(c)
    PROVE  AbstractStep
<1>1. LockIInv /\ Critical(c) /\ (DiskCheck(c) \/ DiskWork(c))
  BY FileCommand DEF IInv, LockIInv, TypeOK
<1>2. Known' = Known
  BY <1>1 DEF DiskCheck, DiskWork, procs, Known, AliveQemus, Alive
<1>3. CASE Return(c)
  BY <1>1, <1>2, <1>3, MappedReturn
<1>4. CASE Stopped /\ Goto(c, "disk_work") /\ pc[c] = "disk_check"
  BY <1>1, <1>2, <1>4, MappedBeginWork
<1>5. QED
  BY <1>1, <1>3, <1>4 DEF DiskCheck, DiskWork, Step, At

\* A client that waits for the lock or takes none does not show in AbstractVm; one
\* that gets it becomes the owner.
LEMMA MappedLock ==
    ASSUME IInv, MappedClients, MappedClients', "delete" \notin Ops, NEW c \in Clients,
           Begin(c) \/ LockBusy(c) \/ AcquireVmLock(c)
    PROVE  AbstractStep
<1> USE DEF IInv, LockIInv, TypeOK, ClientTypeOK, At, procs
<1>1. Known' = Known
  BY DEF Begin, LockBusy, AcquireVmLock, Known, AliveQemus, Alive
<1>2. /\ \A d \in Clients : d # c => pc'[d] = pc[d]
      /\ ~Critical(c) /\ ~DiskInUse(c)
  BY DEF Begin, LockBusy, AcquireVmLock, Goto, Return, Critical, DiskInUse, LockedLabels, StartLabels,
     StopLabels, DiskLabels
<1>3. CASE Begin(c) \/ LockBusy(c)
  <2>1. pc'[c] \in {"idle", "lock"}
    BY <1>3 DEF Begin, LockBusy, Goto, Return
  <2>2. \A d \in Clients : /\ Critical(d)' <=> Critical(d)
                           /\ DiskInUse(d)' <=> DiskInUse(d)
    BY <1>2, <2>1 DEF Critical, DiskInUse, LockedLabels, StartLabels, StopLabels, DiskLabels
  <2>3. QED
    BY <1>1, <2>2, MappedStutter DEF AbstractStep
<1>4. CASE AcquireVmLock(c)
  <2>1. op[c] \in AllOps \ {"delete"}
    BY <1>4, ConstantsAssumption DEF AcquireVmLock, CommandInv
  <2>2. pc'[c] \in LockedLabels \ {"disk_work", "delete_files", "start_prepare"}
    BY <1>4, <2>1
       DEF AcquireVmLock, Goto, AllOps, FirstStep, LockedLabels, StartLabels, StopLabels, DiskLabels
  <2>3. \A d \in Clients : ~Critical(d)
    BY <1>4, ConstantsAssumption DEF AcquireVmLock, LockInv
  <2>4. \A d \in Clients : ~DiskInUse(d) /\ ~DiskInUse(d)'
    BY <1>2, <2>2, <2>3 DEF Critical, DiskInUse, LockedLabels, StartLabels, DiskLabels
  <2>5. Owner = NoClient /\ Owner' = c /\ Worker = NoClient /\ Worker' = NoClient
    BY <2>2, <2>3, <2>4 DEF MappedClients, Critical
  <2>6. Abstract!Acquire(c)
    BY <1>1, <2>5 DEF Abstract!Acquire
  <2>7. QED
    BY <2>6 DEF AbstractStep, Abstract!Next
<1>5. QED
  BY <1>3, <1>4

\* A crash gives the VM up as the end of the command does, and what the client had
\* not recorded yet is no longer known; QEMU may end at any time.
LEMMA MappedEnvironment ==
    ASSUME IInv, MappedClients, MappedClients',
           \/ \E c \in Clients : ClientCrash(c)
           \/ \E n \in Launches : QemuExit(n)
           \/ \E h \in Helpers, n \in Launches : HelperExit(h, n)
           \/ UNCHANGED vars
    PROVE  AbstractStep
<1> USE DEF IInv, LockIInv, TypeOK, ClientTypeOK, ProcsTypeOK, Kinds, Helpers
<1>1. ASSUME NEW c \in Clients, ClientCrash(c), Critical(c)
      PROVE  AbstractStep
  <2>1. Known' \subseteq Known
    BY <1>1 DEF ClientCrash, Known, AliveQemus, Alive
  <2>2. QED
    BY <1>1, <2>1, MappedReturn DEF ClientCrash
<1>2. ASSUME NEW c \in Clients, ClientCrash(c), ~Critical(c)
      PROVE  AbstractStep
  <2>1. pc[c] # "qemu_record" /\ ~DiskInUse(c)
    BY <1>2 DEF Critical, DiskInUse, LockedLabels, StartLabels, DiskLabels
  <2>2. orphans'["qemu"] = orphans["qemu"] /\ qemu' = qemu
    BY <1>2, <2>1 DEF ClientCrash, At, RecordLabel
  <2>3. Known' = Known
    BY <2>2 DEF Known, AliveQemus, Alive
  <2>4. \A d \in Clients : pc'[d] = IF d = c THEN "idle" ELSE pc[d]
    BY <1>2 DEF ClientCrash, Return
  <2>5. \A d \in Clients : /\ Critical(d)' <=> Critical(d)
                           /\ DiskInUse(d)' <=> DiskInUse(d)
    BY <1>2, <2>1, <2>4 DEF Critical, DiskInUse, LockedLabels, StartLabels, StopLabels, DiskLabels
  <2>6. QED
    BY <2>3, <2>5, MappedStutter DEF AbstractStep
<1>3. ASSUME UNCHANGED client
      PROVE  /\ Owner' = Owner /\ Worker' = Worker
             /\ \A d \in Clients : /\ Critical(d)' <=> Critical(d)
                                   /\ DiskInUse(d)' <=> DiskInUse(d)
  BY <1>3 DEF client, Owner, Worker, Critical, DiskInUse
<1>4. ASSUME NEW n \in Launches, QemuExit(n), n \in Known
      PROVE  AbstractStep
  <2>1. Known' = Known \ {n}
    BY <1>4 DEF QemuExit, Known, AliveQemus, Alive
  <2>2. Abstract!Exit(n)
    BY <1>3, <1>4, <2>1 DEF QemuExit, Abstract!Exit
  <2>3. QED
    BY <2>2 DEF AbstractStep, Abstract!Next
<1>5. ASSUME NEW n \in Launches, QemuExit(n), n \notin Known
      PROVE  AbstractStep
  <2>1. Known' = Known
    BY <1>5 DEF QemuExit, Known, AliveQemus, Alive
  <2>2. QED
    BY <1>3, <1>5, <2>1, MappedStutter DEF QemuExit, AbstractStep
<1>6. ASSUME NEW h \in Helpers, NEW n \in Launches, HelperExit(h, n)
      PROVE  AbstractStep
  <2>1. Known' = Known
    BY <1>6 DEF HelperExit, Known, AliveQemus, Alive
  <2>2. QED
    BY <1>3, <1>6, <2>1, MappedStutter DEF HelperExit, AbstractStep
<1>7. CASE UNCHANGED vars
  <2>1. Known' = Known
    BY <1>7 DEF vars, procs, Known, AliveQemus, Alive
  <2>2. QED
    BY <1>3, <1>7, <2>1, MappedStutter DEF vars, AbstractStep
<1>8. QED
  BY <1>1, <1>2, <1>4, <1>5, <1>6, <1>7

\* Every behaviour of VmLifecycle is one of AbstractVm: whatever the interleaving and
\* the crashes, commands change the VM one at a time, QEMU comes up only where none
\* is known and nobody works on the disk, and the disk is worked on only then.
THEOREM VmLifecycleRefinesAbstractVm ==
    ASSUME "delete" \notin Ops, "slow_exit" \notin Faults, "kill_fails" \notin Faults
    PROVE  Spec => ImplementsAbstractVm
<1>1. Init /\ MappedClients => Abstract!Init
  <2> SUFFICES ASSUME Init, MappedClients PROVE Abstract!Init
    OBVIOUS
  <2>1. \A c \in Clients : ~Critical(c) /\ ~DiskInUse(c)
    BY DEF Init, Critical, DiskInUse, LockedLabels, StartLabels, StopLabels, DiskLabels
  <2>2. Known = {}
    BY DEF Init, Known, AliveQemus, Alive
  <2>3. QED
    BY <2>1, <2>2 DEF MappedClients, Abstract!Init
<1>2. IInv /\ MappedClients /\ MappedClients' /\ [Next]_vars => [Abstract!Next]_(Abstract!vars)
  <2> SUFFICES ASSUME IInv, MappedClients, MappedClients', [Next]_vars
               PROVE  AbstractStep
    BY DEF AbstractStep
  <2>1. QED
    BY MappedStart, MappedStop, MappedFile, MappedLock, MappedEnvironment DEF Next, ClientStep
<1>3. IInv => MappedClients
  BY MappedInv DEF IInv
<1>4. QED
  BY <1>1, <1>2, <1>3, ProcessInvariance, PTL DEF Spec, ImplementsAbstractVm, Abstract!Spec

\* Every client is at a step of a command, and the files and processes are those of
\* launches that there can be, whatever the commands and the faults.
THEOREM LifecycleTypeCorrect == Spec => []TypeOK
<1>1. Init => TypeOK /\ CommandInv
  BY InitLock DEF LockIInv
<1>2. TypeOK /\ CommandInv /\ [Next]_vars => TypeOK' /\ CommandInv'
  BY NextTypes
<1>3. QED
  BY <1>1, <1>2, PTL DEF Spec

=============================================================================
