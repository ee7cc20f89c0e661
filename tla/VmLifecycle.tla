----------------------------- MODULE VmLifecycle -----------------------------
(***************************************************************************)
(* The life of one VM under concurrent vmctl processes: the operation lock *)
(* in its state directory, start, stop, restart, kill, guest shutdown,     *)
(* stopped-disk work and delete-vm, QEMU and its helper processes, their   *)
(* PID records, and vmctl processes that die half way.                     *)
(*                                                                         *)
(* A launch is one attempt of `start` to bring QEMU up; it names the QEMU  *)
(* process and the helper processes of that attempt.  A PID record holds a *)
(* launch: PID and start time identify a process (module ProcessSignals    *)
(* shows how far that carries when PIDs are reused).                       *)
(***************************************************************************)
EXTENDS Naturals, FiniteSets

CONSTANTS
    Clients,    \* vmctl processes
    Launches,   \* attempts to launch QEMU that something still refers to
    Inodes,     \* incarnations of the file operation.lock
    NoLaunch, NoInode,
    Wanted,     \* the helper processes the VM's configuration asks for
    Ops,        \* the commands the clients give
    Faults      \* what the environment may do beyond the ordinary

Helpers == {"swtpm", "virtiofsd"}

Kinds == {"qemu"} \cup Helpers

AllOps == {"start", "stop", "stop_force", "restart", "restart_force", "kill",
           "guest_shutdown", "disk", "delete"}

\* client_crash: a vmctl process dies between two steps; kill_fails: a signal
\* cannot be sent; slow_exit: a process outlives SIGKILL by more than the
\* two seconds that vmctl waits for it.
AllFaults == {"client_crash", "kill_fails", "slow_exit"}

ASSUME ConstantsAssumption ==
    /\ NoLaunch \notin Launches
    /\ NoInode \notin Inodes
    /\ Wanted \subseteq Helpers
    /\ Ops \subseteq AllOps
    /\ Faults \subseteq AllFaults

VARIABLES
    pc,         \* where each client is in its command
    op,         \* the command it carries out
    launch,     \* the launch it is to bring up, for start and restart
    seen,       \* the QEMU it found running, Vm::state
    holds,      \* the lock file it holds the flock of
    lockFile,   \* the incarnation of operation.lock in the state directory
    stateDir,   \* whether the state directory exists
    config,     \* whether the VM's .conf exists
    pidFile,    \* vm.pid
    helperFile, \* swtpm.pid and virtiofsd.pid
    sockets,    \* whether a runtime socket or ipc.json is left
    qemu,       \* the QEMU processes
    helper,     \* the helper processes
    orphans     \* processes whose client died before it recorded them (auxiliary)

client == <<pc, op, launch, seen, holds>>
files == <<lockFile, stateDir, config, pidFile, helperFile, sockets>>
procs == <<qemu, helper, orphans>>
vars == <<client, files, procs>>

Alive(n) == qemu[n] # "none"

AliveQemus == {n \in Launches : Alive(n)}

LiveOf(k) == IF k = "qemu" THEN AliveQemus ELSE helper[k]

Free(n) ==
    /\ qemu[n] = "none"
    /\ pidFile # n
    /\ \A h \in Helpers : helperFile[h] # n /\ n \notin helper[h]
    /\ \A c \in Clients : launch[c] # n /\ seen[c] # n

\* Vm::state: Running(n) when the record names a live QEMU of this VM.
Running(n) == n \in Launches /\ pidFile = n /\ Alive(n)

Stopped == \A n \in Launches : ~Running(n)

\* wait_for_exit gives up while the process is there.  A killed process is
\* gone by the end of the wait, unless its exit is slow.
MayTimeOut(n) ==
    \/ qemu[n] = "live"
    \/ qemu[n] = "dying" /\ "slow_exit" \in Faults

Init ==
    /\ pc = [c \in Clients |-> "idle"]
    /\ op = [c \in Clients |-> "none"]
    /\ launch = [c \in Clients |-> NoLaunch]
    /\ seen = [c \in Clients |-> NoLaunch]
    /\ holds = [c \in Clients |-> NoInode]
    /\ lockFile = NoInode
    /\ stateDir = FALSE
    /\ config = TRUE
    /\ pidFile = NoLaunch
    /\ helperFile = [h \in Helpers |-> NoLaunch]
    /\ sockets = FALSE
    /\ qemu = [n \in Launches |-> "none"]
    /\ helper = [h \in Helpers |-> {}]
    /\ orphans = [k \in Kinds |-> {}]

-----------------------------------------------------------------------------
(* Steps that several commands share.                                      *)

At(c, label) == pc[c] = label

Goto(c, label) == pc' = [pc EXCEPT ![c] = label]

\* The command returns, with success or with an error; FileLock::drop.
Return(c) ==
    /\ pc' = [pc EXCEPT ![c] = "idle"]
    /\ op' = [op EXCEPT ![c] = "none"]
    /\ launch' = [launch EXCEPT ![c] = NoLaunch]
    /\ seen' = [seen EXCEPT ![c] = NoLaunch]
    /\ holds' = [holds EXCEPT ![c] = NoInode]

Step(c, label) == Goto(c, label) /\ UNCHANGED <<op, launch, seen, holds>>

StepSeen(c, label, n) ==
    /\ Goto(c, label)
    /\ seen' = [seen EXCEPT ![c] = n]
    /\ UNCHANGED <<op, launch, holds>>

\* stop_tpm, stop_virtiofsd: kill the recorded process, ignoring a failure to,
\* and remove the record.
StopHelpers(hs) ==
    /\ \/ helper' = [h \in Helpers |-> IF h \in hs THEN helper[h] \ {helperFile[h]}
                                                   ELSE helper[h]]
       \/ "kill_fails" \in Faults /\ helper' = helper
    /\ helperFile' = [h \in Helpers |-> IF h \in hs THEN NoLaunch ELSE helperFile[h]]

\* Mutant: the helpers are forgotten.
RemoveRuntime_KeepsHelpers ==
    /\ pidFile' = NoLaunch
    /\ sockets' = FALSE
    /\ UNCHANGED <<helper, helperFile>>

\* What every command does once QEMU is gone: remove vm.pid, stop the
\* helpers, remove the runtime sockets: under the lock, and taken as one step.
RemoveRuntime ==
    /\ pidFile' = NoLaunch
    /\ StopHelpers(Helpers)
    /\ sockets' = FALSE

-----------------------------------------------------------------------------
(* The lock.                                                               *)

\* `find` reads the configuration before the lock is taken.
Begin(c) ==
    /\ At(c, "idle")
    /\ config
    /\ \E o \in Ops :
        /\ op' = [op EXCEPT ![c] = o]
        /\ IF o \in {"start", "restart", "restart_force"}
           THEN \E n \in Launches : Free(n) /\ launch' = [launch EXCEPT ![c] = n]
           ELSE UNCHANGED launch
    /\ Goto(c, "lock")
    /\ UNCHANGED <<seen, holds, files, procs>>

FirstStep ==
    [start |-> "start_check", stop |-> "stop_check", stop_force |-> "stop_check",
     restart |-> "restart_preflight", restart_force |-> "restart_preflight",
     kill |-> "kill_check", guest_shutdown |-> "guest_check",
     disk |-> "disk_check", delete |-> "delete_check"]

\* Mutant: the file is opened, and its flock never asked for.
AcquireVmLock_OpenOnly(c) ==
    /\ At(c, "lock")
    /\ \E i \in Inodes :
        /\ lockFile \in {NoInode, i}
        /\ holds' = [holds EXCEPT ![c] = i]
        /\ lockFile' = i
    /\ stateDir' = TRUE
    /\ Goto(c, FirstStep[op[c]])
    /\ UNCHANGED <<op, launch, seen, config, pidFile, helperFile, sockets, procs>>

\* acquire_vm_lock: create the state directory and the lock file where they are
\* missing, and take the flock of the file that is there now.
AcquireVmLock(c) ==
    /\ At(c, "lock")
    /\ \E i \in Inodes :
        /\ lockFile \in {NoInode, i}
        /\ \A d \in Clients : holds[d] # i
        /\ holds' = [holds EXCEPT ![c] = i]
        /\ lockFile' = i
    /\ stateDir' = TRUE
    /\ Goto(c, FirstStep[op[c]])
    /\ UNCHANGED <<op, launch, seen, config, pidFile, helperFile, sockets, procs>>

\* try_lock_file answers WouldBlock: another vmctl operation is at work.
LockBusy(c) ==
    /\ At(c, "lock")
    /\ lockFile # NoInode
    /\ \E d \in Clients : holds[d] = lockFile
    /\ Return(c)
    /\ UNCHANGED <<files, procs>>

-----------------------------------------------------------------------------
(* start.                                                                  *)

\* Mutant: start takes vm.pid for left over without asking Vm::state.
StartCheck_Unchecked(c) ==
    /\ At(c, "start_check")
    /\ stateDir' = TRUE
    /\ RemoveRuntime
    /\ Step(c, "start_prepare")
    /\ UNCHANGED <<lockFile, config, qemu, orphans>>

\* Vm::state, then the removal of whatever an earlier launch left.
StartCheck(c) ==
    /\ At(c, "start_check")
    /\ \/ /\ \E n \in Launches : Running(n)
          /\ Step(c, "guest_wait")
          /\ UNCHANGED files
          /\ UNCHANGED procs
       \/ /\ Stopped
          /\ stateDir' = TRUE
          /\ RemoveRuntime
          /\ Step(c, "start_prepare")
          /\ UNCHANGED <<lockFile, config, qemu, orphans>>

\* preflight_vm, ensure_disk, the log, the plan and write_runtime_files, which
\* writes ipc.json last.
StartPrepare(c) ==
    /\ At(c, "start_prepare")
    /\ \/ /\ stateDir
          /\ sockets' = TRUE
          /\ Step(c, "virtiofsd_spawn")
       \/ /\ Return(c)
          /\ UNCHANGED sockets
    /\ UNCHANGED <<lockFile, stateDir, config, pidFile, helperFile, procs>>

\* Without virtiofsd the plan falls back to 9p and the runtime files are
\* written again; when that fails the command returns as it is.
FallBackTo9p(c) ==
    \/ /\ stateDir' = TRUE
       /\ sockets' = TRUE
       /\ Step(c, "swtpm_spawn")
    \/ /\ Return(c)
       /\ UNCHANGED <<stateDir, sockets>>

RecordLabel ==
    [qemu |-> "qemu_record", swtpm |-> "swtpm_record", virtiofsd |-> "virtiofsd_record"]

SpawnHelper(c, h) == helper' = [helper EXCEPT ![h] = @ \cup {launch[c]}]

RecordHelper(c, h) ==
    /\ stateDir
    /\ helperFile' = [helperFile EXCEPT ![h] = launch[c]]
    /\ UNCHANGED helper

\* Mutant: the record is dropped and the child forgotten.
DiscardHelper_KeepsProcess(c, h) ==
    /\ helperFile' = [helperFile EXCEPT ![h] = NoLaunch]
    /\ UNCHANGED helper

\* The process handle is still at hand: Child::kill and wait.
DiscardHelper(c, h) ==
    /\ helper' = [helper EXCEPT ![h] = @ \ {launch[c]}]
    /\ helperFile' = [helperFile EXCEPT ![h] = NoLaunch]

StartVirtiofsd(c) ==
    /\ At(c, "virtiofsd_spawn")
    /\ \/ /\ "virtiofsd" \notin Wanted
          /\ Step(c, "swtpm_spawn")
          /\ UNCHANGED <<stateDir, sockets, helper>>
       \/ /\ "virtiofsd" \in Wanted
          /\ FallBackTo9p(c)
          /\ UNCHANGED helper
       \/ /\ "virtiofsd" \in Wanted
          /\ stateDir
          /\ SpawnHelper(c, "virtiofsd")
          /\ Step(c, "virtiofsd_record")
          /\ UNCHANGED <<stateDir, sockets>>
    /\ UNCHANGED <<lockFile, config, pidFile, helperFile, qemu, orphans>>

\* Write virtiofsd.pid and wait for the socket.
RecordVirtiofsd(c) ==
    /\ At(c, "virtiofsd_record")
    /\ \/ /\ RecordHelper(c, "virtiofsd")
          /\ Step(c, "swtpm_spawn")
          /\ UNCHANGED <<stateDir, sockets>>
       \/ /\ DiscardHelper(c, "virtiofsd")
          /\ FallBackTo9p(c)
    /\ UNCHANGED <<lockFile, config, pidFile, qemu, orphans>>

StartTpm(c) ==
    /\ At(c, "swtpm_spawn")
    /\ \/ /\ "swtpm" \notin Wanted
          /\ Step(c, "ipc_check")
          /\ UNCHANGED <<stateDir, helperFile, helper>>
       \/ /\ "swtpm" \in Wanted
          /\ stateDir' = TRUE
          /\ SpawnHelper(c, "swtpm")
          /\ Step(c, "swtpm_record")
          /\ UNCHANGED helperFile
       \/ /\ "swtpm" \in Wanted
          /\ StopHelpers({"virtiofsd"})
          /\ Return(c)
          /\ UNCHANGED stateDir
    /\ UNCHANGED <<lockFile, config, pidFile, sockets, qemu, orphans>>

\* Write swtpm.pid and wait for the socket; a TPM that is not ready is killed
\* and fails the start.
RecordTpm(c) ==
    /\ At(c, "swtpm_record")
    /\ \/ /\ RecordHelper(c, "swtpm")
          /\ Step(c, "ipc_check")
       \/ /\ helper' = [h \in Helpers |-> IF h = "swtpm" THEN helper[h] \ {launch[c]}
                                          ELSE helper[h] \ {helperFile[h]}]
          /\ helperFile' = [h \in Helpers |-> NoLaunch]
          /\ Return(c)
    /\ UNCHANGED <<lockFile, stateDir, config, pidFile, sockets, qemu, orphans>>

\* ensure_ipc_endpoints_available.
CheckIpcEndpoints(c) ==
    /\ At(c, "ipc_check")
    /\ \/ /\ Step(c, "qemu_spawn")
          /\ UNCHANGED <<helperFile, sockets, helper>>
       \/ /\ StopHelpers(Helpers)
          /\ sockets' = FALSE
          /\ Return(c)
    /\ UNCHANGED <<lockFile, stateDir, config, pidFile, qemu, orphans>>

\* A spawn that fails leaves ipc.json behind.
SpawnQemu(c) ==
    /\ At(c, "qemu_spawn")
    /\ \/ /\ qemu' = [qemu EXCEPT ![launch[c]] = "live"]
          /\ Step(c, "qemu_record")
          /\ UNCHANGED <<helperFile, helper>>
       \/ /\ StopHelpers(Helpers)
          /\ Return(c)
          /\ UNCHANGED qemu
    /\ UNCHANGED <<lockFile, stateDir, config, pidFile, sockets, orphans>>

\* Mutant: when vm.pid cannot be written, QEMU is left running.
WritePid_KeepsChild(c) ==
    /\ At(c, "qemu_record")
    /\ \/ /\ stateDir
          /\ pidFile' = launch[c]
          /\ Step(c, "early_exit")
          /\ UNCHANGED <<helperFile, sockets, helper>>
       \/ /\ StopHelpers(Helpers)
          /\ sockets' = FALSE
          /\ Return(c)
          /\ UNCHANGED pidFile
    /\ UNCHANGED <<lockFile, stateDir, config, qemu, orphans>>

\* write_pid, or Child::kill and wait where the record cannot be written.
WritePid(c) ==
    /\ At(c, "qemu_record")
    /\ \/ /\ stateDir
          /\ pidFile' = launch[c]
          /\ Step(c, "early_exit")
          /\ UNCHANGED <<helperFile, sockets, qemu, helper>>
       \/ /\ qemu' = [qemu EXCEPT ![launch[c]] = "none"]
          /\ StopHelpers(Helpers)
          /\ sockets' = FALSE
          /\ Return(c)
          /\ UNCHANGED pidFile
    /\ UNCHANGED <<lockFile, stateDir, config, orphans>>

\* QEMU has two seconds in which to give up.
EarlyExit(c) ==
    /\ At(c, "early_exit")
    /\ \/ /\ Alive(launch[c])
          /\ Step(c, "post_start")
          /\ UNCHANGED <<pidFile, helperFile, sockets, helper>>
       \/ /\ ~Alive(launch[c])
          /\ RemoveRuntime
          /\ Return(c)
    /\ UNCHANGED <<lockFile, stateDir, config, qemu, orphans>>

\* apply_cpu_pinning and monitor_cmd; a failure undoes the launch.
PostStart(c) ==
    /\ At(c, "post_start")
    /\ Step(c, "guest_wait") \/ Step(c, "undo_kill")
    /\ UNCHANGED <<files, procs>>

\* Mutant: the killed process is never reaped.
Signal_Zombie(n) ==
    /\ pidFile = n
    /\ qemu' = [qemu EXCEPT ![n] = IF @ = "live" THEN "zombie" ELSE @]

\* kill_process: SIGKILL for the QEMU that vm.pid records.
Signal(n) ==
    /\ pidFile = n
    /\ qemu' = [qemu EXCEPT ![n] = IF @ = "live" THEN "dying" ELSE @]

RefuseSignal(n) ==
    /\ pidFile # n \/ "kill_fails" \in Faults
    /\ UNCHANGED qemu

\* The undo ignores a kill that is refused and a wait that times out.
UndoKill(c) ==
    /\ At(c, "undo_kill")
    /\ Signal(launch[c]) \/ RefuseSignal(launch[c])
    /\ Step(c, "undo_wait")
    /\ UNCHANGED <<files, helper, orphans>>

UndoWait(c) ==
    /\ At(c, "undo_wait")
    /\ ~Alive(launch[c]) \/ MayTimeOut(launch[c])
    /\ RemoveRuntime
    /\ Return(c)
    /\ UNCHANGED <<lockFile, stateDir, config, qemu, orphans>>

\* The viewer, and the optional wait for SSH or cloud-init, under the lock: whichever way
\* that ends, its deadline included, the command returns and has changed nothing.
GuestWait(c) ==
    /\ At(c, "guest_wait")
    /\ Return(c)
    /\ UNCHANGED <<files, procs>>

-----------------------------------------------------------------------------
(* stop, restart, kill and guest shutdown.                                 *)

Forced(c) == op[c] \in {"stop_force", "restart_force"}

\* restart goes on to start; the other commands return.
AfterStop(c) ==
    IF op[c] \in {"restart", "restart_force"}
    THEN StepSeen(c, "start_check", NoLaunch)
    ELSE Return(c)

RestartPreflight(c) ==
    /\ At(c, "restart_preflight")
    /\ Step(c, "stop_check") \/ Return(c)
    /\ UNCHANGED <<files, procs>>

StopCheck(c) ==
    /\ At(c, "stop_check")
    /\ \/ /\ \E n \in Launches : Running(n) /\ StepSeen(c, "stop_request", n)
          /\ UNCHANGED <<pidFile, helperFile, sockets, helper>>
       \/ /\ Stopped
          /\ RemoveRuntime
          /\ AfterStop(c)
    /\ UNCHANGED <<lockFile, stateDir, config, qemu, orphans>>

\* Mutant: --force does not help where QMP does not answer.
RequestShutdown_GivesUp(c) ==
    /\ At(c, "stop_request")
    /\ (sockets /\ Alive(seen[c]) /\ Step(c, "stop_wait")) \/ Return(c)
    /\ UNCHANGED <<files, procs>>

\* shutdown_via_qmp.
RequestShutdown(c) ==
    /\ At(c, "stop_request")
    /\ \/ sockets /\ Alive(seen[c]) /\ Step(c, "stop_wait")
       \/ Forced(c) /\ Step(c, "stop_kill")
       \/ ~Forced(c) /\ Return(c)
    /\ UNCHANGED <<files, procs>>

KillAndWait(c, from, to) ==
    /\ At(c, from)
    /\ \/ Signal(seen[c]) /\ Step(c, to)
       \/ RefuseSignal(seen[c]) /\ Return(c)
    /\ UNCHANGED <<files, helper, orphans>>

\* QMP failed and --force was given.
StopKill(c) == KillAndWait(c, "stop_kill", "stop_wait")

\* The wait for the guest timed out and --force was given; and kill.
ForceKill(c) == KillAndWait(c, "force_kill", "force_wait")

\* Mutant: the wait for the guest has no timeout.
StopWait_Unbounded(c) ==
    /\ At(c, "stop_wait")
    /\ ~Alive(seen[c])
    /\ Step(c, "remove_runtime")
    /\ UNCHANGED <<files, procs>>

\* (A look for QEMU that cannot be made, which process_matches takes for its end, is left
\* out.)
StopWait(c) ==
    /\ At(c, "stop_wait")
    /\ \/ ~Alive(seen[c]) /\ Step(c, "remove_runtime")
       \/ MayTimeOut(seen[c]) /\ Forced(c) /\ Step(c, "force_kill")
       \/ MayTimeOut(seen[c]) /\ ~Forced(c) /\ Return(c)
    /\ UNCHANGED <<files, procs>>

\* Mutant: the records are removed without waiting for QEMU to end.
ForceWait_Unwaited(c) ==
    /\ At(c, "force_wait")
    /\ Step(c, "remove_runtime")
    /\ UNCHANGED <<files, procs>>

ForceWait(c) ==
    /\ At(c, "force_wait")
    /\ \/ ~Alive(seen[c]) /\ Step(c, "remove_runtime")
       \/ MayTimeOut(seen[c]) /\ Return(c)
    /\ UNCHANGED <<files, procs>>

FinishStop(c) ==
    /\ At(c, "remove_runtime")
    /\ RemoveRuntime
    /\ AfterStop(c)
    /\ UNCHANGED <<lockFile, stateDir, config, qemu, orphans>>

KillCheck(c) ==
    /\ At(c, "kill_check")
    /\ \/ \E n \in Launches : Running(n) /\ StepSeen(c, "force_kill", n)
       \/ Stopped /\ Return(c)
    /\ UNCHANGED <<files, procs>>

GuestCheck(c) ==
    /\ At(c, "guest_check")
    /\ \/ \E n \in Launches : Running(n) /\ StepSeen(c, "guest_request", n)
       \/ Stopped /\ Return(c)
    /\ UNCHANGED <<files, procs>>

\* guest_shutdown.
GuestRequest(c) ==
    /\ At(c, "guest_request")
    /\ \/ sockets /\ Alive(seen[c]) /\ Step(c, "guest_exit")
       \/ Return(c)
    /\ UNCHANGED <<files, procs>>

GuestExit(c) ==
    /\ At(c, "guest_exit")
    /\ IF Alive(seen[c]) THEN Return(c) ELSE Step(c, "remove_runtime")
    /\ UNCHANGED <<files, procs>>

-----------------------------------------------------------------------------
(* Work on a stopped disk, and delete-vm.                                  *)

\* Mutant: only the lock keeps QEMU away from the disk.
DiskCheck_LockOnly(c) ==
    /\ At(c, "disk_check")
    /\ Step(c, "disk_work")
    /\ UNCHANGED <<files, procs>>

\* require_stopped_disk.
DiskCheck(c) ==
    /\ At(c, "disk_check")
    /\ IF Stopped THEN Step(c, "disk_work") ELSE Return(c)
    /\ UNCHANGED <<files, procs>>

DiskWork(c) ==
    /\ At(c, "disk_work")
    /\ Return(c)
    /\ UNCHANGED <<files, procs>>

DeleteCheck(c) ==
    /\ At(c, "delete_check")
    /\ \/ Stopped /\ Step(c, "delete_files")
       \/ Return(c)
    /\ UNCHANGED <<files, procs>>

\* Disk, UEFI variables and data go first and the configuration last; then the
\* lock is dropped, before the state directory is removed.
DeleteFiles(c) ==
    /\ At(c, "delete_files")
    /\ \/ /\ Return(c)
          /\ UNCHANGED config
       \/ /\ config' = FALSE
          /\ holds' = [holds EXCEPT ![c] = NoInode]
          /\ Goto(c, "delete_state_dir")
          /\ UNCHANGED <<op, launch, seen>>
    /\ UNCHANGED <<lockFile, stateDir, pidFile, helperFile, sockets, procs>>

DeleteStateDir(c) ==
    /\ At(c, "delete_state_dir")
    /\ stateDir' = FALSE
    /\ lockFile' = NoInode
    /\ pidFile' = NoLaunch
    /\ helperFile' = [h \in Helpers |-> NoLaunch]
    /\ sockets' = FALSE
    /\ Return(c)
    /\ UNCHANGED <<config, procs>>

-----------------------------------------------------------------------------
(* The environment.                                                        *)

\* QEMU ends: the guest shut down, QEMU failed, or the signal took effect.
QemuExit(n) ==
    /\ Alive(n)
    /\ qemu' = [qemu EXCEPT ![n] = "none"]
    /\ orphans' = [orphans EXCEPT !["qemu"] = @ \ {n}]
    /\ UNCHANGED <<client, files, helper>>

HelperExit(h, n) ==
    /\ n \in helper[h]
    /\ helper' = [helper EXCEPT ![h] = @ \ {n}]
    /\ orphans' = [orphans EXCEPT ![h] = @ \ {n}]
    /\ UNCHANGED <<client, files, qemu>>

\* The kernel releases the flock; the processes stay.
ClientCrash(c) ==
    /\ "client_crash" \in Faults
    /\ ~At(c, "idle")
    /\ Return(c)
    /\ orphans' = [k \in Kinds |->
                     IF At(c, RecordLabel[k]) /\ launch[c] \in LiveOf(k)
                     THEN orphans[k] \cup {launch[c]} ELSE orphans[k]]
    /\ UNCHANGED <<files, qemu, helper>>

-----------------------------------------------------------------------------

StartStep(c) ==
    \/ StartCheck(c) \/ StartPrepare(c) \/ StartVirtiofsd(c) \/ RecordVirtiofsd(c)
    \/ StartTpm(c) \/ RecordTpm(c) \/ CheckIpcEndpoints(c) \/ SpawnQemu(c)
    \/ WritePid(c) \/ EarlyExit(c) \/ PostStart(c) \/ UndoKill(c) \/ UndoWait(c)
    \/ GuestWait(c)

StopStep(c) ==
    \/ RestartPreflight(c) \/ StopCheck(c) \/ RequestShutdown(c) \/ StopKill(c)
    \/ StopWait(c) \/ ForceKill(c) \/ ForceWait(c) \/ FinishStop(c)
    \/ KillCheck(c) \/ GuestCheck(c) \/ GuestRequest(c) \/ GuestExit(c)

FileStep(c) ==
    DiskCheck(c) \/ DiskWork(c) \/ DeleteCheck(c) \/ DeleteFiles(c) \/ DeleteStateDir(c)

\* A step of a command in progress.
ClientStep(c) ==
    AcquireVmLock(c) \/ LockBusy(c) \/ StartStep(c) \/ StopStep(c) \/ FileStep(c)

Next ==
    \/ \E c \in Clients : Begin(c) \/ ClientStep(c) \/ ClientCrash(c)
    \/ \E n \in Launches : QemuExit(n)
    \/ \E h \in Helpers, n \in Launches : HelperExit(h, n)

Spec == Init /\ [][Next]_vars

\* A vmctl process keeps running, every wait of it is bounded by a timeout, and
\* the kernel ends a process that was sent SIGKILL.  Nothing makes a user give
\* a command, and nothing makes a guest shut down.
Fairness ==
    /\ \A c \in Clients : WF_vars(ClientStep(c))
    /\ \A n \in Launches : WF_vars(qemu[n] = "dying" /\ QemuExit(n))

FairSpec == Spec /\ Fairness

-----------------------------------------------------------------------------
(* Properties.                                                             *)

StartLabels ==
    {"start_check", "start_prepare", "virtiofsd_spawn", "virtiofsd_record",
     "swtpm_spawn", "swtpm_record", "ipc_check", "qemu_spawn", "qemu_record",
     "early_exit", "post_start", "undo_kill", "undo_wait", "guest_wait"}

StopLabels ==
    {"restart_preflight", "stop_check", "stop_request", "stop_kill", "stop_wait",
     "force_kill", "force_wait", "remove_runtime", "kill_check", "guest_check",
     "guest_request", "guest_exit"}

DiskLabels == {"disk_check", "disk_work", "delete_check", "delete_files"}

LockedLabels == StartLabels \cup StopLabels \cup DiskLabels

Labels == LockedLabels \cup {"idle", "lock", "delete_state_dir"}

ClientTypeOK ==
    /\ pc \in [Clients -> Labels]
    /\ op \in [Clients -> Ops \cup {"none"}]
    /\ launch \in [Clients -> Launches \cup {NoLaunch}]
    /\ seen \in [Clients -> Launches \cup {NoLaunch}]
    /\ holds \in [Clients -> Inodes \cup {NoInode}]

FilesTypeOK ==
    /\ lockFile \in Inodes \cup {NoInode}
    /\ stateDir \in BOOLEAN
    /\ config \in BOOLEAN
    /\ pidFile \in Launches \cup {NoLaunch}
    /\ helperFile \in [Helpers -> Launches \cup {NoLaunch}]
    /\ sockets \in BOOLEAN

ProcsTypeOK ==
    /\ qemu \in [Launches -> {"none", "live", "dying"}]
    /\ helper \in [Helpers -> SUBSET Launches]
    /\ orphans \in [Kinds -> SUBSET Launches]

TypeOK == ClientTypeOK /\ FilesTypeOK /\ ProcsTypeOK

Critical(c) == pc[c] \in LockedLabels

\* The operation lock keeps commands on one VM apart: two clients are never both
\* past acquire_vm_lock and before the end of their command.
MutualExclusion ==
    \A c, d \in Clients : Critical(c) /\ Critical(d) => c = d

Known == AliveQemus \ orphans["qemu"]

\* The step between the spawn of QEMU and the writing of vm.pid.
Launching(n) == \E c \in Clients : At(c, "qemu_record") /\ launch[c] = n

\* Every QEMU process that is alive is the one vm.pid names, or about to be, so
\* that status, stop and kill find it.  The one exception is the process of a
\* vmctl that died between the spawn and write_pid.
RunningIsRecorded ==
    \A n \in Known : pidFile = n \/ Launching(n)

\* Two QEMU processes of one VM never run on its disk at the same time.
AtMostOneQemu ==
    \A m, n \in Known : m = n

\* Where a client reads or writes the disk image with qemu-img, or removes it.
DiskInUse(c) == pc[c] \in {"disk_work", "delete_files", "start_prepare"}

\* The checks of Vm::state stay true while a command works on the disk: no QEMU
\* has it open until the command is done with it.
DiskWorkWhileStopped ==
    \A c \in Clients : DiskInUse(c) => Known = {}

\* Every helper process alive is the one its PID file names, so that the next
\* stop or start ends it; the exception is that of RunningIsRecorded.
HelpersAreRecorded ==
    \A h \in Helpers : \A n \in helper[h] :
        \/ helperFile[h] = n
        \/ \E c \in Clients : At(c, RecordLabel[h]) /\ launch[c] = n
        \/ n \in orphans[h]

\* A stop, kill or guest shutdown that saw QEMU end leaves no socket, PID record,
\* helper process or QEMU process of the VM.
StopLeavesNothing ==
    [][\A c \in Clients :
         At(c, "remove_runtime") /\ pidFile # NoLaunch /\ pidFile' = NoLaunch =>
            /\ ~sockets'
            /\ \A h \in Helpers : helper'[h] \subseteq orphans[h]
            /\ Known' = {}]_vars

\* Every command comes to an end and gives up the lock.
CommandsEnd ==
    \A c \in Clients : ~At(c, "idle") ~> At(c, "idle")

\* stop --force and restart --force end the QEMU they found running, whether or
\* not QMP answers and the guest reacts.
ForceEndsQemu ==
    \A c \in Clients, n \in Launches :
        At(c, "stop_request") /\ Forced(c) /\ seen[c] = n ~> ~Alive(n)

=============================================================================
