------------------------ MODULE VmLifecycleInvariant ------------------------
(***************************************************************************)
(* The inductive invariant of VmLifecycle.  MutualExclusion, AtMostOneQemu *)
(* and the rest speak of a moment; what keeps them true from one step to   *)
(* the next is what each client knows at each step of its command: which   *)
(* lock file it holds, what vm.pid says, and that its launch is its own.   *)
(***************************************************************************)
EXTENDS VmLifecycleRefinement

StartOps == {"start", "restart", "restart_force"}

\* Between Vm::state and the removal of the records.
SeenLabels ==
    {"stop_request", "stop_kill", "stop_wait", "force_kill", "force_wait",
     "remove_runtime", "guest_request", "guest_exit"}

\* Between the removal of an old vm.pid and the writing of the new one.
BringUpLabels ==
    {"start_prepare", "virtiofsd_spawn", "virtiofsd_record", "swtpm_spawn",
     "swtpm_record", "ipc_check", "qemu_spawn", "qemu_record"}

\* After the writing of vm.pid, while the start can still be undone.
WatchLabels == {"early_exit", "post_start", "undo_kill", "undo_wait"}

\* Where a client's launch has been brought up or given up.
LaunchedLabels == {"qemu_record", "guest_wait"} \cup WatchLabels

DeleteLabels == {"delete_check", "delete_files", "delete_state_dir"}

\* Control: what a client is at fits its command, and it has the launch and the
\* QEMU that the steps ahead refer to.
CommandInv ==
    \A c \in Clients :
        /\ pc[c] # "idle" => op[c] \in Ops
        /\ op[c] \in StartOps => launch[c] \in Launches
        /\ pc[c] \in StartLabels => op[c] \in StartOps
        /\ pc[c] \in SeenLabels => seen[c] \in Launches

\* No command takes the lock file away.
NoneDeletes == \A c \in Clients : pc[c] \notin DeleteLabels

\* The lock: a client in its command holds the flock of the file that is in the
\* state directory, and nobody else does.
LockInv ==
    /\ \A c \in Clients : Critical(c) => holds[c] = lockFile /\ lockFile \in Inodes
    /\ \A c, d \in Clients : holds[c] = holds[d] /\ holds[c] \in Inodes => c = d

\* A launch belongs to one client, is no orphan while the client lives, and has
\* no process before that client spawns it.
LaunchInv ==
    /\ \A c, d \in Clients : launch[c] = launch[d] /\ launch[c] \in Launches => c = d
    /\ \A c \in Clients : launch[c] \in Launches =>
        /\ launch[c] \notin orphans["qemu"]
        /\ pc[c] \notin LaunchedLabels => qemu[launch[c]] = "none"

\* vm.pid at each step of a command.
PidFileInv ==
    \A c \in Clients :
        /\ pc[c] \in BringUpLabels => pidFile = NoLaunch
        /\ pc[c] \in WatchLabels => pidFile = launch[c]
        /\ pc[c] = "undo_wait" => qemu[launch[c]] # "live"
        /\ pc[c] \in SeenLabels => pidFile = seen[c]
        /\ pc[c] = "force_wait" => qemu[seen[c]] # "live"
        /\ pc[c] = "remove_runtime" => qemu[seen[c]] = "none"
        /\ pc[c] = "disk_work" => Stopped

OrphanInv == orphans["qemu"] \subseteq AliveQemus

LockIInv == TypeOK /\ CommandInv /\ NoneDeletes /\ LockInv

IInv == LockIInv /\ LaunchInv /\ PidFileInv /\ OrphanInv /\ RunningIsRecorded

\* Before a helper is recorded, the record of an earlier one is gone.
HelperFileInv ==
    \A c \in Clients :
        /\ pc[c] \in {"start_prepare", "virtiofsd_spawn", "virtiofsd_record"} =>
             helperFile["virtiofsd"] = NoLaunch
        /\ pc[c] \in {"start_prepare", "virtiofsd_spawn", "virtiofsd_record", "swtpm_spawn",
                      "swtpm_record"} =>
             helperFile["swtpm"] = NoLaunch

HelperInv == HelperFileInv /\ HelpersAreRecorded

=============================================================================
