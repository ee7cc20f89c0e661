# vmctl in TLA+

A model of `vmctl`, the command-line manager of QEMU virtual machines in this
repository: TLA+ modules for its stateful parts, TLC configurations that check
them on small instances, and theorems that TLAPS proves for every instance.
Source files are named relative to the repository root (`src/commands/...`).

`vmctl` has no daemon. Every command is a process of its own that reads files,
takes a lock, starts or signals processes, writes files and ends. All its state
is in the file system and in the process table, any number of commands may run
at once, and any of them may be killed between two steps. That is where its
hard behaviour is, and what the modules are about.

## 1. Inventory

| Part | State | Operations | Hard behaviour |
|---|---|---|---|
| Operation lock (`src/qemu.rs`) | `operation.lock` in the VM's state directory, and who has its flock | `acquire_vm_lock`, `FileLock::drop` | the file is removed with the directory by `delete-vm`; the kernel releases the flock of a dead process |
| VM lifecycle (`src/commands/lifecycle.rs`, `src/lib.rs`) | the QEMU process, `vm.pid`, sockets, `ipc.json` | `start`, `stop`, `restart`, `kill`, `guest shutdown` | a dozen error paths with their own clean-up; waits with timeouts; QEMU ends at any time |
| Helpers and records (`src/qemu/runtime.rs`, `src/qemu/qmp.rs`, `src/qemu/process.rs`) | swtpm, virtiofsd, their PID files | `start_tpm`, `start_virtiofsd`, `stop_*`, `kill_process` | PIDs are reused between a check and a signal; a crash between a spawn and its record |
| Disk files (`src/qemu/disk.rs`, `src/commands/storage.rs`, `src/commands/clone.rs`) | the disk, temporary files, `disk_size`, backup, clone | `set`, `disk resize/compact/...`, `reset`, `delete-disk`, `backup`, `clone` | several renames and qemu-img runs in a row, each of which can fail or be the last |
| Image cache (`src/get/cache.rs`, `src/commands/cache.rs`) | the object store, `index.json`, `download.lock` | `get`, `--refresh-cache`, `cache prune` | prune races those who are about to use an object; corrupt objects |
| VM creation (`src/get/download.rs`, `src/get/cloud.rs`, `src/get/macos.rs`, `src/get/io.rs`, `src/get/config_writer.rs`) | data directories, configurations, temporary files | `create`, `get --create-config`, `get --download` | races for a name; clean-up of what somebody else made; files that dead processes left |
| Configuration (`src/config.rs`, `src/config/parser.rs`, `src/commands/storage.rs`) | the `.conf` files | `find`, `discover`, `load_vm`, `set`, validation | read before the lock is taken; appends that are cut short |
| QMP and monitor (`src/qemu/qmp.rs`, `monitor.rs`) | one connection each | scripts of requests with identifiers and a deadline | events and late replies in between; bounded reads |
| Guest agent (`src/qemu/guest.rs`, `src/commands/guest.rs`) | one channel for all | sync, request, `guest exec` and its polls | what earlier clients have left on the channel; restarts of the agent |
| Listeners and endpoints (`src/qemu/runtime.rs`, `ipc.rs`, `plan.rs`, `src/commands/runtime.rs`) | `ports`, `ipc.json` | `listener_ports`, `ensure_ipc_endpoints_available`, `ssh`, `view` | ports are probed and given up before QEMU binds them; readers hold no lock |
| Command plan (`src/qemu.rs`, `plan.rs`, `devices.rs`, `display.rs`, `firmware.rs`, `network.rs`, `storage.rs`, `capabilities.rs`, `src/commands/launch.rs`) | `OVMF_VARS.fd`, `ipc.json` | `preflight_vm`, `detect`, `build_plan`, the plan without virtiofs | options chosen in different places need one another; what a restart finds out after it has stopped the VM |
| Doctor, reports, catalogue, resolver, command line | none of their own | read-only reports, URL tables, parsing | |

Commands interact through files only: the lock keeps commands on one VM apart,
the PID records tell a command which process an earlier one launched, the
configurations tell `cache prune` which objects are needed.

What makes the parts correct:

- *Lock and lifecycle.* Commands on one VM change it one at a time. A VM never
  has two QEMUs on its disk. A QEMU that runs can be found by the next command.
  Nobody works on the disk while QEMU runs. A stop leaves nothing behind.
  Every command ends; `--force` gets rid of QEMU.
- *Signals.* vmctl signals the process it recorded or nobody, and its answer is
  true.
- *Disk.* The guest's data is never lost through a failure or a crash, a broken
  or blank disk never takes the place of a good one, and what looks like a whole
  backup or clone is one.
- *Guest agent.* A client takes only the answer to its own request, whatever
  earlier clients have left on the channel; `guest exec` reports only what has
  happened; nobody keeps the channel from the others.
- *QMP.* A command that reports success has had its requests carried out.
- *Listeners.* The file `ports` of a VM that serves names the ports that its own
  QEMU listens on.
- *Configuration.* A `set` changes its own settings and no others, and leaves a
  file that loads.
- *Command plan.* What an option needs is there; QEMU listens where start has
  checked, and serves other hosts only if the user has said so; a restart finds
  what it would be refused for before it stops the VM, as far as that can be known then.
- *Downloads.* No download takes or removes another's file, or reports a bad one.
- *Cache.* What a configuration refers to stays in the store; what is about to
  be used is not pruned; a failing create does no harm to another's VM.

The hazards of the code, each at its line, are listed in `PROJECT.json` with
the properties that cover them.

## 2. Modules

| Module | Models |
|---|---|
| `VmLifecycle` | one VM, its lock, QEMU, helpers, records, and any number of vmctl processes |
| `AbstractVm` | what the above promises, without locks, files or records |
| `VmLifecycleRefinement` | the mapping from `VmLifecycle` to `AbstractVm` |
| `VmLifecycleInvariant` | the inductive invariant of `VmLifecycle` |
| `VmLifecycleProofs` | its theorems |
| `ProcessSignals` | how a process known from a PID record is signalled |
| `ListenerPorts` | the TCP ports of several VMs, the file `ports`, and who goes by it |
| `HostProofs` | the theorems of these two, which share the host with other programs |
| `ImageCache`, `ImageCacheProofs` | the cache and the commands that use it, and the theorems |
| `ImageDownloads`, `ImageDownloadsProofs` | how a file comes to its destination, and the theorems |
| `DiskFiles`, `DiskFilesProofs` | the files of a VM's disk, and the theorems |
| `GuestAgent`, `GuestAgentProofs` | the one channel to the agent in the guest, its clients, and the theorems |
| `QmpChannel`, `QmpChannelProofs` | QEMU's own monitors, their clients, and the theorems |
| `VmSettings` | the configuration file under several commands |
| `QemuCommand` | the command line, as a function of configuration and host, and the steps that make it |
| `ConfigurationProofs` | the theorems of these two |
| `MCVmLifecycle`, `MCImageCache`, `MCDiskFiles` | symmetry sets and instances for TLC |
| `MCChannels` | `GuestAgent` and `QmpChannel` for TLC |
| `MCHost` | `ProcessSignals`, `ListenerPorts` and `VmSettings` for TLC |
| `MCMachine` | `DiskFiles` and `QemuCommand`, and the configurations and hosts, for TLC |
| `MCImages` | `ImageCache` and `ImageDownloads` for TLC |

The last four put modules side by side that have no state in common: a behaviour
uses one of the parts, which the initial state chooses, and the others rest. So
the states of a run are the sum of the parts' and not their product, and each
action is a disjunct of its own, whose coverage TLC counts.

The modules meet at these points. `VmLifecycle` takes the commands on a disk as
one step (`DiskWork`) under the lock; `DiskFiles` takes them apart and uses what
`VmLifecycle` shows: they follow one another, and no QEMU runs meanwhile.
`VmLifecycle` takes a PID record for the process it names; `ProcessSignals`
shows when that is so. `ImageCache` takes `delete-vm` as two steps without the
VM's lock; which command has that lock is `VmLifecycle`'s matter. `VmLifecycle`
takes a guest shutdown as one request that gets through or does not; `GuestAgent`
takes it, and the other requests to the agent, apart; its `RequestShutdown` is the
script "stop" of `QmpChannel`. `VmLifecycle` takes `start` as one command line and
`ports` as one of the runtime files: `QemuCommand` is the way from `MakePlan` to the
spawn, and `ListenerPorts` what happens to the ports meanwhile, with the lock that
`VmLifecycle` shows to keep the starts of one VM apart (`StartIs(v, "idle")`).
`DiskFiles` takes `set` as a change of the size under the lock; `VmSettings` is its
other half, what is read, validated and appended. `ImageCache` takes a download as one
step, with a result that is good or bad; `ImageDownloads` is that step.

### VmLifecycle

A *launch* is one attempt of `start` to bring QEMU up and names the QEMU and the
helpers of that attempt; a record (`pidFile`, `helperFile`) holds a launch. An
*inode* is an incarnation of `operation.lock`: `delete-vm` removes the directory
the file is in, and the next command makes another.

`pc[c]` is where a client is in its command. `Begin` is `find`, which reads the
configuration before the lock is asked for; `AcquireVmLock` and `LockBusy` are
the two answers of the flock, which vmctl never waits for. The steps of `start`
are those of `start_vm_loaded`, with the steps of the helpers
(`StartVirtiofsd` ... `RecordTpm`) and every error path: a disjunct with
`Return` in it. `RemoveRuntime` is the clean-up the commands share. `StopCheck`
to `FinishStop` are `stop_vm_loaded`; `KillCheck` and `GuestCheck` enter the
same waits. `DiskCheck` and `DiskWork` stand for any command that requires a
stopped disk. The environment ends QEMU and helpers at any time (`QemuExit`,
`HelperExit`), and `ClientCrash` is a vmctl that dies: the flock is released,
everything else stays. `orphans` remembers the processes of a client that died
between the spawn and the record, about which vmctl can know nothing.

A process that is sent SIGKILL is `dying`; without the fault `slow_exit` it is
gone by the end of the two seconds vmctl waits. The viewer, SSH and cloud-init
waits (`GuestWait`) happen under the lock and touch nothing; their deadlines are not
modelled, so that `CommandsEnd` says nothing of them. `RemoveRuntime` takes the four removals
at the end of a stop for one step, and `StopWait` leaves out that a look for QEMU which cannot
be made counts as its end (`qemu/qmp.rs:219`). Not modelled: the token in the lock file, the
log, the viewer process.

### ProcessSignals

A process is its number of birth, which stands for its start time too; `table`
gives each PID its process. Each read of `/proc` and each system call of
`kill_process`, `signal_vm_process`, `revalidate_vm_process`, `stop_tpm` and
`stop_virtiofsd` is a step, and between any two processes end and PIDs are given
to others, some of which have the same command line. `pidfd` says whether the code is that
of Linux or the other one, and `target` whether the record is that of QEMU or of a
helper; both are chosen in the initial state. Where start times come from `/proc`, a process that
forked within the same clock tick as one that ended under the same PID would
have the same start time; the model takes start times for unique.

`Launch` is `write_pid` with its start time. QEMU is started with `-pidfile vm.pid` and
writes its bare PID over that record once it is up (`WritesPidFile`, `qemu/plan.rs:112`):
from then on the record has no start time, and `process_matches_checked_with_identity`
compares the name alone. Most records of a running VM are of that kind. Every read of `/proc`
or of a record, every pidfd and every signal may fail: for QEMU that ends the command (`Fail`),
or is answered with "stopped"; for a helper it counts as a check that does not hold, or
is not looked at at all (`Check`, `Signal`), and the record is removed. `failed`
remembers that.

### ImageCache

An object is named for its digest, so the content it was stored with identifies
it, and `objects[o]` says whether it is there and whether its bytes are still
good. `cache_request` is `LookUp`, `Download`, `Publish` and `WriteIndex`;
`create` keeps the lock from `SelectSource` to the configuration, while
`get --create-config` gives it up when `cache_request` returns (`Cached`); the VMs
it has configured are remembered in `unlocked`.
`prune` reads the configurations one at a time under the lock. `Republish` is
a server that replaces an image. The two ways in which a VM uses an object are
`WriteLinkedConfig` (an ISO or a backing file: the configuration refers to the
object) and `WriteCopiedConfig`. After it `get --create-config` may have ISO images to append
(`AppendIso`); when that fails, it removes the data directory and then the configuration,
by their paths, and looks at neither result (`RemoveDir`, `UndoConfig`); and a configuration
that is cut short may stay too. `undone` has the names on which that has
happened. Not modelled: the contents of the second images of Windows VMs and the cloud
seed. The temporary files of a download are `ImageDownloads`.

### DiskFiles

The commands follow one another here; the interleaving is with failure and
death. A disk image has a state (`none`, `partial`, `whole`), a virtual size and
the guest's data, for which the number of its last write stands. Temporary
files are named by PID where the code does so (`bak`, `compactTmp`) and by
nothing where it does not (`overlayTmp`), and survive to the next command, which
may have the same PID. `IoError` lets an operation on a file or a run of
qemu-img fail at any step, and clean-up too. `discarded` says whether a reset or
a delete-disk that was meant to discard the data has done so.

### GuestAgent

QEMU serves one connection to the agent's socket at a time and passes bytes
between it and a port of the guest; the agent sees one stream and knows nothing of
connections. So what a client sends may be answered after it has gone, and the
reply may reach the next. Every connection therefore begins with
`guest-sync-delimited` and a number; in the model that is the number of the
connection, which takes `next_guest_sync_id` for unique (it mixes the time, the
PID and a counter). `Connect` is the connection with the sync request, `ReadSync`
one turn of the loop of `sync_guest_agent`, `SendRequest` and `WriteHalf` are
`write_all_until` with and without success, `ReadReply` is the rest of
`guest_command_until` and, for an exec, of a turn of `guest_exec`: `PollAgain`
makes the next connection. `Timeout` may come at any point, as each of the steps
checks the deadline. The commands of `guest_vm` hold the operation lock; `doctor` pings without it.

`Accept`, `Forward` and `Disconnect` are QEMU's socket, `AgentStep` is the agent,
which answers in order, loses nothing but with a restart, and forgets a program
once it has told its end. They are external: the model takes what `src/qemu/guest.rs` relies
on. Replies on the socket are lost with the connection, and those that come while
nobody is connected may be dropped or kept. A program has the number of the
connection that started it for its PID. Not modelled: the limit of 8 MiB on a
reply, malformed JSON, the content of the answers.

### QmpChannel

A request is known by its id, which in vmctl is a fixed string for each request of each
command (`Script`), so that two processes that give the same command use the same
ids. `ConnectQmp`, `ReadGreeting`, `SendQmp`, `ReadQmpReply` and `GiveUp` are the
steps of `execute_qmp` and of what is built on it; `Skips` is the line that is passed
over: an event, or a message with another id. A line that is no JSON, or too long, is
"junk" and an error. `Dial`, `ReadText` and `EndOfText` are `telnet_command`. QEMU
(`AcceptQmp` to `HangUpQmp`) is external: one connection at a time, `qmp_capabilities`
first, replies in order with the id of the request, errors that may lack it, events at
any time, and a late reply that goes to whoever is connected by then. `executed`
remembers what QEMU has carried out.

### ListenerPorts

`FindRunning` is the start of a VM that runs already, which only waits for SSH.
`ChoosePorts` is `listener_ports` with `find_free_port`, `WritePorts` is
`write_runtime_files`, `ProbePorts` is `ensure_ipc_endpoints_available`, and from
`SpawnListener` on the ports are QEMU's to bind (`BindPorts`), if no other VM or program
has bound them since (`ForeignBinds`). `Visit`, `ReadEndpoint` and
`ConnectVisit` are `ssh` and `view`, three steps without a lock; `WatchListener` and
`WaitForBanner` are `start --wait ssh`. `orphan` marks a QEMU whose start died before
its PID was recorded, of which the next start cannot know. A second QEMU
of a VM fails on the lock of the image, which QEMU itself takes.

### VmSettings

Three settings stand for those that `set` can change: the size, whose update changes the
disk too, and `disk_cache` with `disk_aio`, which must agree. `FindVm` reads and
validates, `LockVm` comes after it, `PrepareSettings` validates what was *read* with the
updates and looks whether the last line of the file ends, `ResizeForSet` resizes,
`WriteSettings` appends; `WriteCutShort` leaves the first part of the new lines, the
last of them with nothing, its key, an open quote or all but its end (`Cut`). Of several
lines for a setting the last one counts (`After`). `clean` is FALSE once a write was cut
short or a set has written over what it had not read.

### QemuCommand

An option is a record of its id, of what else it provides and of what it needs; the
value of an option is left out. What an option needs may be another option (`-device`
needs its `-drive`), a bus of the machine, hardware, a file or a helper, and
`CommandIsWhole` asks that somebody provides it. The operators are the functions of the
planner, one for each group of options: `Accelerator` and `CpuModel` are `detect` and
`capabilities.rs`, `Pair`, `ArmBios` and `RefusesFirmware` are `firmware_paths` and
`prepare_firmware`, `VideoOptions` is `display_args`, `ShareOptions` the two ways to share a
directory, and so on. `Refuses` is all that `preflight_vm`, `detect` and `build_plan` end
with an error for. The steps: `ApplyLaunchOptions` (the options of start that come over a
configuration), `RestartStops` (the preflight of a restart while the VM runs, and its
stop), `MakePlan`, `StartSharing`, where virtiofsd may fail and the plan is made again
for a host without it, and `StartTpmAndProbe`. A host is what `detect` and the probes find:
`answers` of QEMU, the end of its `trial` with the accelerator, the CPU models and
display backends it lists, firmware files, programs.

Four combinations lack what they need (`KnownUnmet`, excepted in `CommandIsWhole`): see
the list in section 3. `found` is what came of the last choice of ports: `find_free_port`
depends on what is bound at that moment, by the VM itself for one, and is called again after
the VM was stopped (`Finds` has all that it may come upon). That choice, a port or
socket that is taken by the time it is probed, a missing swtpm and `LacksTemplate` are the
refusals that a restart may meet only after it has stopped the VM.

### ImageDownloads

Processes stage a file under a name of destination, PID and number, fetch it, link it to
the destination, which fails if there is one, unlink the temporary name, and verify
what is there. `BeginDownload` chooses `get --download` of an image, of macOS
(a recovery image that is converted from a second file, with a chunklist) or the
download of the cache, whose destination has the PID. A process may die at any step and
another may have its PID. `UserClears` is somebody who removes
what is left by hand, when no download is at it; `cache prune` passes over the files of
dead downloads (`get/cache.rs:163`). `mine` remembers whose file is at a destination, `reported` what a
command has said to be there.

## 3. What TLC checks

| Run | Instance | Question | Result |
|---|---|---|---|
| `VmLifecycle_crash` | 2 clients, 4 launches, 2 inodes, both helpers, every command but delete-vm, crashes | mutual exclusion, one QEMU, recorded processes, disk work only while stopped, nothing left by a stop; implements `AbstractVm` | holds |
| `VmLifecycle_live` | 2 clients, 2 launches, fair | `--force` ends QEMU | holds |
| `VmLifecycle_ends` | 2 clients, 2 launches, fair, signals fail, slow exits, every command | every command ends; types | holds |
| `VmLifecycle_delete` | 3 clients, start and delete-vm | mutual exclusion | violated |
| `VmLifecycle_undo` | 2 clients, start and disk work, slow exits | disk work only while stopped | violated |
| `Signals` | `MCHost`: 2 PIDs, 3 births, QEMU and helpers, with and without pidfds; 2 VMs and 2 ports; 2 commands on a configuration | signals reach the recorded QEMU; success is real; stale records are harmless; helpers are not lost while checks and signals succeed; a VM serves on the ports on record; visits reach it; configurations load; settings stay | holds |
| `Cache` | `MCImages`: 2 clients, 1 URL, 2 contents, 2 VMs, all pairs of commands but `--refresh-cache` with `get --create-config`, all faults; 2 downloads | references of configurations written under the lock resolve; objects in use are kept; prune is thorough; configured VMs have their data, where no written configuration was undone; downloads are kept | holds |
| `Cache_dangling` | 2 URLs, get --create-config and prune | all references resolve | violated |
| `Cache_refresh` | 2 URLs, get and refresh, corruption | a refresh replaces a bad object | violated |
| `Disk` | `MCMachine`: 2 PIDs, 2 sizes, 2 writes, every command, all faults; 2022 configurations, 23 kinds of host | data survives, the disk is whole, no blank disk over data, sizes on record are sizes of disks; a backup or clone that looks whole is; command lines are whole; listeners are known; restarts look first | holds |
| `Disk_blocked` | 2 PIDs, start and reset, crashes | an interrupted reset does not block the next | violated |
| `GuestAgent` | `MCChannels`: 2 clients, 4 connections, every command, lost and late replies, restarts of the agent; 2 users of QMP, 2 connections | answers are one's own; exec's result is real; connections are released; what QMP reports as done is done | holds |

**Bounds.** Two clients are enough for every race of two commands, and the lock
admits one at a time, so that a third would only find it busy; delete-vm needs a
third, because two clients must both hold a lock after the deleter has left.
A launch can be given again once nothing refers to it (`Free`): what may refer
to launches at once is an orphan, the QEMU of `vm.pid`, and one per client; four
are room for all of them. Two inodes are the one somebody holds and the one that
is in place (three with three clients). Two PIDs let a PID be reused while
another process lives, and three births are the target, its successor under the
same PID, and a second target or a bystander. One URL is enough, since a server that
replaces its image leaves objects that no URL has; two contents are the old and the
new one; two VMs let prune read one configuration while the
other changes. `MCImages` takes the cache in three parts, to keep the states of a run within
bounds (`Bounded`): "cache" has every command but `--refresh-cache`, and "refresh" every one
but `get --create-config`, both with no written configuration undone; "undo" has that too, with
one VM at a time in use and without the commands that touch no VM. Two PIDs of vmctl are the one that left a file and one that did
not; two sizes are "as it is" and "larger"; two writes tell old data from new.
Two clients of the agent are the one with the lock and `doctor`, or a client and the
one after it; four connections are an exec's request, two polls of it, and
one of somebody else. Two VMs and two ports let each VM serve on a port of its own, or both be after
the same ones, with the configured port of one in the range in which the other's is chosen.
Two commands on a configuration are the one with the lock and one that has read
before. Two users of QMP and two connections (`MaxQmpLinks`) are a request that is given up and
the one that may meet its reply; one waiting message (`MaxWaiting`) is an event in between. Two
names for a temporary file (`Attempts`) and one or two left behind (`MaxLeft`) let one be taken, or all.
The configurations of `MCMachine` (`MCConfigs`) are those that differ from a plain one in
what one part of the planner depends on, in all combinations: display and remote access,
network and listeners, devices and guests, machine and firmware; the hosts (`MCHosts`) are a
Linux host with everything, one with nothing, a Mac and a Windows host, and those that
differ in what machine and firmware depend on.
`MaxConnections`, `MaxBirths`, `MaxSize`, `MaxWrites`, `MaxQmpLinks`, `MaxWaiting` and `MaxLeft` bound what would otherwise grow.

**Deadlock.** It is checked in every `VmLifecycle` run but `ends` and `delete`,
where all VMs may be deleted and there is nothing left to do. In `ProcessSignals`
the last births, and in `GuestAgent` the last connections, may have been spent, `ImageCache` and `DiskFiles` have no
step left when everything is deleted or lost, `VmSettings` none after a delete-vm, and
`QemuCommand` ends with its command.

**Symmetry** is used only in runs without liveness properties, over clients,
launches and inodes, over the sets of `ImageCache`, and over PIDs in
`DiskFiles`, the clients and users of the channels and the VMs of
`ListenerPorts`, none of which a property names.

**Fairness** (`FairSpec` of `VmLifecycle`): weak fairness of each client's next
step, since a vmctl process that is running goes on, and every wait of it has a
timeout; and of the exit of a process that was sent SIGKILL, since the kernel
ends it. No fairness for `Begin` (nobody must give a command), for a guest that
is asked to shut down, or for crashes. `ForceEndsQemu` is checked without
`kill_fails`: a signal that cannot be sent is an error the command reports.

**Disagreements with the documentation.** Five runs are expected to fail; each
checks one statement of the repository against what the code does:

1. `VmLifecycle_delete`. `delete_vm` drops the lock and then removes the
   directory with the lock file (`src/commands/storage.rs:502-506`). Two later
   commands can each hold the flock of a different `operation.lock`.
2. `VmLifecycle_undo`. The undo of a start that fails late ignores that QEMU did
   not end and removes `vm.pid` (`src/commands/lifecycle.rs:380-401`), so that a
   disk command takes the VM for stopped.
3. `Cache_dangling`. `create_custom_config` uses a cached ISO after it has given
   the lock up (`src/get/download.rs:351-404`); a prune in between takes it away.
4. `Cache_refresh`. A refresh does not replace a corrupt object of the same
   digest, it fails (`src/get/cache.rs:309-311`).
5. `Disk_blocked`. The temporary overlay of `create_cloud_overlay` has a fixed
   name (`src/qemu/disk.rs:87-93`); an interrupted reset leaves it and blocks all
   later ones.

Met on the way and not the subject of a run: `stop_tpm` and `stop_virtiofsd` check
a PID and then signal it by number (`src/qemu/runtime.rs:459-578`), where QEMU is
signalled through a pidfd; `docs/plans/shared-image-cache.md:156`
has the second process wait briefly for the cache lock, the code does not wait;
`reset` looks at the base with `qemu-img info` only and does not verify its
digest; a corrupt object in the index makes every prune fail, so that it must be
removed by hand; a vmctl that dies in a create leaves a data directory that makes
the next create of that name fail; a reset that dies between the overlay and its
resize leaves a disk smaller than `disk_size`; QEMU's `-pidfile` takes the start time from
the record that vmctl has written to the same file (`src/qemu/plan.rs:112-116`,
`src/commands/runtime.rs:3-10`), so that a QEMU of the same name that gets the PID of one
that was killed is taken for it; `stop_tpm` and `stop_virtiofsd` remove the record of a
helper whose check or signal has failed, and lose it (`src/qemu/runtime.rs:459-462, 566-580`);
a `get --create-config` that fails after it has written its configuration removes the data
first and the configuration afterwards, and ignores that either fails
(`src/get/download.rs:414-421`); what a dead download leaves in the store blocks a later one
of the same PID until somebody removes it by hand (`src/get/cache.rs:283`).

Of the configuration and the command line, by file and line under `src/`:

- `qemu/storage.rs:131-143` chooses `ide-hd` for Windows and ReactOS guests on ARM too, whose
  machine has no such bus.
- `commands/launch.rs:96`: `--usb-controller none` takes the controller away that
  `--braille` has just chosen.
- `qemu/plan.rs:21`: no SMM on macOS hosts, which secure boot needs.
- `qemu/display.rs:79`: an adapter with OpenGL where Cocoa, which is given none, shows it.
- `qemu/firmware.rs:134`: the template of the UEFI variables of macOS is looked for by
  start, but not by the preflight of a restart; nor is swtpm looked for (`qemu/runtime.rs:390`).
- `qemu.rs:239-268`: the preflight of a restart chooses ports while the VM holds its own.
  `restart --spice-port 22220` where SSH has 22220 passes, since SSH would get 22221, and is
  refused when the VM has been stopped, since SSH gets 22220 again.
- `qemu/network.rs:82`: with `network=passt` and a bridge the ports of SSH and of the
  forwards are probed, written down and reported, and nothing listens there.
- `qemu/plan.rs:587`: a restart is refused where the guest agent was enabled since the
  start, because `ipc.json` has no endpoint for it.
- `qemu.rs:267`: the SSH port that is chosen may be the configured SPICE port, and the start
  is then refused although another one is free.
- `qemu/monitor.rs:150`: the telnet monitor takes half a second of silence for the end of the
  text.
- `commands/storage.rs:99`: two sets that were each validated against what they had read,
  `disk_aio` by one and `disk_cache` by the other, leave a configuration that no command
  loads (why `ConfigLoads` has its premise).
- `get/download.rs:247`: a death between the commit and the verification leaves an
  image that nothing has verified under its final name; `get/macos.rs:230`: what a failed
  download of macOS leaves blocks its own repetition; `get/io.rs:356`: an archive is taken
  for unpacked when its file is there.

**Mutants.** Every property of a passing run has a mutant of one of the model's
definitions in `PROJECT.json`, kept beside that definition in the module
(`Definition_HowItIsWrong`), which TLC finds to violate the property.

## 4. What is proved

All theorems hold for every value of the constants that the modules' ASSUMEs
admit: any number of clients, launches, PIDs, objects, VMs. Every invariant and action
property that a passing run checks is the statement of a theorem, and so is the
refinement; liveness is not. The inductive invariants were runs of TLC before they
were proved.

**VmLifecycleProofs.** The inductive invariant (`VmLifecycleInvariant!IInv`) has
five parts. `LockInv`: a client past the lock holds the inode that is in place,
and no two hold the same; it needs no more, and gives mutual exclusion
(`MutualExclusionHolds`). `CommandInv` ties the command, the launch and the QEMU
a client has seen to its place in the command. `LaunchInv` says which launches
are alive while one is brought up, `PidFileInv` that a QEMU that is alive is the
recorded one, or being launched, or an orphan, and `OrphanInv` what an orphan can
be. Mutual exclusion carries the rest: only the client in its critical section
changes `vm.pid` or spawns. `RunningIsRecordedHolds`, `AtMostOneQemuHolds` and
`DiskWorkWhileStoppedHolds` follow. Assumptions: no delete-vm (the first run of
the list above shows why), and for the last three that signals can be sent and
end a process in time (the second one shows why).

`LifecycleTypeCorrect` needs neither: with `CommandInv` alone it holds of every command,
delete-vm and signals that fail included. Under the first assumption `NoneDeletes`, that no
client is at a step of delete-vm, is a part of the invariant too.

*Helpers.* `HelperInv` adds to what `HelpersAreRecorded` says that the record of an earlier helper is gone by
the time a start spawns another one (`HelperFileInv`), because the start has stopped the helpers
that were on record, under the lock. A helper that does not end in time has been
given SIGKILL, so that `HelpersAreRecordedHolds` needs no more than that signals can be sent.
`StopLeavesNothingHolds` joins it with `IInv`: at the removal of `vm.pid` (`remove_runtime`)
the QEMU of the record is gone, nobody but the client itself can have launched
another, and the helpers that still run are orphans.

*Refinement.* `VmLifecycleRefinesAbstractVm`, under the assumptions of `ProcessInvariance`: the
owner of the abstract VM is the client in its critical section, its worker the one at work on the
disk, and what runs are the QEMUs that are known (`Known`). Mutual exclusion makes the first
two one client each (`MappedInv`); then each action of `Next` is a step of the abstract
VM or a stutter. An acquisition of the lock is the abstract one because the lock was free, a launch
because no QEMU is known at `start_spawn` (`PidFileInv`), disk work begins where the VM was found
stopped and nobody else could start it; and a client that dies, with a launch that is known by nothing
but its command, releases the VM.

**HostProofs, signals.** With pidfds `kill_process` signals no process that does not have the
VM's name. If the record has a start time, that is the recorded process or none: the process
behind the descriptor was compared with the record after the descriptor was opened, and a
descriptor never changes its process, whoever has the PID by now. If QEMU has written over
the record, it may be another QEMU of that name, but only once the recorded one is gone. A stale record with a start time leads to no signal, on any system,
for QEMU and for helpers alike:
a process that is gone never comes back, and a start time on record never matches
another process. `AnswerInv` says what an answer is worth: the process on record has
the name that is looked for as long as it lives, so that a check that does not hold shows that it is gone, unless it could not be made (`failed`);
`SuccessIsRealHolds` and `HelpersAreNotLostHolds` follow, with and without pidfds. That a
helper is lost when a check or a signal fails is what the code does; the theorem says that
it happens in no other way.

**HostProofs, ports.** `PortsInvariance`: a start that is about to change `ports` has
found no QEMU that the PID file names, so that a QEMU that is there nevertheless is an
orphan from then on, and any other one was spawned with the plan that is in the file
(`StartInv`, `QemuInv`); a QEMU that serves has bound each port of its plan while nobody
had it, and nobody else gives it up. `ServingAsRecordedHolds` and
`VisitsReachTheirVmHolds` follow, for any number of VMs and ports and whatever other
programs bind. Assumption (`PortsAssumption`): the ranges and the configured ports are
ports.

**QmpChannelProofs.** `QmpInvariance`: QEMU writes a `return` only for what it has
carried out, to whomever it serves by then (`ReplyInv`); a command is at a request of its
script only after the replies to all earlier ones (`Past`), and goes on only with a reply
that has the id of its own. So a late reply to the same command of another process may
be taken, but the request it is of has been carried out: `DoneIsRealHolds`, for any number
of users and connections.

**ConfigurationProofs, the file.** `SettingsInvariance`: at most one command is past the lock
(`OneHolder`), and only it appends, so that what it has found out under the lock, how the
last line ends, is still so when it writes (`AppendFits`). `SettingsStayHolds`
follows without assumptions, `ConfigLoadsHolds` for what its premise admits, for any number of
commands.

**ConfigurationProofs, the command line.** `CommandInvariance` and from it
`RestartLooksFirstHolds` and `ListenersAreKnownHolds`, for all configurations and hosts, of
which TLC tries 2022 and 23 (`CommandAssumption` asks no more of them than their types): what the plan lists and what the options open depend on the
same conditions, and the only part of a host that changes on the way, virtiofsd, is
none of them; what restart has checked with the endpoints of the old run, start checks
without them, and refuses no more, but for the ports, swtpm and the template.

`CommandIsWholeHolds` takes the command line part by part. `Within`: each part draws its ids
from a set of its own and none twice, and these sets are disjoint, so that `IdsDiffer` holds of
the whole. `Served`: a lemma for each part shows that what its options need, the part itself gives,
or another part under the same condition: the machine its buses and SMM, the firmware its ROM
and variables, SPICE and USB their servers and buses (`NeedsAreMet`); this is where the conditions of
different source files have to agree, and where the four flaws of `KnownUnmet` are needed as
premises, each in one lemma. `Connects`: what connects to a helper is there exactly when the helper is asked for.
`PlanInvariance` carries this through the steps: what made the plan fit does not depend on
virtiofsd, and when that fails, options and helpers change together.

**ImageCacheProofs.** `CacheInvariance`: whoever is at a label of the locked part
holds the lock; while prune holds it, no configuration that it has read or has
yet to read can come to refer to an object that it will remove, because nobody
else can be between the choice of an object and the configuration. The exception
is `get --create-config`, whose configurations (`unlocked`) the invariant leaves out
(`Cache_dangling` shows why). The three safety properties follow, without
assumptions on the commands that run; `CacheTypeCorrect` is its first part.
`DirInv` is about the data directories: a client that has made one (`HasMadeDataDir`) is the
only one that has made it, and its VM has no configuration yet; delete-vm is only at a VM that has one, and is
alone with it. So a create that fails before it has written its configuration removes no
directory but its own, and `ConfiguredVmsHaveDataHolds` for all names but those on which a
written configuration was undone: there the code gives no such promise.

**ImageDownloadsProofs.** `DownloadInvariance`: a link takes a destination only when nothing
is there, so that no file is two commands' own; which files are a command's own follows from where it is
(`MineInv`), and it removes no others; who clears up does so while no download is at work. A
file is reported only when it has passed its check and is no command's own any more.
`DownloadsAreKeptHolds` follows, for any number of processes, names and leftovers, and
however often a PID is given again.

**DiskFilesProofs.** `DiskInv` says for each label of a command where the guest's
data is: in the disk, in the `.bak` of the process that resets, or in a `.bak` that an
interrupted reset has left. From it: `DataSurvivesHolds`, `DiskIsWholeHolds` and
`BlankOnlyWithoutDataHolds`, without further assumptions. `SizeInv` (a set gets to the file with a disk
that has the new size) gives `SettingFollowsDiskHolds`; `CopyInv`, for each label of backup and
clone what the copy has by then, and that the disk it is of stands still meanwhile, gives
`CloneIsWholeHolds` and `BackupIsCompleteHolds`. `DiskTypeCorrectness` uses `DiskInv` and the names
of files that the labels imply.

**GuestAgentProofs.** `ChannelInvariance`: until QEMU accepts a connection nothing
of it is on the way; its sync is the last thing on the way until it is answered
(`SyncOf`), since only QEMU's one connection adds to what goes to the agent and
the agent answers in order; when the client reads the reply nothing is on the way
(`RequestOf`), and from then on only its own request or reply is (`ReplyOf`).
`AnswersAreOwnHolds` and `ConnectionsAreReleasedHolds` follow. `ExecInvariance`
adds that a connection asks for at most one program, so that no program starts
again after its end, and that what a polling exec has on the way is the status of its
own program; `ExecResultIsRealHolds` follows. For any number of clients and
connections, and without fairness.

**Model-checked only.** Liveness, which is out of the prover's reach: `CommandsEnd` and
`ForceEndsQemu`. The five runs that are expected to fail say what the theorems
must assume: no delete-vm, signals that end a process in time, configurations written
under the lock.

**What is taken for granted.** The kernel releases the flock of a dead process, and links
and renames files in one step. A second QEMU on an image fails on the image's own lock.
QEMU answers on a monitor in order, and what it still has to say when a client is
gone it says to nobody or to whoever is connected by then. The agent in the guest answers
in order. Users clear away what a download has left only when none is
running. Between the preflight of a restart and its start the host does not change, but for
virtiofsd and the ports that are bound. The trials that `detect` makes of QEMU are taken by their outcomes.

## 5. Not modelled

- *Data without control*: the tables of the image catalogue and the URLs made from them,
  base64 and the text of the agent's answers, the syntax of configuration files, QEMU's help
  texts and their parsing, the values of options, the shell script that prints a command.
- *Reports* (`doctor` but for its ping and the USB checks, `list`, `status`, `disk info`,
  `host`), the shell completion and the desktop shortcut: they change no state that another command reads.
- *Left to QEMU or other programs*: snapshots of disks, `disk check`, `disk convert` to a path of the
  user's choice, the unpacking of archives, the contents of cloud seeds and of the Windows support media.
- *Transports*: a Unix socket, a TCP port and a named pipe are one channel.

## 6. Plan

1. Done: the lifecycle with its abstract specification and refinement, signals, cache, disk
   files, both channels, listeners, settings, the command line, downloads; the theorems of section 4.
2. Proofs next: weaker assumptions where there are any, such as what still holds of
   QEMU and its record when a process does not end in time.
3. Models next: the second images of Windows VMs and the cloud seed in `ImageCache`;
   `disk convert` and snapshots as further readers of a disk in `DiskFiles`.
