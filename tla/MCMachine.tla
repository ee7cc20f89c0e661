----------------------------- MODULE MCMachine -----------------------------
(* What QEMU is started with, for TLC: the files of a disk, and a command  *)
(* line.  The parts share no state, so a behaviour uses one of them and    *)
(* the other rests, in one initial state; every action is a disjunct of    *)
(* its own.                                                                *)
EXTENDS MCDiskFiles, QemuCommand

VARIABLE part   \* the one that is used

-----------------------------------------------------------------------------
(* The instances.                                                          *)

\* A configuration from which the others differ in what one part of the command line
\* depends on: the display, the network and the listeners, the devices, or the machine
\* and its firmware.
Plain ==
    [arch |-> "x86_64", guest |-> "linux", cpu |-> "default", boot |-> "efi",
     secureboot |-> FALSE, pinned |-> FALSE, media |-> TRUE, longPaths |-> {},
     display |-> "gtk", gl |-> "unset", access |-> "local",
     insecure |-> FALSE, spicePort |-> FALSE, sshPort |-> FALSE, portsClash |-> FALSE,
     clipboard |-> FALSE, sound |-> "intel-hda",
     network |-> "user", bridge |-> FALSE, offline |-> FALSE, forwards |-> FALSE,
     monitor |-> "socket", serial |-> "socket", telnetHost |-> "local", agent |-> TRUE,
     tpm |-> FALSE, tpmPortTaken |-> FALSE, usb |-> "ehci", usbInput |-> TRUE,
     hostUsb |-> FALSE, iso |-> FALSE, braille |-> FALSE, share |-> FALSE]

Displays ==
    {[Plain EXCEPT !.display = d, !.access = a, !.insecure = i, !.spicePort = s,
                   !.clipboard = c, !.agent = g, !.sound = n] :
        d \in {"gtk", "sdl", "cocoa", "none", "spice", "spice-app"}, a \in {"local", "remote"},
        i, s, c, g \in BOOLEAN, n \in {"none", "usb-audio"}}

Networks ==
    {[Plain EXCEPT !.network = n, !.bridge = b, !.offline = o, !.forwards = f,
                   !.monitor = m, !.serial = l, !.telnetHost = t, !.insecure = i] :
        n \in {"user", "passt", "none", "br0"}, b, o, f, i \in BOOLEAN,
        m, l \in {"socket", "telnet"}, t \in {"local", "remote"}}

Devices ==
    {[Plain EXCEPT !.arch = a, !.guest = g, !.iso = i, !.share = s, !.tpm = t, !.agent = q,
                   !.usb = u, !.usbInput = k, !.hostUsb = p] :
        a \in {"x86_64", "aarch64"}, g \in {"linux", "windows", "macos", "reactos", "kolibrios"},
        i, s, t, q, k, p \in BOOLEAN, u \in {"xhci", "none"}}

Machines ==
    {[Plain EXCEPT !.arch = a, !.guest = g, !.cpu = m, !.boot = b, !.secureboot = s,
                   !.display = d, !.gl = o] :
        a \in {"x86_64", "aarch64"}, g \in {"linux", "windows", "macos", "reactos"},
        m \in {"default", "host"}, b \in {"efi", "legacy"}, s \in BOOLEAN,
        d \in {"gtk", "spice", "spice-app", "none"}, o \in {"unset", "on"}}

\* What is refused for the sake of the host alone.
Unfit ==
    {[Plain EXCEPT !.pinned = TRUE], [Plain EXCEPT !.media = FALSE],
     [Plain EXCEPT !.tpm = TRUE, !.tpmPortTaken = TRUE], [Plain EXCEPT !.portsClash = TRUE],
     [Plain EXCEPT !.tpm = TRUE, !.sshPort = TRUE, !.display = "none"],
     [Plain EXCEPT !.share = TRUE, !.longPaths = {"virtiofs"}],
     [Plain EXCEPT !.display = "spice", !.longPaths = {"spice"}]}

MCConfigs == Displays \cup Networks \cup Devices \cup Machines \cup Unfit

AllFirmware == {"code", "vars", "secureCode", "armCode", "armVars"}

AllCpus == {"host", "max", "qemu64", "qemu32", "Haswell-v2"}

LinuxHost ==
    [os |-> "linux", arch |-> "x86_64", qemu |-> "answers", trial |-> "runs", cpus |-> AllCpus, flags |-> TRUE,
     backends |-> {"none", "gtk", "sdl", "egl-headless"}, gl |-> TRUE, renderNode |-> TRUE,
     vdagent |-> TRUE, virtiofsd |-> TRUE, bridgeHelper |-> TRUE, passt |-> TRUE,
     usbRedirection |-> TRUE, smartcard |-> TRUE, firmware |-> AllFirmware,
     usbDevices |-> TRUE, freeCpus |-> TRUE, stableTsc |-> TRUE, swtpm |-> TRUE]

BareHost ==
    [LinuxHost EXCEPT
        !.trial = "hangs", !.backends = {"none", "sdl"}, !.gl = FALSE, !.renderNode = FALSE,
        !.vdagent = FALSE, !.virtiofsd = FALSE, !.bridgeHelper = FALSE, !.passt = FALSE,
        !.usbRedirection = FALSE, !.firmware = AllFirmware \cup {"armBios"},
        !.usbDevices = FALSE, !.freeCpus = FALSE, !.stableTsc = FALSE, !.swtpm = FALSE]

MacHost ==
    [BareHost EXCEPT
        !.os = "macos", !.arch = "aarch64", !.trial = "runs", !.backends = {"none", "cocoa"},
        !.usbRedirection = TRUE, !.firmware = AllFirmware]

WindowsHost ==
    [BareHost EXCEPT
        !.os = "windows", !.trial = "runs", !.backends = {"none", "gtk", "sdl"}, !.vdagent = TRUE,
        !.swtpm = TRUE,
        !.firmware = AllFirmware]

CommonHosts == {LinuxHost, BareHost, MacHost, WindowsHost}

\* Hosts that differ in what the machine depends on.
MachineHosts ==
    {[h EXCEPT !.arch = "x86_64", !.trial = t, !.firmware = f, !.gl = g] :
        h \in {LinuxHost, MacHost}, t \in {"runs", "ends"},
        f \in {AllFirmware, {"code", "armBios"}}, g \in BOOLEAN}
        \cup {[LinuxHost EXCEPT !.qemu = "mute"], [LinuxHost EXCEPT !.qemu = "old"]}
        \cup {[LinuxHost EXCEPT !.flags = FALSE], [LinuxHost EXCEPT !.cpus = @ \ {"host"}]}

MCHosts == CommonHosts \cup MachineHosts

-----------------------------------------------------------------------------

\* A command line that rests has no configuration.
CommandRests ==
    /\ config = {}
    /\ host = {}
    /\ ipc = "none"
    /\ nvram = "absent"
    /\ stage = "rests"
    /\ restarted = FALSE
    /\ found = "free"
    /\ options = {}
    /\ known = {}
    /\ helpers = {}

\* The machine and the firmware are the matter of some configurations only.
OfInterest ==
    \/ config \in Machines /\ ipc # "bare"
    \/ config \notin Machines /\ host \in CommonHosts /\ nvram = "file"

MCInit ==
    /\ Init
    /\ \/ part = "disk" /\ CommandRests
       \/ part = "command" /\ linked = FALSE /\ size = 1 /\ CommandInit /\ OfInterest

Disks(Step) == part = "disk" /\ Step /\ UNCHANGED <<commandVars, part>>

Launching(Step) == part = "command" /\ Step /\ UNCHANGED <<vars, part>>

MCNext ==
    \/ Disks(Begin)
    \/ Disks(EnsureDisk)
    \/ Disks(CreateDisk)
    \/ Disks(Launch)
    \/ Disks(ResizeDisk)
    \/ Disks(AppendSettings)
    \/ Disks(CompactConvert)
    \/ Disks(CompactFinish)
    \/ Disks(CompactReplace)
    \/ Disks(ResetCheck)
    \/ Disks(ResetCreate)
    \/ Disks(ResetFinish)
    \/ Disks(ResetResize)
    \/ Disks(ResetEfiVars)
    \/ Disks(ResetRemoveBak)
    \/ Disks(DeleteDisk)
    \/ Disks(DeleteEfiVars)
    \/ Disks(BackupDir)
    \/ Disks(BackupDisk)
    \/ Disks(BackupConvert)
    \/ Disks(BackupConf)
    \/ Disks(BackupEfiVars)
    \/ Disks(BackupManifest)
    \/ Disks(CloneDir)
    \/ Disks(CloneDisk)
    \/ Disks(CloneConvert)
    \/ Disks(CloneConf)
    \/ Disks(CloneWrite)
    \/ Disks(GuestWrites)
    \/ Disks(QemuExit)
    \/ Disks(Crash)
    \/ \E b \in BOOLEAN, u \in {"default", "ehci", "none"} : Launching(ApplyLaunchOptions(b, u))
    \/ Launching(RestartStops)
    \/ Launching(MakePlan)
    \/ Launching(StartSharing)
    \/ Launching(StartTpmAndProbe)

MCSpec == MCInit /\ [][MCNext]_<<vars, commandVars, part>>

=============================================================================
