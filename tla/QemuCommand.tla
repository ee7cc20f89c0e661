----------------------------- MODULE QemuCommand -----------------------------
(***************************************************************************)
(* The QEMU command line that start makes of a configuration and of what   *)
(* the host can do: which options it has, what they name and what they     *)
(* need, where QEMU will listen, and which helpers it will connect to; and *)
(* the steps of restart and start that make it, refuse it, and make it     *)
(* again when virtiofsd does not come up.  An option is a record of its    *)
(* id, of what else it provides, and of what it needs.                     *)
(***************************************************************************)
CONSTANTS
    Configs,    \* the configurations, as they are loaded, and
    Hosts       \* the hosts, on which they are started

\* What a host has: its system and processor, what QEMU does when it is asked for its
\* abilities and when it is tried out with the accelerator of that system, the CPU models
\* it knows, display backends, firmware files, and programs, devices or parts of QEMU that
\* an option depends on.
HostType ==
    [os : STRING, arch : STRING, qemu : STRING, trial : STRING, cpus : SUBSET STRING,
     flags : BOOLEAN, backends : SUBSET STRING, gl : BOOLEAN, renderNode : BOOLEAN, vdagent : BOOLEAN,
     virtiofsd : BOOLEAN, bridgeHelper : BOOLEAN, passt : BOOLEAN, usbRedirection : BOOLEAN,
     smartcard : BOOLEAN, firmware : SUBSET STRING, usbDevices : BOOLEAN, freeCpus : BOOLEAN,
     stableTsc : BOOLEAN, swtpm : BOOLEAN]

\* What of a configuration the command line depends on: its settings, as validate leaves
\* them, whether the files and devices it names are there, and whether one of the ports it
\* names is named twice, or is the one that swtpm has on Windows.
ConfigType ==
    [arch : {"x86_64", "aarch64"}, guest : STRING, cpu : STRING, boot : {"efi", "legacy"},
     secureboot : BOOLEAN, pinned : BOOLEAN, media : BOOLEAN, longPaths : SUBSET STRING,
     display : {"gtk", "sdl", "cocoa", "none", "spice", "spice-app"},
     gl : {"unset", "on", "off"}, access : STRING, insecure : BOOLEAN, spicePort : BOOLEAN,
     sshPort : BOOLEAN, portsClash : BOOLEAN, clipboard : BOOLEAN, sound : STRING, network : STRING, bridge : BOOLEAN,
     offline : BOOLEAN, forwards : BOOLEAN, monitor : {"socket", "telnet", "none"},
     serial : {"socket", "telnet", "none"}, telnetHost : STRING, agent : BOOLEAN,
     tpm : BOOLEAN, tpmPortTaken : BOOLEAN, usb : {"ehci", "xhci", "none"},
     usbInput : BOOLEAN, hostUsb : BOOLEAN, iso : BOOLEAN, braille : BOOLEAN, share : BOOLEAN]

ASSUME CommandAssumption == Configs \subseteq ConfigType /\ Hosts \subseteq HostType

VARIABLES
    config,
    host,
    ipc,        \* the file "ipc.json": what it says of the guest agent, or "none"
    nvram,      \* the file of the UEFI variables: "absent", "file" or "symlink"
    stage,      \* how far start has come
    restarted,  \* whether it is that of a restart, which has stopped the VM before
    found,      \* the last ports: "free", or what is wrong with them
    options,    \* the command line
    known,      \* the listeners that the plan names beside it
    helpers     \* the helpers that run

commandVars == <<config, host, ipc, nvram, stage, restarted, found, options, known, helpers>>

When(condition, set) == IF condition THEN set ELSE {}

-----------------------------------------------------------------------------
(* VmConfig::validate, as far as the command line depends on it.           *)

ValidConfig(c) ==
    /\ c.clipboard => c.display = "gtk"
    /\ c.usb = "none" => ~c.usbInput
    /\ c.guest = "macos" => c.arch = "x86_64" /\ c.boot = "efi"

\* Launch options of start come over the configuration in the order of their code: what
\* --braille has set --usb-controller may undo.  A USB sound card has its way.
Launched(c, braille, usb) ==
    LET b == IF braille
             THEN [c EXCEPT !.braille = TRUE, !.display = "sdl", !.usb = "xhci"]
             ELSE c
        u == IF usb = "default" THEN b ELSE [b EXCEPT !.usb = usb]
    IN IF c.sound = "usb-audio" THEN [u EXCEPT !.usb = "xhci"] ELSE u

-----------------------------------------------------------------------------
(* The processor and the firmware: detect, capabilities.rs, firmware.rs.   *)

\* qemu_help_output: it ends in time, with success and no more than so much to say.
Answers(h) == h.qemu # "mute"

\* ensure_command, and the queries of detect.
RefusesQemu(h) == h.qemu \in {"absent", "old"} \/ ~Answers(h)

\* qemu_runtime_probe: QEMU has greeted, and was still there a while later to be killed.
\* It may also have ended by then, or never have said anything.
Usable(h) == h.trial = "runs"

Accelerator(c, h) ==
    LET hardware == [linux |-> "kvm", macos |-> "hvf", windows |-> "whpx"] IN
    IF c.arch = h.arch /\ h.os \in DOMAIN hardware /\ Usable(h) THEN hardware[h.os] ELSE "tcg"

\* With flags the guests of Apple and Microsoft have them, unless the model is configured.
Flagged(c) == c.cpu = "default" /\ c.arch = "x86_64" /\ c.guest \in {"macos", "windows"}

CpuModel(c, accelerator) ==
    LET Hardware(accelerators, other) == IF accelerator \in accelerators THEN "host" ELSE other
    IN CASE c.cpu # "default" -> c.cpu
         [] c.cpu = "default" /\ c.arch = "aarch64" -> "max"
         [] Flagged(c) /\ c.guest = "macos" -> Hardware({"kvm", "hvf", "whpx"}, "Haswell-v2")
         [] Flagged(c) /\ c.guest = "windows" -> Hardware({"kvm"}, "qemu64")
         [] OTHER -> IF c.guest \in {"kolibrios", "reactos"}
                     THEN "qemu32"
                     ELSE Hardware({"kvm", "hvf"}, "qemu64")

RefusesCpu(c, h) ==
    LET model == CpuModel(c, Accelerator(c, h)) IN
    \/ model \notin h.cpus
    \/ model = "host" /\ Accelerator(c, h) = "tcg"
    \/ Flagged(c) /\ ~h.flags

MachineType(c) ==
    CASE c.arch = "aarch64" -> "virt"
      [] c.arch # "aarch64" /\ (c.boot = "legacy" \/ c.guest \in {"kolibrios", "reactos"}) -> "pc"
      [] OTHER -> "q35"

\* arm_monolithic_firmware: one file, and no variables.
ArmBios(c, h) ==
    c.arch = "aarch64" /\ c.guest = "windows" /\ ~c.secureboot /\ "armBios" \in h.firmware

\* The files of the pair of code and variables that the guest needs.
Pair(c) ==
    CASE c.arch = "aarch64" -> {"armCode", "armVars"}
      [] c.arch # "aarch64" /\ c.secureboot -> {"secureCode", "vars"}
      [] OTHER -> {"code", "vars"}

\* macOS wants no template of the variables as long as it has its own.
LacksTemplate(c, h, file) == c.guest = "macos" /\ file = "absent" /\ "vars" \notin h.firmware

\* firmware_paths; only start prepares the variables, for QEMU to be given.
RefusesFirmware(c, h, file, prepare) ==
    /\ c.boot = "efi"
    /\ ~ArmBios(c, h)
    /\ \/ file = "symlink"
       \/ c.guest = "macos" /\ "code" \notin h.firmware
       \/ c.guest # "macos" /\ ~(Pair(c) \subseteq h.firmware)
       \/ prepare /\ LacksTemplate(c, h, file)

Prepared(c, h, file) ==
    IF c.boot = "efi" /\ ~ArmBios(c, h) /\ file = "absent" THEN "file" ELSE file

-----------------------------------------------------------------------------
(* The network and the ports: network.rs, devices.rs, listener_ports.      *)

Bridged(c) == ~c.offline /\ c.network # "none" /\ (c.bridge \/ c.network = "br0")

UsesUserNetwork(c) == ~c.offline /\ ~Bridged(c) /\ c.network = "user"

UsesPasst(c) == ~c.offline /\ c.network = "passt"

UsesPortForwarding(c) == UsesUserNetwork(c) \/ UsesPasst(c)

\* Whether a port is chosen for SPICE; there is one for SSH if ports are forwarded.
HasSpicePort(c, h) ==
    \/ c.display = "none"
    \/ c.display \in {"spice", "spice-app"} /\ (h.os = "windows" \/ c.spicePort)
    \/ c.display = "spice" /\ c.access = "remote"

\* The display that QEMU is given.
Display(c, h) ==
    CASE c.display = "gtk" /\ h.os = "macos" -> "cocoa"
      [] c.display = "gtk" /\ "gtk" \notin h.backends -> "sdl"
      [] c.display = "spice-app" -> "spice"
      [] OTHER -> c.display

ChoosesSshPort(c) == UsesPortForwarding(c) /\ ~c.sshPort

ChoosesSpicePort(c, h) == HasSpicePort(c, h) /\ ~c.spicePort

\* What find_free_port comes upon, which depends on the ports that are bound just now, by
\* the VM itself for one: nothing free in its range; a port for SSH that is configured
\* for SPICE; or the port of swtpm, a hash of its path.
Finds(c, h) ==
    LET chooses == ChoosesSshPort(c) \/ ChoosesSpicePort(c, h) IN
    {"free"}
        \cup When(chooses, {"none"})
        \cup When(ChoosesSshPort(c) /\ HasSpicePort(c, h) /\ c.spicePort, {"spice"})
        \cup When(chooses /\ h.os = "windows" /\ c.tpm, {"swtpm"})

UsesSpice(c, h) == Display(c, h) \in {"none", "spice"}

\* virtiofs_requested: a Linux guest that is installed already, and all that it takes.
VirtiofsRequested(c, h) ==
    h.os = "linux" /\ h.virtiofsd /\ c.guest = "linux" /\ ~c.iso /\ c.share

-----------------------------------------------------------------------------
(* What preflight_vm, detect and build_plan refuse.                        *)

\* check_tsc_stability
RefusesTsc(c, h) == c.guest = "macos" /\ h.os = "linux" /\ ~h.stableTsc

\* validate_usb_devices
RefusesUsb(c, h) == c.hostUsb /\ h.os = "linux" /\ ~h.usbDevices

\* validate_cpu_pinning_for_host
RefusesPinning(c, h) == c.pinned /\ (h.os # "linux" \/ ~h.freeCpus)

RefusesHost(c, h) ==
    \/ RefusesTsc(c, h) \/ RefusesUsb(c, h) \/ RefusesPinning(c, h)
    \/ RefusesQemu(h) \/ RefusesCpu(c, h)

\* add_storage_args: an image that is not there.
RefusesMedia(c) == ~c.media

RefusesDisplay(c, h) ==
    LET backend == IF UsesSpice(c, h) THEN "none" ELSE Display(c, h) IN
    \/ backend \notin h.backends
    \/ backend = "cocoa" /\ h.os # "macos"
    \/ c.clipboard /\ (Display(c, h) # "gtk" \/ ~h.vdagent)

RefusesRemote(c, h) ==
    /\ ~c.insecure
    /\ \/ UsesSpice(c, h) /\ c.access = "remote"
       \/ "telnet" \in {c.monitor, c.serial} /\ c.telnetHost = "remote"

RefusesNetwork(c, h) ==
    \/ UsesPasst(c) /\ (h.os # "linux" \/ ~h.passt)
    \/ ~c.offline /\ c.forwards /\ ~UsesPortForwarding(c)
    \/ Bridged(c) /\ ~h.bridgeHelper

\* ipc_endpoints: those of the file, if there is one.
RefusesIpc(c, state) == state = "bare" /\ c.agent

\* listener_ports and validate_windows_tpm_listener, with the ports that are configured and
\* those that were found.
RefusesPorts(c, h, ports) ==
    \/ c.portsClash
    \/ h.os = "windows" /\ c.tpm /\ c.tpmPortTaken
    \/ ports # "free"

\* validate_unix_socket_paths: the sockets of the VM, each of which is a path of its own.
Sockets(c, h) ==
    {"qmp"}
        \cup {s \in {"monitor", "serial"} : c[s] = "socket"}
        \cup {s \in {"agent", "tpm"} : c[s]}
        \cup When(c.display \in {"spice", "spice-app"} /\ ~HasSpicePort(c, h), {"spice"})
        \cup When(VirtiofsRequested(c, h), {"virtiofs"})

RefusesPaths(c, h) == h.os # "windows" /\ Sockets(c, h) \cap c.longPaths # {}

\* All of it, with the endpoints of ipc.json, the variables and the ports as they are.
Refuses(c, h, state, file, ports, prepare) ==
    \/ RefusesHost(c, h)
    \/ RefusesFirmware(c, h, file, prepare) \/ RefusesMedia(c) \/ RefusesDisplay(c, h)
    \/ RefusesRemote(c, h) \/ RefusesNetwork(c, h) \/ RefusesPorts(c, h, ports)
    \/ RefusesPaths(c, h) \/ RefusesIpc(c, state)

-----------------------------------------------------------------------------
(* The options.                                                            *)

Option(id, provides, needs) == [id |-> id, provides |-> provides, needs |-> needs]

\* System management mode, without which the variables of secure boot cannot be written.
Smm(c, h) == h.os # "macos" /\ (c.secureboot \/ c.guest = "windows")

\* The machine has an IDE bus unless it is virt; on ARM the firmware comes by node names.
MachineOptions(c, h) ==
    {Option("rng0", {}, {}), Option("rng", {}, {"rng0"}),
     Option("machine",
            When(c.arch # "aarch64", {"ide", MachineType(c)} \cup When(Smm(c, h), {"smm"})),
            When(c.arch = "aarch64" /\ c.boot = "efi" /\ ~ArmBios(c, h), {"rom", "efivars"}))}

\* Hardware is what all accelerators but TCG are for.
ProcessorOptions(c, h) ==
    LET accelerator == Accelerator(c, h) IN
    {Option("accel", {accelerator} \cup When(accelerator # "tcg", {"hardware"}), {}),
     Option("cpu", {}, When(CpuModel(c, accelerator) = "host", {"hardware"}))}
        \cup When(accelerator = "kvm" /\ c.arch = "x86_64", {Option("kvm-pit", {}, {"kvm"})})

\* add_guest_tweaks
TweakOptions(c) ==
    When(c.guest \in {"macos", "windows"} /\ MachineType(c) = "q35",
         {Option("ICH9-LPC", {}, {"q35"})})

FirmwareOptions(c, h) ==
    LET variables == IF c.arch = "aarch64" THEN "efivars" ELSE "pflash1"
        code == IF c.arch = "aarch64" THEN "rom" ELSE "pflash0"
    IN CASE c.boot # "efi" -> {}
         [] c.boot = "efi" /\ ArmBios(c, h) -> {Option("bios", {}, {})}
         [] OTHER ->
              {Option(code, {}, {}), Option(variables, {}, {"OVMF_VARS"})}
                  \cup When(c.arch # "aarch64" /\ c.secureboot, {Option("secure", {}, {"smm"})})

\* add_storage_args
StorageOptions(c) ==
    LET scsi == c.arch = "aarch64" /\ c.iso
        bus == CASE c.guest \in {"macos", "kolibrios"} -> {"ahci"}
                 [] c.guest \in {"windows", "reactos"} -> {"ide"}
                 [] OTHER -> {}
        drive == When(c.guest # "reactos", {"SystemDisk"})
    IN {Option(d, {}, {}) : d \in drive} \cup {Option("disk", {}, bus \cup drive)}
       \cup When(c.guest \in {"macos", "kolibrios"}, {Option("ahci", {}, {})})
       \cup When(c.guest = "macos",
              {Option("BootLoader", {}, {}), Option("boot", {}, {"ahci", "BootLoader"})})
       \cup When(scsi, {Option("scsi0", {}, {}), Option("cd0", {}, {}),
                        Option("cdrom", {}, {"scsi0", "cd0"})})
       \cup When(c.iso /\ ~scsi /\ c.guest # "macos", {Option("cdrom", {}, {"ide"})})

SpiceOptions(c, h) ==
    When(Display(c, h) = "spice" \/ (Display(c, h) = "none" /\ HasSpicePort(c, h)),
         {Option("spice", {}, {})})

\* The adapters of display_args that have a variant with OpenGL.
VirtioAdapter(c, h) ==
    \/ c.guest = "linux"
    \/ c.guest = "windows" /\ (c.arch = "aarch64" \/ ~UsesSpice(c, h))

\* OpenGL is on unless the user or spice-app turns it off; over SPICE it takes a local
\* viewer, a backend of its own and a device to render on.
RequestedGl(c, h) ==
    /\ c.gl = "on" \/ (c.gl = "unset" /\ c.display # "spice-app")
    /\ Display(c, h) # "none"
    /\ Display(c, h) = "spice" =>
         /\ c.access = "local"
         /\ h.gl
         /\ "egl-headless" \in h.backends
         /\ h.renderNode

\* What draws, and where it is shown; Cocoa is given no OpenGL.
VideoOptions(c, h) ==
    LET gl == RequestedGl(c, h) /\ VirtioAdapter(c, h) /\ h.gl
        shown == CASE Display(c, h) \in {"gtk", "sdl"} -> gl
                   [] Display(c, h) = "spice" -> RequestedGl(c, h)
                   [] OTHER -> FALSE
    IN {Option("video", {}, When(gl, {"gl"})), Option("display", When(shown, {"gl"}), {})}

UsbOptions(c) ==
    When(c.usb # "none", {Option("input", {"usb"}, {})})
        \cup When(c.usbInput, {Option("keyboard", {}, {"input"})})
        \cup When(c.hostUsb, {Option("hostpass", {"usb"}, {}),
                              Option("hostdevice", {}, {"hostpass"})})
        \cup When(c.braille, {Option("braille", {}, {"usb"})})

AudioOptions(c, h) ==
    When(c.sound # "none",
      {Option("audio0", {}, When(UsesSpice(c, h), {"spice"})),
       Option("sound", {}, {"audio0"} \cup When(c.sound = "usb-audio", {"usb"}))})

NetworkOptions(c) ==
    When((UsesUserNetwork(c) \/ UsesPasst(c)) /\ ~Bridged(c),
      {Option("nic", {}, {}), Option("netdevice", {}, {"nic"})})

ShareOptions(c, h) ==
    CASE VirtiofsRequested(c, h) ->
            {Option("mem", {}, {}), Option("numa", {}, {"mem"}),
             Option("char0", {"virtiofsd"}, {}), Option("share", {}, {"char0", "numa"})}
      [] ~VirtiofsRequested(c, h) /\ c.share /\ c.guest \in {"linux", "macos"} ->
            {Option("fsdev0", {}, {}), Option("share", {}, {"fsdev0"})}
      [] OTHER -> {}

\* The ports of the guest agent and of SPICE, or of the clipboard of GTK.
PortOptions(c, h) ==
    LET gtk == Display(c, h) = "gtk" /\ c.clipboard IN
    When(c.agent \/ UsesSpice(c, h) \/ gtk, {Option("virtio-serial", {}, {})})
        \cup When(c.agent,
               {Option("qga0", {}, {}), Option("agent", {}, {"qga0", "virtio-serial"})})
        \cup When(UsesSpice(c, h),
               {Option("vdagent0", {}, {"spice"}), Option("vdagent", {}, {"vdagent0", "virtio-serial"}),
                Option("webdav0", {}, {"spice"}), Option("webdav", {}, {"webdav0", "virtio-serial"})})
        \cup When(UsesSpice(c, h) /\ h.usbRedirection,
               {Option("spicepass", {"usb"}, {}),
                Option("usbredirchardev", {}, {"spice"}),
                Option("usbredirdev", {}, {"usbredirchardev", "usb"})})
        \cup When(UsesSpice(c, h) /\ h.smartcard,
               {Option("smartpass", {"usb"}, {}), Option("usb-ccid", {}, {"usb"}),
                Option("ccid", {}, {"spice"}), Option("card", {}, {"ccid", "usb-ccid"})})
        \cup When(gtk,
               {Option("vdagent0", {}, {}), Option("clipboard", {}, {"vdagent0", "virtio-serial"})})

TpmOptions(c) ==
    When(c.tpm, {Option("chrtpm", {"swtpm"}, {}), Option("tpm0", {}, {"chrtpm"}),
                 Option("tpm", {}, {"tpm0"})})

\* The monitor and the serial line on Telnet go by a chardev of their own.
ConsoleOptions(c) ==
    When(c.monitor = "telnet", {Option("monitor0", {}, {}), Option("mon", {}, {"monitor0"})})
        \cup When(c.serial = "telnet",
               {Option("serial0", {}, {}), Option("serial", {}, {"serial0"})})

Command(c, h) ==
    MachineOptions(c, h) \cup ProcessorOptions(c, h) \cup FirmwareOptions(c, h)
        \cup StorageOptions(c) \cup TweakOptions(c) \cup VideoOptions(c, h)
        \cup SpiceOptions(c, h) \cup UsbOptions(c)
        \cup AudioOptions(c, h) \cup NetworkOptions(c) \cup ShareOptions(c, h)
        \cup PortOptions(c, h) \cup TpmOptions(c) \cup ConsoleOptions(c)

-----------------------------------------------------------------------------
(* The listeners: where QEMU listens by the options above, what the plan   *)
(* says that start checks and writes to "ports", and the sockets.          *)

Forwarded(c) == {"ssh"} \cup When(c.forwards, {"forward"})

TcpListeners(c, h) ==
    When(NetworkOptions(c) # {}, Forwarded(c))
        \cup When(SpiceOptions(c, h) # {} /\ HasSpicePort(c, h), {"spice"})
        \cup When(c.monitor = "telnet", {"monitor"})
        \cup When(c.serial = "telnet", {"serial"})

\* Mutant: the port of SPICE is only taken down for the SPICE displays.
KnownListeners_NotHeadless(c, h) ==
    When(UsesPortForwarding(c), Forwarded(c))
        \cup When(Display(c, h) = "spice" /\ HasSpicePort(c, h), {"spice"})
        \cup When(c.monitor = "telnet", {"monitor"})
        \cup When(c.serial = "telnet", {"serial"})

KnownListeners(c, h) ==
    When(UsesPortForwarding(c), Forwarded(c))
        \cup When(UsesSpice(c, h) /\ HasSpicePort(c, h), {"spice"})
        \cup When(c.monitor = "telnet", {"monitor"})
        \cup When(c.serial = "telnet", {"serial"})

\* Whom the listeners serve that anyone may use who reaches them.
OpenHosts(c, h) ==
    When("spice" \in TcpListeners(c, h), {c.access})
        \cup When("telnet" \in {c.monitor, c.serial}, {c.telnetHost})

-----------------------------------------------------------------------------
(* restart and start, which hold the operation lock of the VM all along.   *)

CommandInit ==
    /\ config \in {c \in Configs : ValidConfig(c)}
    /\ host \in Hosts
    /\ ipc \in {"none", "bare", "agent"}
    /\ nvram \in {"absent", "file", "symlink"}
    /\ stage = "loaded"
    /\ restarted = FALSE
    /\ found = "free"
    /\ options = {}
    /\ known = {}
    /\ helpers = {}

ApplyLaunchOptions(braille, usb) ==
    /\ stage = "loaded"
    /\ ValidConfig(Launched(config, braille, usb))
    /\ config' = Launched(config, braille, usb)
    /\ stage' = "given"
    /\ UNCHANGED <<host, ipc, nvram, restarted, found, options, known, helpers>>

\* Mutant: restart looks at the host and the endpoints of the run, and plans nothing.
RestartRefuses_DetectsOnly(c, h, state, file, ports) ==
    RefusesHost(c, h) \/ ports # "free" \/ RefusesIpc(c, state)

RestartRefuses(c, h, state, file, ports) == Refuses(c, h, state, file, ports, FALSE)

\* restart: preflight_vm while the VM still runs, and stop.
RestartStops ==
    /\ stage = "given"
    /\ ~restarted
    /\ found' \in Finds(config, host)
    /\ IF RestartRefuses(config, host, ipc, nvram, found')
       THEN stage' = "refused" /\ UNCHANGED restarted
       ELSE stage' = "given" /\ restarted' = TRUE
    /\ UNCHANGED <<config, host, ipc, nvram, options, known, helpers>>

\* The sockets of the old run are removed, "ipc.json" with them; preflight_vm, which chooses
\* the ports anew; build_plan, which now makes the UEFI variables; write_runtime_files.
MakePlan ==
    /\ stage = "given"
    /\ found' \in Finds(config, host)
    /\ IF Refuses(config, host, "none", nvram, found', TRUE)
       THEN /\ stage' = "refused"
            /\ ipc' = "none"
            /\ UNCHANGED <<nvram, options, known>>
       ELSE /\ stage' = "planned"
            /\ ipc' = IF config.agent THEN "agent" ELSE "bare"
            /\ nvram' = Prepared(config, host, nvram)
            /\ options' = Command(config, host)
            /\ known' = KnownListeners(config, host)
    /\ UNCHANGED <<config, host, restarted, helpers>>

\* Mutant: the plan is not made again.
FallBack_KeepsPlan(h) == UNCHANGED <<options, known>>

FallBack(h) == options' = Command(config, h) /\ known' = KnownListeners(config, h)

StartSharing ==
    /\ stage = "planned"
    /\ stage' = "shared"
    /\ \/ /\ VirtiofsRequested(config, host)
          /\ helpers' = helpers \cup {"virtiofsd"}
          /\ UNCHANGED <<host, options, known>>
       \/ /\ VirtiofsRequested(config, host)
          /\ host' = [host EXCEPT !.virtiofsd = FALSE]
          /\ FallBack(host')
          /\ UNCHANGED helpers
       \/ /\ ~VirtiofsRequested(config, host)
          /\ UNCHANGED <<host, options, known, helpers>>
    /\ UNCHANGED <<config, ipc, nvram, restarted, found>>

\* Without swtpm, or with a port or a socket that is taken by now, start gives up and stops
\* the helpers.
StartTpmAndProbe ==
    /\ stage = "shared"
    /\ \/ /\ config.tpm => host.swtpm
          /\ stage' = "probed"
          /\ helpers' = helpers \cup When(config.tpm, {"swtpm"})
          /\ UNCHANGED found
       \/ /\ \/ config.tpm /\ ~host.swtpm /\ UNCHANGED found
             \/ found' = "taken"
          /\ stage' = "refused"
          /\ helpers' = {}
       \/ /\ stage' = "failed"
          /\ helpers' = {}
          /\ UNCHANGED found
    /\ UNCHANGED <<config, host, ipc, nvram, restarted, options, known>>

CommandNext ==
    \/ \E braille \in BOOLEAN, usb \in {"default", "ehci", "none"} :
         ApplyLaunchOptions(braille, usb)
    \/ RestartStops
    \/ MakePlan
    \/ StartSharing
    \/ StartTpmAndProbe

CommandSpec == CommandInit /\ [][CommandNext]_commandVars

-----------------------------------------------------------------------------
(* Properties.                                                             *)

\* Four flaws: ide-hd is chosen for these guests on the ARM machine too, which has no such
\* bus; --usb-controller none takes away the controller that --braille had chosen; on
\* macOS the machine has no SMM, with secure boot or without; and the adapter with
\* OpenGL, where QEMU has it, goes with a display that has none.
KnownUnmet(c, h) ==
    \/ c.arch = "aarch64" /\ c.guest \in {"windows", "reactos"}
    \/ c.braille /\ c.usb = "none"
    \/ h.os = "macos" /\ (c.secureboot \/ (h.gl /\ Display(c, h) = "cocoa"))

Provided ==
    {o.id : o \in options} \cup (UNION {o.provides : o \in options})
        \cup When(nvram = "file", {"OVMF_VARS"})

\* QEMU can work with the command line it is spawned with: no two options have the same id;
\* whatever an option needs another one provides, or start has: hardware for the CPU of
\* the host, SMM for secure boot, OpenGL for the adapter, a file for the UEFI variables;
\* and each helper that it connects to was started, also after virtiofsd has failed and
\* the plan was made again.
CommandIsWhole ==
    stage = "probed" =>
        /\ \A o, p \in options : o.id = p.id => o = p
        /\ KnownUnmet(config, host) \/ (UNION {o.needs : o \in options}) \subseteq Provided
        /\ (UNION {o.provides : o \in options}) \cap {"virtiofsd", "swtpm"} = helpers

\* The TCP ports on which QEMU listens are those that start has found free and written
\* down, and one that asks for no password serves other hosts only if the user has said
\* so.  (With network=passt and a bridge the ports of SSH and of the forwards are written
\* down, and nothing listens there.)
ListenersAreKnown ==
    stage = "probed" =>
        /\ TcpListeners(config, host) = known \ When(Bridged(config), {"ssh", "forward"})
        /\ "remote" \in OpenHosts(config, host) => config.insecure

\* Whatever of the configuration, the host, the endpoints and the firmware lets start refuse
\* a VM, restart finds it before it stops the VM, save three things that it does not look
\* for or cannot foresee: the ports, which are found anew once the VM has released its
\* own; swtpm, which nobody looks for before it is wanted; and the template of the UEFI
\* variables, if those of macOS are gone.
RestartLooksFirst ==
    restarted /\ stage = "refused" =>
        \/ found # "free"
        \/ config.tpm /\ ~host.swtpm
        \/ LacksTemplate(config, host, nvram)

=============================================================================
