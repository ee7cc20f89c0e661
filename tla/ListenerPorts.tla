---------------------------- MODULE ListenerPorts ----------------------------
(***************************************************************************)
(* The TCP ports on which the QEMUs of several VMs listen: how start       *)
(* chooses them, writes them to the file "ports", finds them free and      *)
(* gives them up again for QEMU to bind, while other programs bind and     *)
(* release what they like; and how ssh, view and start --wait ssh, long    *)
(* afterwards, find their way by that file.                                *)
(***************************************************************************)
EXTENDS Integers, FiniteSets

CONSTANTS
    PortVms,
    Ports,              \* the ports of 127.0.0.1
    SshRange,           \* the ports that are tried when none is configured for SSH
    SpiceRange,         \* and for SPICE
    PortConfigs,        \* the configurations that a VM may have
    Nobody, Foreign     \* no owner of a port, and an owner that is no VM

\* A service that does not listen, and one whose port vmctl is to choose.
Off == 0
AutoPort == -1

Services == {"telnet", "ssh", "spice"}

ASSUME PortsAssumption ==
    /\ Ports \subseteq Nat \ {0}
    /\ SshRange \cup SpiceRange \subseteq Ports
    /\ PortConfigs \subseteq [telnet : Ports \cup {Off}, ssh : Ports \cup {Off, AutoPort},
                             spice : Ports \cup {Off, AutoPort}]
    /\ Nobody # Foreign
    /\ {Nobody, Foreign} \cap PortVms = {}

VARIABLES
    start,      \* where the start of each VM is, and with which plan
    ports,      \* the file "ports" of each VM
    qemu,       \* the QEMU of each VM
    owner,      \* who has bound each port
    visit       \* an ssh or a view, from its check to its connection

portVars == <<start, ports, qemu, owner, visit>>

NoPlan == [s \in Services |-> Off]

NoFile == [s \in {} |-> Off]

\* orphan: a start has died, or has run, while this QEMU's PID was not recorded.
NoQemu == [state |-> "none", plan |-> NoPlan, known |-> FALSE, orphan |-> FALSE]

\* steady: the QEMU of the VM has served since the command found it running.
NoVisit == [at |-> "idle", vm |-> Nobody, service |-> "none", port |-> Off, steady |-> FALSE]

PortsInit ==
    /\ start = [v \in PortVms |-> [at |-> "idle", plan |-> NoPlan]]
    /\ ports = [v \in PortVms |-> NoFile]
    /\ qemu = [v \in PortVms |-> NoQemu]
    /\ owner = [p \in Ports |-> Nobody]
    /\ visit = NoVisit

\* Vm::state: a live process that the VM's PID file names.
IsRunning(v) == qemu[v].state # "none" /\ qemu[v].known

Serves(v) == qemu[v].state = "serving"

Listening(plan) == {plan[s] : s \in Services} \ {Off}

-----------------------------------------------------------------------------
(* start, which holds the operation lock of the VM until it is idle again. *)

StartIs(v, label) == start[v].at = label

StartGoes(v, label) ==
    start' = [start EXCEPT ![v].at = label, ![v].plan = IF label = "idle" THEN NoPlan ELSE @]

\* find_free_port: the first port of the range that can be bound now; AutoPort if none can.
FirstFree(range, reserved) ==
    LET free == {p \in range \ reserved : owner[p] = Nobody}
        first == {p \in free : \A q \in free : p <= q}
    IN IF first = {} THEN AutoPort ELSE CHOOSE p \in first : TRUE

\* listener_ports.  A service without a port, or with the port of an earlier one, is
\* an error.
Planned(c) ==
    LET Port(wanted, range, reserved) ==
            IF wanted = AutoPort THEN FirstFree(range, reserved) ELSE wanted
        ssh == Port(c.ssh, SshRange, {c.telnet})
        spice == Port(c.spice, SpiceRange, {c.telnet, ssh})
    IN [telnet |-> c.telnet, ssh |-> ssh, spice |-> spice]

Distinct(plan) ==
    /\ \A s \in Services : plan[s] # AutoPort
    /\ \A s, t \in Services : s # t /\ plan[s] = plan[t] => plan[s] = Off

\* Of a VM that runs already start has nothing to do but to wait for SSH, if it was asked to.
FindRunning(v) ==
    /\ StartIs(v, "idle")
    /\ IsRunning(v)
    /\ StartGoes(v, "waiting")
    /\ UNCHANGED <<ports, qemu, owner, visit>>

\* The rest of the old run is cleared away, the PID file too, and the ports chosen.  The
\* configuration is whatever it is by now: set may change it at any time.
ChoosePorts(v) ==
    /\ StartIs(v, "idle")
    /\ ~IsRunning(v)
    /\ \E c \in PortConfigs :
        /\ Distinct(Planned(c))
        /\ start' = [start EXCEPT ![v] = [at |-> "planned", plan |-> Planned(c)]]
    /\ qemu' = [qemu EXCEPT ![v].orphan = qemu[v].state # "none"]
    /\ UNCHANGED <<ports, owner, visit>>

\* Mutant: the file is written only once.
WritePorts_Once(v) ==
    /\ StartIs(v, "planned")
    /\ ports' = [ports EXCEPT ![v] = IF @ = NoFile THEN start[v].plan ELSE @]
    /\ StartGoes(v, "written")
    /\ UNCHANGED <<qemu, owner, visit>>

\* write_runtime_files; the file is replaced in one step.
WritePorts(v) ==
    /\ StartIs(v, "planned")
    /\ ports' = [ports EXCEPT ![v] = start[v].plan]
    /\ StartGoes(v, "written")
    /\ UNCHANGED <<qemu, owner, visit>>

\* ensure_ipc_endpoints_available binds every port of the plan and releases it.
ProbePorts(v) ==
    /\ StartIs(v, "written")
    /\ StartGoes(v, IF \A p \in Listening(start[v].plan) : owner[p] = Nobody
                    THEN "probed" ELSE "idle")
    /\ UNCHANGED <<ports, qemu, owner, visit>>

\* QEMU is spawned.  A second one of the VM cannot lock the image and exits; the PID
\* file, which named it by then, is removed.
SpawnListener(v) ==
    /\ StartIs(v, "probed")
    /\ IF qemu[v].state = "none"
       THEN /\ qemu' = [qemu EXCEPT ![v].state = "starting", ![v].plan = start[v].plan]
            /\ StartGoes(v, "spawned")
       ELSE /\ qemu' = [qemu EXCEPT ![v].known = FALSE]
            /\ StartGoes(v, "idle")
    /\ UNCHANGED <<ports, owner, visit>>

\* write_pid
RecordPid(v) ==
    /\ StartIs(v, "spawned")
    /\ qemu' = [qemu EXCEPT ![v].known = qemu[v].state # "none"]
    /\ StartGoes(v, "recorded")
    /\ UNCHANGED <<ports, owner, visit>>

\* After the two seconds that QEMU has to fail: done, or on to wait for SSH.  A start that
\* fails by now ends its QEMU (VmLifecycle shows when that goes wrong).
WatchListener(v) ==
    /\ StartIs(v, "recorded")
    /\ \/ StartGoes(v, "idle")
       \/ qemu[v].state # "none" /\ StartGoes(v, "waiting")
    /\ UNCHANGED <<ports, qemu, owner, visit>>

StartDies(v) ==
    /\ ~StartIs(v, "idle")
    /\ StartGoes(v, "idle")
    /\ qemu' = [qemu EXCEPT ![v].orphan = @ \/ (qemu[v].state # "none" /\ ~qemu[v].known)]
    /\ UNCHANGED <<ports, owner, visit>>

-----------------------------------------------------------------------------
(* QEMU and the other programs of the host.                                *)

\* -pidfile
QemuRecordsPid(v) ==
    /\ qemu[v].state = "starting"
    /\ ~qemu[v].known
    /\ qemu' = [qemu EXCEPT ![v].known = TRUE]
    /\ UNCHANGED <<start, ports, owner, visit>>

\* The end of a QEMU takes away whatever the VM's visitors had relied on.
QemuGone(v) ==
    /\ qemu' = [qemu EXCEPT ![v] = NoQemu]
    /\ visit' = IF visit.vm = v THEN [visit EXCEPT !.steady = FALSE] ELSE visit

BindPorts(v) ==
    /\ qemu[v].state = "starting"
    /\ LET wanted == Listening(qemu[v].plan) IN
       \/ /\ \A p \in wanted : owner[p] = Nobody
          /\ owner' = [p \in Ports |-> IF p \in wanted THEN v ELSE owner[p]]
          /\ qemu' = [qemu EXCEPT ![v].state = "serving", ![v].known = TRUE]
          /\ UNCHANGED visit
       \/ /\ \E p \in wanted : owner[p] # Nobody
          /\ QemuGone(v)
          /\ UNCHANGED owner
    /\ UNCHANGED <<start, ports>>

QemuEnds(v) ==
    /\ qemu[v].state # "none"
    /\ QemuGone(v)
    /\ owner' = [p \in Ports |-> IF owner[p] = v THEN Nobody ELSE owner[p]]
    /\ UNCHANGED <<start, ports>>

ForeignBinds(p) ==
    /\ owner[p] \in {Nobody, Foreign}
    /\ owner' = [owner EXCEPT ![p] = IF @ = Nobody THEN Foreign ELSE Nobody]
    /\ UNCHANGED <<start, ports, qemu, visit>>

-----------------------------------------------------------------------------
(* ssh and view, which hold no lock, and start --wait ssh, which does.     *)

\* Mutant: the port is that of the configuration.
Endpoints_FromConfig(v, service) == {c[service] : c \in PortConfigs} \ {Off, AutoPort}

\* runtime_listener; without a file active_ssh_endpoint falls back on the configuration.
Endpoints(v, service) ==
    IF ports[v] # NoFile THEN {ports[v][service]} \ {Off}
    ELSE IF service = "ssh" THEN {c.ssh : c \in PortConfigs} \ {Off, AutoPort} ELSE {}

Visit(v, service) ==
    /\ visit.at = "idle"
    /\ IsRunning(v)
    /\ visit' = [at |-> "checked", vm |-> v, service |-> service, port |-> Off,
                 steady |-> Serves(v) /\ ~qemu[v].orphan]
    /\ UNCHANGED <<start, ports, qemu, owner>>

\* Without an endpoint the command ends with an error.
ReadEndpoint ==
    /\ visit.at = "checked"
    /\ \/ \E p \in Endpoints(visit.vm, visit.service) :
            visit' = [visit EXCEPT !.at = "connecting", !.port = p]
       \/ /\ Endpoints(visit.vm, visit.service) = {}
          /\ visit' = NoVisit
    /\ UNCHANGED <<start, ports, qemu, owner>>

ConnectVisit ==
    /\ visit.at = "connecting"
    /\ visit' = NoVisit
    /\ UNCHANGED <<start, ports, qemu, owner>>

\* wait_for_ssh_ready: any SSH banner will do, and there is a timeout.
WaitForBanner(v) ==
    /\ StartIs(v, "waiting")
    /\ StartGoes(v, "idle")
    /\ UNCHANGED <<ports, qemu, owner, visit>>

-----------------------------------------------------------------------------

StartStep(v) ==
    \/ FindRunning(v) \/ ChoosePorts(v) \/ WritePorts(v) \/ ProbePorts(v) \/ SpawnListener(v)
    \/ RecordPid(v) \/ WatchListener(v) \/ StartDies(v) \/ WaitForBanner(v)

ListenerStep(v) == QemuRecordsPid(v) \/ BindPorts(v) \/ QemuEnds(v)

VisitStep == (\E v \in PortVms, s \in {"ssh", "spice"} : Visit(v, s)) \/ ReadEndpoint \/ ConnectVisit

PortsNext ==
    \/ \E v \in PortVms : StartStep(v) \/ ListenerStep(v)
    \/ \E p \in Ports : ForeignBinds(p)
    \/ VisitStep

PortsSpec == PortsInit /\ [][PortsNext]_portVars

-----------------------------------------------------------------------------
(* Properties.                                                             *)

\* The file "ports" of a VM whose QEMU serves names the ports of that QEMU, which it
\* owns, whatever was set since, whatever other starts have failed, and however many
\* VMs were after the same ports; unless a start died before it had recorded its QEMU.
ServingAsRecorded ==
    \A v \in PortVms : Serves(v) =>
        /\ \A s \in Services : qemu[v].plan[s] # Off => owner[qemu[v].plan[s]] = v
        /\ qemu[v].orphan \/ ports[v] = qemu[v].plan

\* ssh, view and --wait ssh, when they connect, reach another VM, or a program that is
\* none, only if the VM's own QEMU has not served all the time since they found it
\* running.
VisitsReachTheirVm ==
    /\ visit.at = "connecting" /\ visit.steady => owner[visit.port] = visit.vm
    /\ \A v \in PortVms :
        StartIs(v, "waiting") /\ Serves(v) /\ ~qemu[v].orphan =>
            \A p \in Endpoints(v, "ssh") : owner[p] = v

=============================================================================
