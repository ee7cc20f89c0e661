------------------------------- MODULE MCHost -------------------------------
(* What vmctl does with the host, for TLC: signals to processes, listeners *)
(* and their ports, and the configuration file.  The parts share no state, *)
(* so a behaviour uses one of them and the others rest, in one initial     *)
(* state; every action is a disjunct of its own.                           *)
EXTENDS ProcessSignals, ListenerPorts, VmSettings, TLC

VARIABLE part   \* the one that is used

-----------------------------------------------------------------------------
(* The instances.                                                          *)

\* The configured ports lie in the range in which vmctl chooses, so that two VMs can serve
\* at once, with a port of its own each, or be after the same ones.
MCPortConfigs ==
    {[telnet |-> Off, ssh |-> AutoPort, spice |-> Off], [telnet |-> Off, ssh |-> 1, spice |-> 2]}

-----------------------------------------------------------------------------

MCInit ==
    /\ part \in {"signals", "ports", "settings"}
    /\ part # "signals" => pidfd = TRUE /\ target = "vm"
    /\ part # "settings" => disk = "none"
    /\ Init
    /\ PortsInit
    /\ SettingsInit

Signals(Step) == part = "signals" /\ Step /\ UNCHANGED <<portVars, settingsVars, part>>

Listeners(Step) == part = "ports" /\ Step /\ UNCHANGED <<vars, settingsVars, part>>

Setting(Step) == part = "settings" /\ Step /\ UNCHANGED <<vars, portVars, part>>

MCNext ==
    \/ \E p \in Pids : Signals(Fork(p))
    \/ \E p \in Pids : Signals(Launch(p))
    \/ Signals(WritesPidFile)
    \/ \E p \in Pids : Signals(Exit(p))
    \/ Signals(State)
    \/ Signals(StateMatch)
    \/ Signals(StateIdentity)
    \/ Signals(Reread)
    \/ Signals(OpenPidFd)
    \/ Signals(Match)
    \/ Signals(Rematch)
    \/ Signals(Identity)
    \/ Signals(Send)
    \/ Signals(Fail)
    \/ Signals(ReadHelperRecord)
    \/ Signals(HelperMatch)
    \/ Signals(HelperIdentity)
    \/ Signals(HelperSignal)
    \/ Signals(HelperRematch)
    \/ Signals(HelperReidentity)
    \/ Signals(HelperKill)
    \/ Signals(HelperRemove)
    \/ \E v \in PortVms : Listeners(FindRunning(v))
    \/ \E v \in PortVms : Listeners(ChoosePorts(v))
    \/ \E v \in PortVms : Listeners(WritePorts(v))
    \/ \E v \in PortVms : Listeners(ProbePorts(v))
    \/ \E v \in PortVms : Listeners(SpawnListener(v))
    \/ \E v \in PortVms : Listeners(RecordPid(v))
    \/ \E v \in PortVms : Listeners(WatchListener(v))
    \/ \E v \in PortVms : Listeners(StartDies(v))
    \/ \E v \in PortVms : Listeners(WaitForBanner(v))
    \/ \E v \in PortVms : Listeners(QemuRecordsPid(v))
    \/ \E v \in PortVms : Listeners(BindPorts(v))
    \/ \E v \in PortVms : Listeners(QemuEnds(v))
    \/ \E p \in Ports : Listeners(ForeignBinds(p))
    \/ \E v \in PortVms, s \in {"ssh", "spice"} : Listeners(Visit(v, s))
    \/ Listeners(ReadEndpoint)
    \/ Listeners(ConnectVisit)
    \/ \E c \in Commands : Setting(FindVm(c))
    \/ \E c \in Commands : Setting(LockVm(c))
    \/ \E c \in Commands : Setting(CommandDies(c))
    \/ \E c \in Commands : Setting(PrepareSettings(c))
    \/ \E c \in Commands : Setting(ResizeForSet(c))
    \/ \E c \in Commands : Setting(WriteSettings(c))
    \/ \E c \in Commands : Setting(WriteCutShort(c))
    \/ \E c \in Commands : Setting(StartAsRead(c))
    \/ \E c \in Commands : Setting(DeleteConfig(c))
    \/ Setting(QemuExits)

MCSpec == MCInit /\ [][MCNext]_<<vars, portVars, settingsVars, part>>

\* VMs are interchangeable.
Symmetry == Permutations(PortVms)

=============================================================================
