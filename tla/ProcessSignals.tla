---------------------------- MODULE ProcessSignals ----------------------------
(***************************************************************************)
(* How vmctl signals a process it only knows from a PID record, while the  *)
(* system ends processes and gives their PIDs to others.  A record holds a *)
(* PID and the start time of its process; here a process is its birth      *)
(* number, which stands for the start time too.  The steps are the reads   *)
(* of /proc and the system calls, one at a time: anything may happen       *)
(* between two of them.                                                    *)
(***************************************************************************)
EXTENDS Naturals

CONSTANTS
    Pids, NoPid,
    MaxBirths   \* bound on the processes that are ever born

ASSUME SignalAssumption ==
    /\ NoPid \notin Pids
    /\ MaxBirths \in Nat

VARIABLES
    pidfd,      \* whether the system has pidfds (Linux) or only kill by number
    target,     \* what the record is of: "vm" (vm.pid) or "helper"
    births,     \* how many processes were born
    table,      \* the process that has each PID; 0 is none
    named,      \* the processes whose command line is that of the target
    record,     \* the PID record: the PID, the process it was, and whether its
                \* start time was recorded too
    pc,         \* where the vmctl that signals is
    snap,       \* the record it has read
    fd,         \* the process its pidfd refers to
    stale,      \* whether that process was gone when the record was read (auxiliary)
    failed,     \* whether a check, a read or a signal of it went wrong, and it went on
                \* as if it had not (auxiliary)
    result,     \* what kill_process answered
    signalled   \* the processes that were sent a signal (auxiliary)

system == <<pidfd, target, births, table, named, record>>
vars == <<system, pc, snap, fd, stale, failed, result, signalled>>

NoRecord == [pid |-> NoPid, of |-> 0, timed |-> FALSE]

Gone(b) == \A p \in Pids : table[p] # b

Init ==
    /\ pidfd \in BOOLEAN
    /\ target \in {"vm", "helper"}
    /\ births = 0
    /\ table = [p \in Pids |-> 0]
    /\ named = {}
    /\ record = NoRecord
    /\ pc = "idle"
    /\ snap = NoRecord
    /\ fd = 0
    /\ stale = FALSE
    /\ failed = FALSE
    /\ result = "none"
    /\ signalled = {}

-----------------------------------------------------------------------------
(* The system.                                                             *)

Born(p) ==
    /\ births < MaxBirths
    /\ table[p] = 0
    /\ UNCHANGED <<pidfd, target>>
    /\ births' = births + 1
    /\ table' = [table EXCEPT ![p] = births + 1]

\* Some process starts; it may look like the target (a user's own QEMU or swtpm).
Fork(p) ==
    /\ Born(p)
    /\ named' \in {named, named \cup {births + 1}}
    /\ UNCHANGED <<record, pc, snap, fd, stale, failed, result, signalled>>

\* Mutant: the identity is read before the process is there.
Launch_ReadsEarly(p) ==
    /\ target = "helper" => pc = "idle"
    /\ Born(p)
    /\ named' = named \cup {births + 1}
    /\ record' = [pid |-> p, of |-> births, timed |-> TRUE]
    /\ UNCHANGED <<pc, snap, fd, stale, failed, result, signalled>>

\* vmctl launches the target and records it: write_pid, process_record.  The child is not
\* reaped before that, so that its PID is not given away.  The start time may not be had;
\* and where vmctl died, QEMU has written the record without it.  Who launches a helper
\* has the operation lock of the VM, as whoever stops one.
Launch(p) ==
    /\ target = "helper" => pc = "idle"
    /\ Born(p)
    /\ named' = named \cup {births + 1}
    /\ \E timed \in BOOLEAN : record' = [pid |-> p, of |-> births + 1, timed |-> timed]
    /\ UNCHANGED <<pc, snap, fd, stale, failed, result, signalled>>

\* QEMU is started with -pidfile "vm.pid": it writes its bare PID over the record of vmctl,
\* as soon as it gets there.
WritesPidFile ==
    /\ target = "vm"
    /\ record # NoRecord
    /\ ~Gone(record.of)
    /\ record' = [pid |-> record.pid, of |-> record.of, timed |-> FALSE]
    /\ UNCHANGED <<pidfd, target, births, table, named, pc, snap, fd, stale, failed, result,
                   signalled>>

\* A QEMU that ends in order removes its PID file.
Exit(p) ==
    /\ table[p] # 0
    /\ table' = [table EXCEPT ![p] = 0]
    /\ \/ UNCHANGED record
       \/ target = "vm" /\ record.of = table[p] /\ record' = NoRecord
    /\ UNCHANGED <<pidfd, target, births, named, pc, snap, fd, stale, failed, result, signalled>>

-----------------------------------------------------------------------------
(* The reads of a process by its PID.                                      *)

Goto(label) == pc' = label /\ UNCHANGED <<snap, fd, stale, failed, result, signalled>>

Answer(r) ==
    /\ pc' = "idle"
    /\ result' = r
    /\ UNCHANGED <<snap, fd, stale, failed, signalled>>

\* Something fails, and vmctl takes it for an answer.
TakenFor(label, r) ==
    /\ pc' = label
    /\ result' = r
    /\ failed' = TRUE
    /\ UNCHANGED <<snap, fd, stale, signalled>>

\* process_matches_checked, pid_matches: the command line.
Matches == table[snap.pid] \in named

\* Mutant: the name alone decides.
SameIdentity_ByName == TRUE

\* process_identity against the start time on record; a record without one is
\* taken at its PID.
SameIdentity == snap.timed => table[snap.pid] = snap.of

ReadRecord(label) ==
    /\ snap' = record
    /\ stale' = Gone(record.of)
    /\ pc' = label
    /\ UNCHANGED <<fd, result, signalled>>

\* kill(1) or taskkill: whoever has the PID by now.
SignalPid ==
    signalled' = IF table[snap.pid] = 0 THEN signalled
                 ELSE signalled \cup {table[snap.pid]}

\* pidfd_send_signal: the process the descriptor was opened for, if it is there.
SignalPidFd ==
    signalled' = IF Gone(fd) THEN signalled ELSE signalled \cup {fd}

-----------------------------------------------------------------------------
(* The VM's QEMU: Vm::state, then kill_process.                            *)

State ==
    /\ pc = "idle"
    /\ target = "vm"
    /\ record # NoRecord
    /\ snap' = record
    /\ pc' = "state_match"
    /\ stale' = FALSE
    /\ failed' = FALSE
    /\ result' = "none"
    /\ UNCHANGED <<system, fd, signalled>>

\* Off Linux a ps that ends with an error has found nobody.
StateMatch ==
    /\ pc = "state_match"
    /\ \/ Matches /\ Goto("state_identity")
       \/ (~Matches \/ ~pidfd) /\ Answer("stopped")
    /\ UNCHANGED system

\* A start time that cannot be read is another one.
StateIdentity ==
    /\ pc = "state_identity"
    /\ \/ SameIdentity /\ Goto("reread")
       \/ snap.timed /\ Answer("stopped")
    /\ UNCHANGED system

\* Mutant: a record that has changed means that the VM was stopped.
Reread_TakesChangeForStop ==
    /\ pc = "reread"
    /\ IF record.pid = snap.pid
       THEN ReadRecord(IF pidfd THEN "open" ELSE "match") /\ UNCHANGED failed
       ELSE Answer("ok")
    /\ UNCHANGED system

\* kill_process reads the record again.
Reread ==
    /\ pc = "reread"
    /\ IF record.pid = snap.pid
       THEN ReadRecord(IF pidfd THEN "open" ELSE "match") /\ UNCHANGED failed
       ELSE Answer("refused")
    /\ UNCHANGED system

OpenPidFd ==
    /\ pc = "open"
    /\ IF table[snap.pid] = 0
       THEN Answer("ok")
       ELSE /\ fd' = table[snap.pid]
            /\ pc' = "match"
            /\ UNCHANGED <<snap, stale, failed, result, signalled>>
    /\ UNCHANGED system

\* revalidate_vm_process: a process of another name is as good as none; and off Linux a
\* look at the command line that fails.
Match ==
    /\ pc = "match"
    /\ \/ Matches /\ Goto("rematch")
       \/ ~Matches /\ Answer("ok")
       \/ ~pidfd /\ TakenFor("idle", "ok")
    /\ UNCHANGED system

Rematch ==
    /\ pc = "rematch"
    /\ IF Matches THEN Goto("identity") ELSE Answer("refused")
    /\ UNCHANGED system

\* Mutant: the process behind the pidfd is not compared with the record.
Identity_Skipped ==
    /\ pc = "identity"
    /\ Goto("send")
    /\ UNCHANGED system

Identity ==
    /\ pc = "identity"
    /\ IF SameIdentity THEN Goto("send") ELSE Answer("refused")
    /\ UNCHANGED system

\* signal_vm_process; kill(1) fails where nobody has the PID.
Send ==
    /\ pc = "send"
    /\ IF pidfd THEN SignalPidFd ELSE SignalPid
    /\ pc' = "idle"
    /\ result' = IF ~pidfd /\ table[snap.pid] = 0 THEN "refused" ELSE "ok"
    /\ UNCHANGED <<system, snap, fd, stale, failed>>

\* What cannot be read, opened or sent otherwise ends the command: "/proc" or the record,
\* a pidfd that the kernel does not have, kill(1).  (At the start time it is answered with
\* "stopped".)
Fail ==
    /\ pc \in {"state_match", "reread", "open", "match", "rematch", "identity", "send"}
    /\ Answer("refused")
    /\ UNCHANGED system

-----------------------------------------------------------------------------
(* swtpm and virtiofsd: stop_tpm, stop_virtiofsd.                          *)

\* Mutant: the record is removed and the helper left alone.
ReadHelperRecord_RemovesOnly ==
    /\ pc = "idle"
    /\ target = "helper"
    /\ record # NoRecord
    /\ failed' = FALSE
    /\ ReadRecord("helper_remove")
    /\ UNCHANGED system

\* A record that cannot be read is removed as well.
ReadHelperRecord ==
    /\ pc = "idle"
    /\ target = "helper"
    /\ record # NoRecord
    /\ \/ ReadRecord("helper_match") /\ failed' = FALSE
       \/ ReadRecord("helper_remove") /\ failed' = TRUE
    /\ UNCHANGED system

\* helper_process_matches: a check that cannot be made counts as one that does not hold.
Check(from, holds, to) ==
    /\ pc = from
    /\ \/ holds /\ Goto(to)
       \/ ~holds /\ Goto("helper_remove")
       \/ TakenFor("helper_remove", result)
    /\ UNCHANGED system

HelperMatch == Check("helper_match", Matches, "helper_identity")

HelperIdentity == Check("helper_identity", SameIdentity, "helper_signal")

\* terminate_pid, whose failure is not looked at.
Signal(labels) ==
    /\ pc' \in labels
    /\ \/ SignalPid /\ UNCHANGED failed
       \/ UNCHANGED signalled /\ failed' = TRUE
    /\ UNCHANGED <<system, snap, fd, stale, result>>

\* swtpm is killed; virtiofsd is asked to end, and looked for again until it is
\* gone or a second has passed.
HelperSignal ==
    /\ pc = "helper_signal"
    /\ Signal({"helper_remove", "helper_rematch"})

HelperRematch == Check("helper_rematch", Matches, "helper_reidentity")

HelperReidentity == Check("helper_reidentity", SameIdentity, "helper_kill")

HelperKill ==
    /\ pc = "helper_kill"
    /\ Signal({"helper_remove"})

HelperRemove ==
    /\ pc = "helper_remove"
    /\ record' = NoRecord
    /\ pc' = "idle"
    /\ UNCHANGED <<pidfd, target, births, table, named, snap, fd, stale, failed, result, signalled>>

-----------------------------------------------------------------------------

SystemStep(p) == Fork(p) \/ Launch(p) \/ WritesPidFile \/ Exit(p)

VmStep ==
    \/ State \/ StateMatch \/ StateIdentity \/ Reread \/ OpenPidFd
    \/ Match \/ Rematch \/ Identity \/ Send \/ Fail

HelperStep ==
    \/ ReadHelperRecord \/ HelperMatch \/ HelperIdentity \/ HelperSignal
    \/ HelperRematch \/ HelperReidentity \/ HelperKill \/ HelperRemove

Next == (\E p \in Pids : SystemStep(p)) \/ VmStep \/ HelperStep

Spec == Init /\ [][Next]_vars

-----------------------------------------------------------------------------
(* Properties.                                                             *)

Processes == 1 .. births

Records == [pid : Pids, of : Processes, timed : BOOLEAN] \cup {NoRecord}

Labels ==
    {"idle", "state_match", "state_identity", "reread", "open", "match", "rematch",
     "identity", "send", "helper_match", "helper_identity", "helper_signal",
     "helper_rematch", "helper_reidentity", "helper_kill", "helper_remove"}

TypeOK ==
    /\ pidfd \in BOOLEAN
    /\ target \in {"vm", "helper"}
    /\ births \in 0 .. MaxBirths
    /\ table \in [Pids -> 0 .. births]
    /\ named \subseteq Processes
    /\ record \in Records
    /\ pc \in Labels
    /\ snap \in Records
    /\ fd \in 0 .. births
    /\ stale \in BOOLEAN
    /\ failed \in BOOLEAN
    /\ result \in {"none", "stopped", "refused", "ok"}
    /\ signalled \subseteq Processes

\* With pidfds, kill_process signals no process but one of the VM's name; the recorded one,
\* if the record has a start time; and if it has none, as those that QEMU has written over,
\* another one only if the recorded one is gone: whatever happens to them and their PID
\* between the checks and the signal.  (A helper is always signalled by number: the process
\* that gets its PID after the last check is hit.)
SignalsReachTheRecorded ==
    [][pidfd /\ target = "vm" =>
         /\ signalled' \subseteq signalled \cup named
         /\ snap.timed => signalled' \subseteq signalled \cup {snap.of}
         /\ signalled' # signalled => snap.of \in signalled' \/ Gone(snap.of)]_vars

\* A record whose process is gone when it is read leads to no signal at all, to
\* whomever the PID belongs by then, if the record has a start time.
StaleRecordsAreHarmless ==
    [][stale /\ snap.timed => signalled' = signalled]_vars

\* kill_process reports success only when the recorded process has been sent the
\* signal or is gone; or, off Linux, when the look for it has failed.
SuccessIsReal ==
    result = "ok" => snap.of \in signalled \/ Gone(snap.of) \/ (~pidfd /\ failed)

\* stop_tpm and stop_virtiofsd remove the record of a helper only when that helper, which
\* may no longer be what has the PID, has been sent a signal or is gone; or when a read, a
\* check or a signal of theirs has failed, which they do not look at: with its record gone,
\* vmctl has then lost track of a helper that runs.
HelpersAreNotLost ==
    [][target = "helper" /\ record # NoRecord /\ record' = NoRecord =>
         record.of \in signalled \/ Gone(record.of) \/ failed]_vars

=============================================================================
