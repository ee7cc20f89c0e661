----------------------------- MODULE HostProofs -----------------------------
(***************************************************************************)
(* What ProcessSignals and ListenerPorts promise, which vmctl shares with  *)
(* the other programs of the host: PIDs, for any number of processes, and  *)
(* TCP ports, for any number of VMs. The two have no state in common.      *)
(***************************************************************************)
EXTENDS ProcessSignals, ListenerPorts, TLAPS

-----------------------------------------------------------------------------
(* PIDs.  A process that is gone never comes back, so a pidfd refers to    *)
(* the recorded process or that process is gone; a check that finds it     *)
(* alive rules out the latter.                                             *)

VmLabels ==
    {"state_match", "state_identity", "reread", "open", "match", "rematch",
     "identity", "send"}

HelperLabels ==
    {"helper_match", "helper_identity", "helper_signal", "helper_rematch",
     "helper_reidentity", "helper_kill", "helper_remove"}

SignalLabels == {"send", "helper_signal", "helper_rematch", "helper_reidentity", "helper_kill"}

\* A record names a process with its PID, and while that process lives it has that PID.
Names(r) ==
    r # NoRecord =>
        /\ r.pid \in Pids
        /\ r.of \in Processes
        /\ r.timed \in BOOLEAN
        /\ \A p \in Pids : table[p] = r.of => p = r.pid

TableInv ==
    /\ births \in Nat
    /\ table \in [Pids -> 0 .. births]
    /\ \A p, q \in Pids : table[p] = table[q] /\ table[p] # 0 => p = q
    /\ Names(record)
    /\ Names(snap)

\* Who stops a helper is alone with its record.
ControlInv ==
    /\ pidfd \in BOOLEAN
    /\ target \in {"vm", "helper"}
    /\ pc \in {"idle"} \cup (IF target = "vm" THEN VmLabels ELSE HelperLabels)
    /\ pc # "idle" => snap # NoRecord
    /\ target = "helper" /\ pc # "idle" => record = snap

\* The process of the pidfd had the PID on record when it was opened: it is the recorded
\* one, or that is gone; it has that PID still, or is gone, so that the checks of the name
\* and of the start time were of it.
FdInv ==
    pidfd =>
        /\ pc \in {"match", "rematch", "identity", "send"} =>
              /\ fd \in Processes
              /\ fd = snap.of \/ Gone(snap.of)
              /\ \A p \in Pids : table[p] = fd => p = snap.pid
        /\ pc \in {"rematch", "identity", "send"} => fd \in named \/ Gone(fd)
        /\ pc = "send" /\ snap.timed = TRUE => fd = snap.of

StaleInv ==
    stale /\ snap.timed = TRUE =>
        /\ snap = NoRecord \/ Gone(snap.of)
        /\ pc \notin SignalLabels

SInv == TableInv /\ ControlInv /\ FdInv /\ StaleInv

-----------------------------------------------------------------------------

\* The table of PIDs after a step of the system: at most one PID changes, to no
\* process or to a new one.
LEMMA TableStep ==
    ASSUME births \in Nat, table \in [Pids -> 0 .. births],
           NEW p \in Pids, SystemStep(p)
    PROVE  /\ births' \in Nat
           /\ births' \in {births, births + 1}
           /\ table' \in [Pids -> 0 .. births']
           /\ \A q \in Pids : table'[q] \in {table[q], 0, births + 1}
           /\ \A q \in Pids : table'[q] = births + 1 => q = p
<1>1. CASE Fork(p) \/ Launch(p)
  <2>1. births' = births + 1 /\ table' = [table EXCEPT ![p] = births + 1]
    BY <1>1 DEF Fork, Launch, Born
  <2>2. 0 .. births \subseteq 0 .. births' /\ births + 1 \in 0 .. births'
    BY <2>1
  <2> QED BY <2>1, <2>2
<1>2. CASE Exit(p)
  <2>1. births' = births /\ table' = [table EXCEPT ![p] = 0]
    BY <1>2 DEF Exit
  <2> QED BY <2>1
<1>3. CASE WritesPidFile
  BY <1>3 DEF WritesPidFile
<1> QED BY <1>1, <1>2, <1>3 DEF SystemStep

\* A process that is gone stays gone, whatever is born.
LEMMA GoneForGood ==
    ASSUME births \in Nat, table \in [Pids -> 0 .. births],
           NEW p \in Pids, SystemStep(p), NEW b \in 1 .. births, Gone(b)
    PROVE  Gone(b)'
<1>1. b # 0 /\ b # births + 1
  OBVIOUS
<1> QED BY <1>1, TableStep DEF Gone

\* The system keeps every record true to its process.
LEMMA SystemKeeps ==
    ASSUME SignalAssumption, SInv, NEW p \in Pids, SystemStep(p)
    PROVE  SInv'
<1> USE DEF SignalAssumption
<1>1. births \in Nat /\ table \in [Pids -> 0 .. births]
  BY DEF SInv, TableInv
<1>2. pidfd' = pidfd /\ target' = target /\ pc' = pc /\ snap' = snap /\ fd' = fd /\ stale' = stale
  BY DEF SystemStep, Fork, Launch, WritesPidFile, Exit, Born
<1>3. births' \in Nat /\ table' \in [Pids -> 0 .. births'] /\ births' \in {births, births + 1}
  BY <1>1, TableStep
<1>10. \A q, s \in Pids : table'[q] = table'[s] /\ table'[q] # 0 => q = s
  <2>1. \A q, s \in Pids : table[q] = table[s] /\ table[q] # 0 => q = s
    BY DEF SInv, TableInv
  <2>2. \A q \in Pids : table[q] # births + 1
    BY <1>1
  <2> QED BY <1>1, <2>1, <2>2, TableStep
<1>4. Names(snap)'
  <2> SUFFICES ASSUME snap # NoRecord
               PROVE  Names(snap)'
    BY <1>2 DEF Names, NoRecord
  <2>1. /\ snap.pid \in Pids /\ snap.timed \in BOOLEAN
        /\ snap.of \in 1 .. births
        /\ \A q \in Pids : table[q] = snap.of => q = snap.pid
    BY DEF SInv, TableInv, Names, Processes
  <2>2. snap.of \in 1 .. births' /\ snap.of # 0 /\ snap.of # births + 1
    BY <1>1, <1>3, <2>1
  <2>3. \A q \in Pids : table'[q] = snap.of => table[q] = snap.of
    BY <1>1, <2>2, TableStep
  <2> QED BY <1>2, <2>1, <2>2, <2>3 DEF Names, Processes
<1>5. Names(record)'
  <2>1. CASE Launch(p)
    <3>1. PICK t \in BOOLEAN : record' = [pid |-> p, of |-> births + 1, timed |-> t]
      BY <2>1 DEF Launch
    <3>2. births' = births + 1 /\ table' = [table EXCEPT ![p] = births + 1] /\ pidfd' = pidfd
      BY <2>1 DEF Launch, Born
    <3>3. record'.pid = p /\ record'.of = births + 1 /\ record'.timed \in BOOLEAN
      BY <3>1
    <3>4. births + 1 \in 1 .. births + 1 /\ \A q \in Pids : table[q] # births + 1
      BY <1>1
    <3> QED BY <1>1, <3>2, <3>3, <3>4 DEF Names, Processes
  <2>2. CASE Fork(p) \/ Exit(p)
    <3>1. record' = record \/ record' = NoRecord
      BY <2>2 DEF Fork, Exit
    <3>2. CASE record' = record /\ record # NoRecord
      <4>1. record.of \in 1 .. births /\ record.of # births + 1 /\ record.of # 0
        BY <1>1, <3>2 DEF SInv, TableInv, Names, Processes
      <4>2. \A q \in Pids : table'[q] = record.of => table[q] = record.of
        BY <1>1, <4>1, TableStep
      <4> QED BY <1>3, <3>2, <4>1, <4>2 DEF SInv, TableInv, Names, Processes
    <3> QED BY <3>1, <3>2 DEF Names, NoRecord
  <2>3. CASE WritesPidFile
    <3>1. /\ record'.pid = record.pid /\ record'.of = record.of /\ record'.timed \in BOOLEAN
          /\ record # NoRecord /\ UNCHANGED <<table, births>>
      BY <2>3 DEF WritesPidFile
    <3> QED BY <3>1 DEF SInv, TableInv, Names, Processes
  <2> QED BY <2>1, <2>2, <2>3 DEF SystemStep
<1>6. ControlInv'
  <2>1. target = "helper" /\ pc # "idle" => record' = record
    BY DEF SystemStep, Fork, Launch, WritesPidFile, Exit
  <2> QED BY <1>2, <2>1 DEF SInv, ControlInv, NoRecord
<1>7. pc # "idle" => snap.of \in 1 .. births
  BY DEF SInv, ControlInv, TableInv, Names, Processes
<1>8. FdInv'
  <2> SUFFICES ASSUME pidfd, pc \in {"match", "rematch", "identity", "send"}
               PROVE  FdInv'
    BY <1>2 DEF FdInv
  <2>1. /\ fd \in 1 .. births /\ (fd = snap.of \/ Gone(snap.of))
        /\ \A q \in Pids : table[q] = fd => q = snap.pid
        /\ pc \in {"rematch", "identity", "send"} => fd \in named \/ Gone(fd)
        /\ pc = "send" /\ snap.timed = TRUE => fd = snap.of
    BY DEF SInv, FdInv, Processes
  <2>2. fd = snap.of \/ Gone(snap.of)'
    BY <1>1, <1>2, <1>7, <2>1, GoneForGood
  <2>3. fd \in 1 .. births' /\ fd # 0 /\ fd # births + 1
    BY <1>1, <1>3, <2>1
  <2>4. \A q \in Pids : table'[q] = fd => q = snap.pid
    BY <1>1, <2>1, <2>3, TableStep
  <2>5. Gone(fd) => Gone(fd)'
    BY <1>1, <1>2, <2>1, GoneForGood
  <2>6. named \subseteq named'
    BY DEF SystemStep, Fork, Launch, WritesPidFile, Exit
  <2> QED BY <1>2, <2>1, <2>2, <2>3, <2>4, <2>5, <2>6 DEF FdInv, Processes
<1>9. StaleInv'
  <2>1. snap # NoRecord => snap.of \in 1 .. births
    BY DEF SInv, TableInv, Names, Processes
  <2>2. snap' = NoRecord <=> snap = NoRecord
    BY <1>2 DEF NoRecord
  <2> QED BY <1>1, <1>2, <2>1, <2>2, GoneForGood DEF SInv, StaleInv
<1> QED BY <1>3, <1>4, <1>5, <1>6, <1>8, <1>9, <1>10 DEF SInv, TableInv

\* So does every step of kill_process.
LEMMA VmKeeps ==
    ASSUME SignalAssumption, SInv, VmStep
    PROVE  SInv'
<1> USE DEF SignalAssumption
<1>1. target = "vm"
  BY DEF VmStep, State, StateMatch, StateIdentity, Reread, OpenPidFd, Match, Rematch,
         Identity, Send, Fail, SInv, ControlInv, HelperLabels
<1>2. UNCHANGED system /\ UNCHANGED <<pidfd, target>>
  BY DEF VmStep, State, StateMatch, StateIdentity, Reread, OpenPidFd, Match, Rematch,
         Identity, Send, Fail, system
<1>3. record.pid \in Pids => record # NoRecord
  BY DEF NoRecord
<1> DEFINE Same == snap' = snap /\ fd' = fd /\ stale' = stale
<1>4. TableInv'
  <2>1. snap' \in {snap, record}
    BY DEF VmStep, State, StateMatch, StateIdentity, Reread, OpenPidFd, Match, Rematch,
           Identity, Send, Fail, Goto, Answer, TakenFor, ReadRecord
  <2> QED BY <1>2, <2>1 DEF SInv, TableInv, Names, Processes, NoRecord, system
<1>5. /\ (Gone(snap.of) /\ snap' = snap) => Gone(snap.of)'
      /\ Gone(fd) /\ fd' = fd => Gone(fd)'
  BY <1>2 DEF Gone, system
<1>6. ControlInv' /\ (pidfd => pidfd')
  BY <1>1, <1>2, <1>3 DEF VmStep, State, StateMatch, StateIdentity, Reread, OpenPidFd, Match,
     Rematch, Identity, Send, Fail, Goto, Answer, TakenFor, ReadRecord, SInv, ControlInv, TableInv,
     Names, VmLabels, NoRecord, system
<1>7. FdInv'
  <2> SUFFICES ASSUME pidfd, pc' \in {"match", "rematch", "identity", "send"}
               PROVE  FdInv'
    BY <1>2 DEF FdInv
  <2>1. CASE OpenPidFd
    <3>1. /\ fd' = table[snap.pid] /\ fd' # 0 /\ snap' = snap /\ pc' = "match"
      BY <2>1 DEF OpenPidFd, Answer
    <3>2. /\ snap.pid \in Pids /\ table[snap.pid] \in Processes
          /\ \A q \in Pids : table[q] = snap.of => q = snap.pid
          /\ \A q \in Pids : table[q] = table[snap.pid] => q = snap.pid
      BY <2>1, <3>1 DEF OpenPidFd, SInv, ControlInv, TableInv, Names, Processes
    <3> QED BY <1>2, <3>1, <3>2 DEF FdInv, Gone, Processes, system
  <2>2. CASE Match \/ Rematch
    <3>1. /\ snap' = snap /\ fd' = fd /\ Matches /\ pc' \in {"rematch", "identity"}
      BY <2>2 DEF Match, Rematch, Goto, Answer, TakenFor
    <3>2. snap # NoRecord /\ snap.pid \in Pids
      BY <2>2 DEF Match, Rematch, SInv, ControlInv, TableInv, Names
    <3>3. fd \in named \/ Gone(fd)
      BY <2>2, <3>1, <3>2 DEF Match, Rematch, SInv, FdInv, Matches, Gone
    <3> QED BY <1>2, <1>5, <2>2, <3>1, <3>3 DEF Match, Rematch, SInv, FdInv, Gone, Processes, system
  <2>3. CASE Identity
    <3>1. /\ snap' = snap /\ fd' = fd /\ SameIdentity /\ pc' = "send" /\ snap # NoRecord
      BY <2>3 DEF Identity, Goto, Answer, SInv, ControlInv
    <3>2. snap.pid \in Pids /\ snap.timed \in BOOLEAN
      BY <3>1 DEF SInv, TableInv, Names
    <3>3. snap.timed = TRUE => fd = snap.of
      BY <2>3, <3>1, <3>2 DEF Identity, SameIdentity, SInv, FdInv, Gone
    <3> QED BY <1>2, <1>5, <2>3, <3>1, <3>3 DEF Identity, SInv, FdInv, Gone, Processes, system
  <2>4. CASE VmStep /\ ~OpenPidFd /\ ~Match /\ ~Rematch /\ ~Identity
    <3>1. pc' \notin {"match", "rematch", "identity", "send"}
      BY <2>4 DEF VmStep, State, StateMatch, StateIdentity, Reread, Send, Fail, Goto, Answer,
         ReadRecord
    <3> QED BY <3>1
  <2> QED BY <2>1, <2>2, <2>3, <2>4
<1>8. StaleInv'
  <2> SUFFICES ASSUME stale', snap'.timed = TRUE
               PROVE  StaleInv'
    BY DEF StaleInv
  <2>1. CASE Reread
    BY <1>2, <2>1 DEF Reread, ReadRecord, Answer, SInv, StaleInv, SignalLabels, Gone, NoRecord,
       system
  <2>2. CASE Identity
    <3>1. /\ snap' = snap /\ stale' = stale /\ pc' \in {"send", "idle"} /\ snap # NoRecord
          /\ pc' = "send" => SameIdentity
      BY <2>2 DEF Identity, Goto, Answer, SInv, ControlInv
    <3>2. snap.pid \in Pids /\ Gone(snap.of)
      BY <3>1 DEF SInv, TableInv, Names, StaleInv
    <3>3. pc' # "send"
      BY <3>1, <3>2 DEF SameIdentity, Gone
    <3> QED BY <1>5, <3>1, <3>2, <3>3 DEF StaleInv, SignalLabels
  <2>3. CASE VmStep /\ ~Reread /\ ~Identity
    <3>1. ~State /\ snap' = snap /\ stale' = stale /\ pc' \notin SignalLabels
      BY <2>3 DEF VmStep, State, StateMatch, StateIdentity, OpenPidFd, Match, Rematch, Send, Fail,
         Goto, Answer, TakenFor, SignalLabels
    <3> QED BY <1>2, <1>5, <3>1 DEF SInv, StaleInv, NoRecord
  <2> QED BY <2>1, <2>2, <2>3
<1> QED BY <1>4, <1>6, <1>7, <1>8 DEF SInv

\* And every step of stop_tpm and stop_virtiofsd.
LEMMA HelperKeeps ==
    ASSUME SignalAssumption, SInv, HelperStep
    PROVE  SInv'
<1> USE DEF SignalAssumption
<1>1. target = "helper" /\ target # "vm" /\ UNCHANGED <<pidfd, target>>
  BY DEF HelperStep, ReadHelperRecord, HelperMatch, HelperIdentity, HelperSignal, HelperRematch,
         HelperReidentity, HelperKill, HelperRemove, Check, Signal, SInv, ControlInv, VmLabels,
         system
<1>2. births' = births /\ table' = table /\ named' = named
  BY DEF HelperStep, ReadHelperRecord, HelperMatch, HelperIdentity, HelperSignal, HelperRematch,
         HelperReidentity, HelperKill, HelperRemove, Check, Signal, system
<1>3. record' \in {record, NoRecord} /\ snap' \in {snap, record}
  BY DEF HelperStep, ReadHelperRecord, HelperMatch, HelperIdentity, HelperSignal, HelperRematch,
         HelperReidentity, HelperKill, HelperRemove, Check, Signal, Goto, TakenFor, ReadRecord,
         system
<1>4. TableInv'
  BY <1>1, <1>2, <1>3 DEF SInv, TableInv, Names, Processes, NoRecord
<1>5. pc' \notin {"match", "rematch", "identity", "send"}
  BY DEF HelperStep, ReadHelperRecord, HelperMatch, HelperIdentity, HelperSignal, HelperRematch,
         HelperReidentity, HelperKill, HelperRemove, Check, Signal, Goto, TakenFor, ReadRecord
<1>6. FdInv'
  BY <1>5 DEF FdInv
<1>7. CASE ReadHelperRecord
  <2>1. snap' = record /\ record' = record /\ pc' \in {"helper_match", "helper_remove"} /\ record # NoRecord
    BY <1>7 DEF ReadHelperRecord, ReadRecord, system
  <2>2. ControlInv'
    BY <1>1, <2>1 DEF SInv, ControlInv, HelperLabels, NoRecord
  <2>3. StaleInv'
    BY <1>2, <1>7, <2>1 DEF ReadHelperRecord, ReadRecord, StaleInv, SignalLabels, Gone
  <2> QED BY <1>4, <1>6, <2>2, <2>3 DEF SInv
<1>8. CASE HelperRemove
  <2>1. pc' = "idle" /\ snap' = snap /\ stale' = stale
    BY <1>8 DEF HelperRemove
  <2>2. ControlInv'
    BY <1>1, <2>1 DEF SInv, ControlInv
  <2>3. StaleInv'
    BY <1>2, <2>1 DEF SInv, StaleInv, SignalLabels, Gone, NoRecord
  <2> QED BY <1>4, <1>6, <2>2, <2>3 DEF SInv
<1>9. CASE HelperStep /\ ~ReadHelperRecord /\ ~HelperRemove
  <2>1. /\ snap' = snap /\ stale' = stale /\ record' = record
        /\ pc \in HelperLabels /\ pc' \in HelperLabels
        /\ pc' \in SignalLabels => pc \in SignalLabels \/ HelperMatch \/ HelperIdentity
    BY <1>9 DEF HelperStep, HelperMatch, HelperIdentity, HelperSignal, HelperRematch,
       HelperReidentity, HelperKill, Check, Signal, Goto, TakenFor, HelperLabels, SignalLabels,
       system
  <2>2. ControlInv' /\ snap # NoRecord
    BY <1>1, <2>1 DEF SInv, ControlInv, HelperLabels, NoRecord
  <2>3. ASSUME stale, snap.timed = TRUE
        PROVE  pc' \notin SignalLabels
    <3>1. Gone(snap.of) /\ pc \notin SignalLabels /\ snap.pid \in Pids
      BY <2>2, <2>3 DEF SInv, StaleInv, TableInv, Names
    <3>2. HelperMatch => pc' \notin SignalLabels
      BY DEF HelperMatch, Check, Goto, TakenFor, SignalLabels
    <3>3. HelperIdentity => pc' \notin SignalLabels
      BY <2>3, <3>1 DEF HelperIdentity, Check, Goto, TakenFor, SameIdentity, Gone, SignalLabels
    <3> QED BY <2>1, <3>1, <3>2, <3>3
  <2>4. StaleInv'
    BY <1>2, <2>1, <2>2, <2>3 DEF SInv, StaleInv, Gone, NoRecord
  <2> QED BY <1>4, <1>6, <2>2, <2>4 DEF SInv
<1> QED BY <1>7, <1>8, <1>9

\* The invariant is inductive: the three lemmas above cover every step.
LEMMA SignalsInv ==
    ASSUME SignalAssumption, SInv, [Next]_vars
    PROVE  SInv'
<1>1. CASE UNCHANGED vars
  BY <1>1 DEF SInv, TableInv, ControlInv, FdInv, StaleInv, Names, Processes, Gone, NoRecord,
     vars, system
<1> QED BY <1>1, SystemKeeps, VmKeeps, HelperKeeps DEF Next

\* It holds before any process is born.
LEMMA SignalsInit ==
    ASSUME SignalAssumption, Init
    PROVE  SInv
  BY DEF SignalAssumption, Init, SInv, TableInv, ControlInv, FdInv, StaleInv, Names, NoRecord

\* With pidfds, kill_process signals no process of another name, no other process than
\* the one recorded in vm.pid with its start time, and, once QEMU has written over that,
\* no other one while the recorded one lives: not for any number of PIDs, nor any reuse of
\* them between its steps.
THEOREM VmSignalsReachTheRecorded ==
    ASSUME SignalAssumption
    PROVE  Spec => SignalsReachTheRecorded
<1> DEFINE Reached ==
      /\ signalled' \subseteq signalled \cup named
      /\ snap.timed => signalled' \subseteq signalled \cup {snap.of}
      /\ signalled' # signalled => snap.of \in signalled' \/ Gone(snap.of)
<1>1. ASSUME SInv, [Next]_vars
      PROVE  [pidfd /\ target = "vm" => Reached]_vars
  <2>1. CASE signalled' = signalled
    BY <2>1
  <2>2. CASE UNCHANGED vars
    BY <2>2
  <2>3. CASE \E p \in Pids : SystemStep(p)
    BY <2>1, <2>3 DEF SystemStep, Fork, Launch, WritesPidFile, Exit
  <2>4. CASE Send /\ pidfd
    <3>1. /\ signalled' = signalled \/ (signalled' = signalled \cup {fd} /\ ~Gone(fd))
          /\ pc = "send" /\ snap # NoRecord
      BY <1>1, <2>4 DEF Send, SignalPidFd, SInv, ControlInv
    <3>2. /\ fd = snap.of \/ Gone(snap.of)
          /\ fd \in named \/ Gone(fd)
          /\ snap.timed = TRUE => fd = snap.of
          /\ snap.timed \in BOOLEAN
      BY <1>1, <2>4, <3>1 DEF SInv, FdInv, TableInv, Names
    <3> QED BY <2>1, <3>1, <3>2
  <2>5. CASE VmStep /\ ~Send
    BY <2>1, <2>5 DEF VmStep, State, StateMatch, StateIdentity, Reread, OpenPidFd, Match, Rematch,
       Identity, Fail, Goto, Answer, TakenFor, ReadRecord
  <2>6. CASE HelperStep
    BY <1>1, <2>6 DEF HelperStep, ReadHelperRecord, HelperMatch, HelperIdentity, HelperSignal,
       HelperRematch, HelperReidentity, HelperKill, HelperRemove, Check, SInv, ControlInv, VmLabels
  <2> QED BY <1>1, <2>2, <2>3, <2>4, <2>5, <2>6 DEF Next
<1> QED BY <1>1, SignalsInit, SignalsInv, PTL DEF Spec, SignalsReachTheRecorded

\* A record that has a start time and is stale when it is read leads to no signal, in
\* kill_process as in stop_tpm and stop_virtiofsd.
THEOREM StaleRecordsSignalNobody ==
    ASSUME SignalAssumption
    PROVE  Spec => StaleRecordsAreHarmless
<1>1. ASSUME SInv, [Next]_vars
      PROVE  [stale /\ snap.timed => signalled' = signalled]_vars
  <2>1. CASE UNCHANGED vars
    BY <2>1 DEF vars
  <2>2. CASE \E p \in Pids : SystemStep(p)
    BY <2>2 DEF SystemStep, Fork, Launch, WritesPidFile, Exit
  <2>3. CASE Send \/ HelperSignal \/ HelperKill
    BY <1>1, <2>3 DEF Send, HelperSignal, HelperKill, SInv, TableInv, Names, StaleInv, SignalLabels
  <2>4. CASE VmStep /\ ~Send
    BY <2>4 DEF VmStep, State, StateMatch, StateIdentity, Reread, OpenPidFd, Match, Rematch,
       Identity, Fail, Goto, Answer, TakenFor, ReadRecord
  <2>5. CASE HelperStep /\ ~HelperSignal /\ ~HelperKill
    BY <2>5 DEF HelperStep, ReadHelperRecord, HelperMatch, HelperIdentity, HelperRematch,
       HelperReidentity, HelperRemove, Check, Signal, Goto, TakenFor, ReadRecord
  <2> QED BY <1>1, <2>1, <2>2, <2>3, <2>4, <2>5 DEF Next
<1> QED BY <1>1, SignalsInit, SignalsInv, PTL DEF Spec, StaleRecordsAreHarmless

-----------------------------------------------------------------------------
(* Types, and what an answer is worth.  A process that was recorded has    *)
(* the name that is looked for, so that a check that fails means that it   *)
(* is gone.                                                                *)

\* No process is born while the table of PIDs is read.
LEMMA ReadsLeaveSystem ==
    ASSUME VmStep \/ HelperStep
    PROVE  UNCHANGED <<pidfd, target, births, table, named>>
BY DEF VmStep, State, StateMatch, StateIdentity, Reread, OpenPidFd, Match, Rematch, Identity,
   Send, Fail,
       HelperStep, ReadHelperRecord, HelperMatch, HelperIdentity, HelperSignal, HelperRematch,
       HelperReidentity, HelperKill, HelperRemove, Check, Signal, TakenFor, system

\* The recorded process has its PID, or is gone.
LEMMA TheRecordedHasItsPid ==
    ASSUME SInv, snap # NoRecord
    PROVE  /\ snap.pid \in Pids
           /\ snap.of \in Processes
           /\ snap.of # 0
           /\ Gone(snap.of) \/ table[snap.pid] = snap.of
  BY DEF SInv, TableInv, Names, Processes, Gone

\* What is signalled is a process, and the recorded one if that is there.
LEMMA SignalsByPid ==
    ASSUME SInv, TypeOK, pc # "idle", SignalPid
    PROVE  /\ signalled' \subseteq Processes
           /\ signalled \subseteq signalled'
           /\ snap.of \in signalled' \/ Gone(snap.of)
<1>1. snap # NoRecord
  BY DEF SInv, ControlInv
<1>2. table[snap.pid] = 0 \/ table[snap.pid] \in Processes
  BY <1>1, TheRecordedHasItsPid DEF TypeOK, Processes
<1> QED BY <1>1, <1>2, TheRecordedHasItsPid DEF SignalPid, TypeOK

LEMMA SignalsByPidFd ==
    ASSUME SInv, TypeOK, pidfd, pc = "send", SignalPidFd
    PROVE  /\ signalled' \subseteq Processes
           /\ signalled \subseteq signalled'
           /\ snap.of \in signalled' \/ Gone(snap.of)
<1>1. fd \in Processes /\ (fd = snap.of \/ Gone(snap.of))
  BY DEF SInv, FdInv
<1>2. signalled' = signalled \cup {fd} \/ (signalled' = signalled /\ Gone(fd))
  BY DEF SignalPidFd
<1> QED BY <1>1, <1>2 DEF TypeOK

\* The types survive every step: a signal reaches processes only.
LEMMA TypesKept ==
    ASSUME SignalAssumption, SInv, TypeOK, [Next]_vars
    PROVE  TypeOK'
<1> USE DEF SignalAssumption
<1>1. CASE UNCHANGED vars
  BY <1>1 DEF TypeOK, Records, Processes, vars, system
<1>2. ASSUME NEW p \in Pids, SystemStep(p)
      PROVE  TypeOK'
  <2>1. births \in Nat /\ table \in [Pids -> 0 .. births]
    BY DEF SInv, TableInv
  <2>2. /\ births' \in {births, births + 1} /\ births' \in 0 .. MaxBirths
        /\ table' \in [Pids -> 0 .. births']
    <3>1. births' = births \/ (births' = births + 1 /\ births < MaxBirths)
      BY <1>2 DEF SystemStep, Fork, Launch, WritesPidFile, Exit, Born
    <3>2. births \in 0 .. MaxBirths
      BY DEF TypeOK
    <3> QED BY <1>2, <2>1, <3>1, <3>2, TableStep
  <2>3. Processes \subseteq Processes' /\ 0 .. births \subseteq 0 .. births' /\ Records \subseteq Records'
    BY <2>1, <2>2 DEF Processes, Records
  <2>4. /\ pc' = pc /\ snap' = snap /\ fd' = fd /\ stale' = stale /\ failed' = failed
        /\ result' = result /\ signalled' = signalled /\ pidfd' = pidfd /\ target' = target
    BY <1>2 DEF SystemStep, Fork, Launch, WritesPidFile, Exit, Born
  <2>5. named' \subseteq Processes' /\ record' \in Records'
    <3>1. CASE Fork(p)
      <4>1. births + 1 \in Processes'
        BY <2>1, <3>1 DEF Fork, Born, Processes
      <4> QED BY <2>3, <3>1, <4>1 DEF Fork, TypeOK
    <3>2. CASE Launch(p)
      <4>1. births + 1 \in Processes'
        BY <2>1, <3>2 DEF Launch, Born, Processes
      <4>2. PICK t \in BOOLEAN : record' = [pid |-> p, of |-> births + 1, timed |-> t]
        BY <3>2 DEF Launch
      <4> QED BY <2>3, <3>2, <4>1, <4>2 DEF Launch, TypeOK, Records
    <3>3. CASE Exit(p)
      BY <2>3, <3>3 DEF Exit, TypeOK, Records
    <3>4. CASE WritesPidFile
      <4>1. /\ named' = named /\ record \in Records /\ record # NoRecord
            /\ record' = [pid |-> record.pid, of |-> record.of, timed |-> FALSE]
        BY <3>4 DEF WritesPidFile, TypeOK
      <4>2. record.pid \in Pids /\ record.of \in Processes
        BY <4>1 DEF Records
      <4> QED BY <2>3, <4>1, <4>2 DEF Records, TypeOK
    <3> QED BY <1>2, <3>1, <3>2, <3>3, <3>4 DEF SystemStep
  <2>6. /\ snap' \in Records' /\ signalled' \subseteq Processes' /\ fd' \in 0 .. births'
    BY <2>3, <2>4 DEF TypeOK
  <2> QED BY <2>2, <2>4, <2>5, <2>6 DEF TypeOK, Labels
<1>3. CASE VmStep \/ HelperStep
  <2>1. UNCHANGED <<pidfd, target, births, table, named>>
    BY <1>3, ReadsLeaveSystem
  <2>2. Processes' = Processes /\ Records' = Records
    BY <2>1 DEF Processes, Records
  <2>3. record' \in Records /\ snap' \in Records
    BY <1>3 DEF TypeOK, Records, VmStep, State, StateMatch, StateIdentity, Reread, OpenPidFd, Match,
       Rematch, Identity, Send, Fail, HelperStep, ReadHelperRecord, HelperMatch, HelperIdentity,
       HelperSignal, HelperRematch, HelperReidentity, HelperKill, HelperRemove, Check, Signal,
       Goto, TakenFor,
       Answer, ReadRecord, system
  <2>4. fd' \in 0 .. births
    <3>1. CASE OpenPidFd
      <4>1. snap # NoRecord
        BY <3>1 DEF OpenPidFd, SInv, ControlInv
      <4> QED BY <3>1, <4>1, TheRecordedHasItsPid DEF OpenPidFd, TypeOK, Answer
    <3>2. CASE ~OpenPidFd
      BY <1>3, <3>2 DEF TypeOK, VmStep, State, StateMatch, StateIdentity, Reread, Match,
         Rematch, Identity, Send, Fail, HelperStep, ReadHelperRecord, HelperMatch, HelperIdentity,
         HelperSignal, HelperRematch, HelperReidentity, HelperKill, HelperRemove, Check, Signal,
         Goto, TakenFor,
         Answer, ReadRecord
    <3> QED BY <3>1, <3>2
  <2>5. stale' \in BOOLEAN /\ failed' \in BOOLEAN
    BY <1>3 DEF TypeOK, VmStep, State, StateMatch, StateIdentity, Reread, OpenPidFd, Match,
       Rematch, Identity, Send, Fail, HelperStep, ReadHelperRecord, HelperMatch, HelperIdentity,
       HelperSignal, HelperRematch, HelperReidentity, HelperKill, HelperRemove, Check, Signal,
       Goto, TakenFor,
       Answer, ReadRecord, Gone
  <2>6. pc' \in Labels /\ result' \in {"none", "stopped", "refused", "ok"}
    BY <1>3 DEF TypeOK, Labels, VmStep, State, StateMatch, StateIdentity, Reread, OpenPidFd, Match,
       Rematch, Identity, Send, Fail, HelperStep, ReadHelperRecord, HelperMatch, HelperIdentity,
       HelperSignal, HelperRematch, HelperReidentity, HelperKill, HelperRemove, Check, Signal,
       Goto, TakenFor,
       Answer, ReadRecord
  <2>7. signalled' \subseteq Processes
    <3>1. CASE Send \/ HelperSignal \/ HelperKill
      <4>1. /\ pc # "idle"
            /\ SignalPid \/ (pidfd /\ pc = "send" /\ SignalPidFd) \/ UNCHANGED signalled
        BY <3>1 DEF Send, HelperSignal, HelperKill, Signal
      <4> QED BY <4>1, SignalsByPid, SignalsByPidFd DEF TypeOK
    <3>2. CASE ~Send /\ ~HelperSignal /\ ~HelperKill
      BY <1>3, <3>2 DEF TypeOK, VmStep, State, StateMatch, StateIdentity, Reread, OpenPidFd, Match,
         Rematch, Identity, Fail, HelperStep, ReadHelperRecord, HelperMatch, HelperIdentity,
         HelperRematch, HelperReidentity, HelperRemove, Check, Signal, Goto, TakenFor, Answer,
         ReadRecord
    <3> QED BY <3>1, <3>2
  <2> QED BY <2>1, <2>2, <2>3, <2>4, <2>5, <2>6, <2>7 DEF TypeOK
<1> QED BY <1>1, <1>2, <1>3 DEF Next

\* Every state is well typed: in particular no signal goes to a PID that nobody has, or
\* to a process that was never born.
THEOREM SignalsTypeCorrectness ==
    ASSUME SignalAssumption
    PROVE  Spec => []TypeOK
<1>1. ASSUME Init
      PROVE  TypeOK
  <2>1. births = 0 /\ 0 \in 0 .. MaxBirths /\ 0 \in 0 .. 0
    BY <1>1 DEF SignalAssumption, Init
  <2>2. table \in [Pids -> 0 .. births] /\ fd \in 0 .. births
    BY <1>1, <2>1 DEF Init
  <2>3. record \in Records /\ snap \in Records /\ pc \in Labels
    BY <1>1 DEF Init, Records, Labels
  <2> QED BY <1>1, <2>1, <2>2, <2>3 DEF Init, TypeOK
<1> QED BY <1>1, SignalsInit, SignalsInv, TypesKept, PTL DEF Spec

-----------------------------------------------------------------------------
(* What an answer is worth.  A recorded process has the name that is looked *)
(* for, as long as it lives, so that a check that does not hold means that  *)
(* it is gone, unless it could not be made.                                 *)

\* The recorded process has been sent a signal, or is gone.
Handled == snap.of \in signalled \/ Gone(snap.of)

AfterHelperSignal == {"helper_remove", "helper_rematch", "helper_reidentity", "helper_kill"}

\* While vmctl works there is no answer, and a helper never gets one; what is on record
\* is named as what it is; an answer "ok", and the removal of a helper's record, come
\* after the signal or the end of the process, or after something that failed.
AnswerInv ==
    /\ target = "helper" \/ pc # "idle" => result = "none"
    /\ record # NoRecord => record.of \in named
    /\ snap # NoRecord => snap.of \in named
    /\ result = "ok" => snap # NoRecord
    /\ result = "ok" => Handled \/ (~pidfd /\ failed)
    /\ pc \in AfterHelperSignal => Handled \/ failed

\* A check that does not hold finds no process, or another one, at the PID.
LEMMA NoMatchMeansGone ==
    ASSUME SInv, AnswerInv, snap # NoRecord,
           ~Matches \/ ~SameIdentity \/ table[snap.pid] = 0
    PROVE  Gone(snap.of)
  BY TheRecordedHasItsPid DEF AnswerInv, Matches, SameIdentity

\* The system may end the recorded process; it neither revives nor renames it.
LEMMA SystemKeepsAnswer ==
    ASSUME SignalAssumption, SInv, AnswerInv, NEW p \in Pids, SystemStep(p)
    PROVE  AnswerInv'
<1>1. births \in Nat /\ table \in [Pids -> 0 .. births]
  BY DEF SInv, TableInv
<1>2. /\ pc' = pc /\ snap' = snap /\ result' = result /\ signalled' = signalled
      /\ failed' = failed /\ pidfd' = pidfd /\ target' = target /\ named \subseteq named'
  BY DEF SystemStep, Fork, Launch, WritesPidFile, Exit, Born
<1>3. record' # NoRecord => record'.of \in named'
  <2>1. CASE Launch(p)
    <3>1. PICK t \in BOOLEAN : record' = [pid |-> p, of |-> births + 1, timed |-> t]
      BY <2>1 DEF Launch
    <3> QED BY <2>1, <3>1 DEF Launch
  <2>2. CASE WritesPidFile
    BY <1>2, <2>2 DEF WritesPidFile, AnswerInv
  <2>3. CASE Fork(p) \/ Exit(p)
    BY <1>2, <2>3 DEF Fork, Exit, AnswerInv
  <2> QED BY <2>1, <2>2, <2>3 DEF SystemStep
<1>4. NoRecord' = NoRecord
  BY DEF NoRecord
<1>5. snap # NoRecord /\ Handled => Handled'
  <2>1. snap # NoRecord => snap.of \in 1 .. births
    BY DEF SInv, TableInv, Names, Processes
  <2> QED BY <1>1, <1>2, <2>1, GoneForGood DEF Handled
<1>6. pc \in AfterHelperSignal => snap # NoRecord
  BY DEF SInv, ControlInv, AfterHelperSignal
<1> QED BY <1>2, <1>3, <1>4, <1>5, <1>6 DEF AnswerInv, AfterHelperSignal

\* kill_process says "ok" where it finds no process of the VM, and after the signal.
LEMMA VmKeepsAnswer ==
    ASSUME SignalAssumption, SInv, TypeOK, AnswerInv, VmStep
    PROVE  AnswerInv'
<1>1. UNCHANGED <<pidfd, target, births, table, named>> /\ record' = record /\ NoRecord' = NoRecord
  BY DEF VmStep, State, StateMatch, StateIdentity, Reread, OpenPidFd, Match, Rematch, Identity,
         Send, Fail, system, NoRecord
<1>2. target = "vm" /\ pc \notin AfterHelperSignal /\ pc' \notin AfterHelperSignal
  BY DEF VmStep, State, StateMatch, StateIdentity, Reread, OpenPidFd, Match, Rematch, Identity,
         Send, Fail, SInv, ControlInv, HelperLabels, AfterHelperSignal, Goto, Answer, TakenFor,
         ReadRecord
<1>3. (Gone(snap.of) /\ snap' = snap) => Gone(snap.of)'
  BY <1>1 DEF Gone
<1>4. CASE State
  BY <1>1, <1>2, <1>4 DEF State, AnswerInv
<1>5. CASE StateMatch \/ StateIdentity
  BY <1>1, <1>2, <1>5 DEF StateMatch, StateIdentity, Goto, Answer, TakenFor, AnswerInv
<1>6. CASE Reread
  BY <1>1, <1>2, <1>6 DEF Reread, ReadRecord, Answer, AnswerInv, SInv, ControlInv, TableInv, Names,
     NoRecord
<1>7. CASE OpenPidFd \/ Match
  <2>1. snap # NoRecord
    BY <1>7 DEF OpenPidFd, Match, SInv, ControlInv
  <2> QED BY <1>1, <1>2, <1>3, <1>7, <2>1, NoMatchMeansGone
          DEF OpenPidFd, Match, Goto, Answer, TakenFor, AnswerInv, Handled
<1>8. CASE Rematch \/ Identity \/ Fail
  BY <1>1, <1>2, <1>8 DEF Rematch, Identity, Fail, Goto, Answer, TakenFor, AnswerInv
<1>9. CASE Send
  <2>1. snap # NoRecord /\ snap' = snap /\ pc = "send" /\ pc' = "idle" /\ pc # "idle"
    BY <1>9 DEF Send, SInv, ControlInv
  <2>2. SignalPid \/ (pidfd /\ SignalPidFd)
    BY <1>9 DEF Send
  <2>3. snap.of \in signalled' \/ Gone(snap.of)
    BY <2>1, <2>2, SignalsByPid, SignalsByPidFd
  <2>4. Handled'
    BY <1>3, <2>1, <2>3 DEF Handled
  <2> QED BY <1>1, <1>2, <2>1, <2>4 DEF AnswerInv
<1> QED BY <1>4, <1>5, <1>6, <1>7, <1>8, <1>9 DEF VmStep

\* stop_tpm and stop_virtiofsd get to the removal of the record by a check that does not
\* hold, by a signal, or by a failure.
LEMMA HelperKeepsAnswer ==
    ASSUME SignalAssumption, SInv, TypeOK, AnswerInv, HelperStep
    PROVE  AnswerInv'
<1>1. UNCHANGED <<pidfd, target, births, table, named, result>> /\ NoRecord' = NoRecord
  BY DEF HelperStep, ReadHelperRecord, HelperMatch, HelperIdentity, HelperSignal, HelperRematch,
         HelperReidentity, HelperKill, HelperRemove, Check, Signal, Goto, TakenFor, ReadRecord,
         system, NoRecord
<1>2. target = "helper" /\ result = "none"
  BY DEF HelperStep, ReadHelperRecord, HelperMatch, HelperIdentity, HelperSignal, HelperRematch,
         HelperReidentity, HelperKill, HelperRemove, Check, Signal, TakenFor, SInv, ControlInv,
         VmLabels, AnswerInv
<1>3. (Gone(snap.of) /\ snap' = snap) => Gone(snap.of)'
  BY <1>1 DEF Gone
<1>4. record' \in {record, NoRecord} /\ snap' \in {snap, record}
  BY DEF HelperStep, ReadHelperRecord, HelperMatch, HelperIdentity, HelperSignal, HelperRematch,
         HelperReidentity, HelperKill, HelperRemove, Check, Signal, Goto, TakenFor, ReadRecord,
         system
<1>5. pc' \in AfterHelperSignal => Handled' \/ failed'
  <2>1. CASE ReadHelperRecord
    BY <2>1 DEF ReadHelperRecord, ReadRecord, AfterHelperSignal
  <2>2. CASE HelperMatch \/ HelperIdentity \/ HelperRematch \/ HelperReidentity
    <3>1. snap # NoRecord /\ snap' = snap /\ signalled' = signalled /\ (failed' = failed \/ failed')
      BY <2>2 DEF HelperMatch, HelperIdentity, HelperRematch, HelperReidentity, Check, Signal,
         Goto, TakenFor, SInv,
         ControlInv
    <3>2. CASE pc \in AfterHelperSignal
      BY <1>3, <3>1, <3>2 DEF AnswerInv, Handled
    <3>3. CASE pc \notin AfterHelperSignal
      BY <1>3, <2>2, <3>1, <3>3, NoMatchMeansGone
         DEF HelperMatch, HelperIdentity, HelperRematch, HelperReidentity, Check, Signal, Goto,
            TakenFor,
             AfterHelperSignal, Handled
    <3> QED BY <3>2, <3>3
  <2>3. CASE HelperSignal \/ HelperKill
    <3>1. snap' = snap /\ pc # "idle" /\ (SignalPid \/ failed' = TRUE)
      BY <2>3 DEF HelperSignal, HelperKill, Signal
    <3> QED BY <1>3, <3>1, SignalsByPid DEF Handled
  <2>4. CASE HelperRemove
    BY <2>4 DEF HelperRemove, AfterHelperSignal
  <2> QED BY <2>1, <2>2, <2>3, <2>4 DEF HelperStep
<1> QED BY <1>1, <1>2, <1>4, <1>5 DEF AnswerInv

\* The invariant is inductive.
LEMMA AnswersInv ==
    ASSUME SignalAssumption, SInv, TypeOK, AnswerInv, [Next]_vars
    PROVE  AnswerInv'
<1>1. CASE UNCHANGED vars
  BY <1>1 DEF AnswerInv, Handled, Gone, NoRecord, vars, system
<1> QED BY <1>1, SystemKeepsAnswer, VmKeepsAnswer, HelperKeepsAnswer DEF Next

LEMMA AnswersInit ==
    ASSUME Init
    PROVE  AnswerInv
  BY DEF Init, AnswerInv, AfterHelperSignal

\* kill_process never reports a success while the recorded process lives and has been
\* sent nothing, whoever has had its PID in between.
THEOREM SuccessIsRealHolds ==
    ASSUME SignalAssumption
    PROVE  Spec => []SuccessIsReal
<1>1. AnswerInv => SuccessIsReal
  BY DEF AnswerInv, Handled, SuccessIsReal
<1> QED BY <1>1, SignalsInit, SignalsInv, SignalsTypeCorrectness, AnswersInit, AnswersInv,
   PTL DEF Spec

\* A helper's record is not removed while the helper lives and has been sent nothing, unless
\* something has failed on the way.
THEOREM HelpersAreNotLostHolds ==
    ASSUME SignalAssumption
    PROVE  Spec => HelpersAreNotLost
<1>1. ASSUME SInv, AnswerInv, [Next]_vars
      PROVE  [target = "helper" /\ record # NoRecord /\ record' = NoRecord =>
                record.of \in signalled \/ Gone(record.of) \/ failed]_vars
  <2>1. CASE UNCHANGED vars
    BY <2>1 DEF vars, system
  <2>2. CASE \E p \in Pids : SystemStep(p)
    <3>1. PICK p \in Pids : SystemStep(p)
      BY <2>2
    <3>2. births \in Nat
      BY <1>1 DEF SInv, TableInv
    <3>3. target = "helper" => record' = record \/ record'.of = births + 1
      <4>1. CASE Launch(p)
        <5>1. PICK t \in BOOLEAN : record' = [pid |-> p, of |-> births + 1, timed |-> t]
          BY <4>1 DEF Launch
        <5> QED BY <5>1
      <4>2. CASE ~Launch(p) /\ target = "helper"
        BY <3>1, <4>2 DEF SystemStep, Fork, WritesPidFile, Exit
      <4> QED BY <4>1, <4>2
    <3>4. NoRecord.of = 0
      BY DEF NoRecord
    <3> QED BY <3>2, <3>3, <3>4
  <2>3. CASE HelperRemove
    BY <1>1, <2>3 DEF HelperRemove, SInv, ControlInv, AnswerInv, AfterHelperSignal, Handled
  <2>4. CASE VmStep \/ (HelperStep /\ ~HelperRemove)
    BY <2>4 DEF VmStep, State, StateMatch, StateIdentity, Reread, OpenPidFd, Match, Rematch,
       Identity, Send, Fail, HelperStep, ReadHelperRecord, HelperMatch, HelperIdentity,
       HelperSignal,
       HelperRematch, HelperReidentity, HelperKill, Check, Signal, TakenFor, system
  <2> QED BY <1>1, <2>1, <2>2, <2>3, <2>4 DEF Next
<1> QED BY <1>1, SignalsInit, SignalsInv, SignalsTypeCorrectness, AnswersInit, AnswersInv, PTL
        DEF Spec, HelpersAreNotLost

-----------------------------------------------------------------------------
(* Ports.  A start that changes the file "ports" has found no QEMU that    *)
(* the PID file names; a QEMU that is there nevertheless is an orphan from *)
(* then on, and any other one has been spawned after the file was written. *)

Plans == [Services -> Ports \cup {Off}]

StartLabels == {"idle", "planned", "written", "probed", "spawned", "recorded", "waiting"}

StartRecords == [at : StartLabels, plan : Plans]

QemuRecords ==
    [state : {"none", "starting", "serving"}, plan : Plans, known : BOOLEAN, orphan : BOOLEAN]

Visits ==
    [at : {"idle", "checked", "connecting"}, vm : PortVms \cup {Nobody},
     service : {"none", "ssh", "spice"}, port : Ports \cup {Off}, steady : BOOLEAN]

PortsTypeOK ==
    /\ start \in [PortVms -> StartRecords]
    /\ ports \in [PortVms -> Plans \cup {NoFile}]
    /\ qemu \in [PortVms -> QemuRecords]
    /\ owner \in [Ports -> PortVms \cup {Nobody, Foreign}]
    /\ visit \in Visits

\* What a start of v has done, and the QEMU it may meet.
StartInv(v) ==
    /\ start[v].at \in {"planned", "written", "probed"} =>
            qemu[v].state = "none" \/ qemu[v].orphan
    /\ start[v].at \in {"written", "probed"} => ports[v] = start[v].plan

\* The QEMU of v, what the file says of it, and whether the PID file names it.
QemuInv(v) ==
    /\ qemu[v].state # "none" /\ ~qemu[v].orphan => ports[v] = qemu[v].plan
    /\ Serves(v) => \A s \in Services : qemu[v].plan[s] # Off => owner[qemu[v].plan[s]] = v
    /\ Serves(v) /\ ~qemu[v].orphan => qemu[v].known
    /\ qemu[v].state = "none" => ~qemu[v].orphan

\* A visit that is steady goes to a QEMU that serves, on one of its ports.
VisitInv ==
    /\ visit.at # "idle" => visit.vm \in PortVms /\ visit.service \in Services
    /\ visit.at # "idle" /\ visit.steady => Serves(visit.vm) /\ ~qemu[visit.vm].orphan
    /\ visit.at = "connecting" /\ visit.steady =>
            visit.port # Off /\ \E s \in Services : visit.port = qemu[visit.vm].plan[s]

PortsInv ==
    PortsTypeOK /\ (\A v \in PortVms : StartInv(v) /\ QemuInv(v)) /\ VisitInv

-----------------------------------------------------------------------------

\* The plans, and the files, of starts.
LEMMA NoPlanIsPlan == NoPlan \in Plans
  BY DEF NoPlan, Plans

LEMMA PlansAreFiles ==
    ASSUME NEW plan \in Plans
    PROVE  plan # NoFile
<1>1. DOMAIN plan = Services /\ "ssh" \in Services
  BY DEF Plans, Services
<1>2. DOMAIN NoFile = {}
  BY DEF NoFile
<1> QED BY <1>1, <1>2

\* A port that is found free is one of the range.
LEMMA FirstFreeIsPort ==
    ASSUME NEW range \in SUBSET Ports, NEW reserved
    PROVE  FirstFree(range, reserved) \in Ports \cup {AutoPort}
<1> DEFINE free == {p \in range \ reserved : owner[p] = Nobody}
           first == {p \in free : \A q \in free : p <= q}
<1>1. first \subseteq Ports
  OBVIOUS
<1>2. first # {} => (CHOOSE p \in first : TRUE) \in first
  OBVIOUS
<1>3. FirstFree(range, reserved) = IF first = {} THEN AutoPort ELSE CHOOSE p \in first : TRUE
  BY DEF FirstFree
<1> HIDE DEF first
<1> QED BY <1>1, <1>2, <1>3

\* A plan without AutoPort is one that QEMU can be started with.
LEMMA DistinctIsPlan ==
    ASSUME NEW c \in PortConfigs, Distinct(Planned(c))
    PROVE  Planned(c) \in Plans
<1> DEFINE ssh == IF c.ssh = AutoPort THEN FirstFree(SshRange, {c.telnet}) ELSE c.ssh
           spice == IF c.spice = AutoPort THEN FirstFree(SpiceRange, {c.telnet, ssh}) ELSE c.spice
<1>1. /\ c.telnet \in Ports \cup {Off} /\ c.ssh \in Ports \cup {Off, AutoPort}
      /\ c.spice \in Ports \cup {Off, AutoPort}
      /\ SshRange \in SUBSET Ports /\ SpiceRange \in SUBSET Ports
  BY PortsAssumption
<1>2. ssh \in Ports \cup {Off, AutoPort}
  BY <1>1, FirstFreeIsPort
<1>3. spice \in Ports \cup {Off, AutoPort}
  BY <1>1, FirstFreeIsPort
<1>4. Planned(c) = [telnet |-> c.telnet, ssh |-> ssh, spice |-> spice]
  BY DEF Planned
<1> HIDE DEF ssh, spice
<1>5. \A s \in Services : Planned(c)[s] # AutoPort
  BY DEF Distinct
<1>6. /\ "telnet" \in Services /\ "ssh" \in Services /\ "spice" \in Services
      /\ Services = {"telnet", "ssh", "spice"}
  BY DEF Services
<1>7. ssh # AutoPort /\ spice # AutoPort
  BY <1>4, <1>5, <1>6
<1>8. [telnet |-> c.telnet, ssh |-> ssh, spice |-> spice] \in [Services -> Ports \cup {Off}]
  BY <1>1, <1>2, <1>3, <1>6, <1>7
<1> QED BY <1>4, <1>8 DEF Plans

\* A step of v's start, or of its QEMU, that leaves the ports and the file alone.
LEMMA VmMoves ==
    ASSUME PortsInv, NEW v \in PortVms, NEW r \in StartRecords, NEW q \in QemuRecords,
           start' = [start EXCEPT ![v] = r], qemu' = [qemu EXCEPT ![v] = q],
           UNCHANGED <<ports, owner, visit>>,
           r.at \in {"planned", "written", "probed"} => q.state = "none" \/ q.orphan,
           r.at \in {"written", "probed"} => ports[v] = r.plan,
           q.state # "none" /\ ~q.orphan => ports[v] = q.plan,
           q.state = "serving" => qemu[v].state = "serving" /\ q.plan = qemu[v].plan,
           q.state = "serving" /\ ~q.orphan => q.known,
           q.state = "none" => ~q.orphan,
           qemu[v].state = "serving" /\ ~qemu[v].orphan =>
                q.state = "serving" /\ ~q.orphan /\ q.plan = qemu[v].plan
    PROVE  PortsInv'
<1>1. PortsTypeOK'
  BY DEF PortsInv, PortsTypeOK
<1>2. /\ start'[v] = r /\ qemu'[v] = q
      /\ \A w \in PortVms : w # v => start'[w] = start[w] /\ qemu'[w] = qemu[w]
  BY DEF PortsInv, PortsTypeOK
<1>3. ASSUME NEW w \in PortVms PROVE StartInv(w)' /\ QemuInv(w)'
  <2>1. CASE w = v
    <3>1. StartInv(v)'
      BY <1>2 DEF StartInv
    <3>2. QemuInv(v) /\ QemuInv(v)'
      BY <1>2 DEF PortsInv, QemuInv, Serves
    <3> QED BY <2>1, <3>1, <3>2
  <2>2. CASE w # v
    BY <1>2, <2>2 DEF PortsInv, StartInv, QemuInv, Serves
  <2> QED BY <2>1, <2>2
<1>4. VisitInv'
  <2>1. CASE visit.vm = v
    BY <1>2, <2>1 DEF PortsInv, VisitInv, Serves
  <2>2. CASE visit.vm # v
    BY <1>2, <2>2 DEF PortsInv, VisitInv, Serves
  <2> QED BY <2>1, <2>2
<1> QED BY <1>1, <1>3, <1>4 DEF PortsInv

\* StartGoes replaces the record of the start.
LEMMA StartRecord ==
    ASSUME PortsTypeOK, NEW v \in PortVms, NEW label \in StartLabels, StartGoes(v, label)
    PROVE  \E r \in StartRecords :
              /\ start' = [start EXCEPT ![v] = r]
              /\ r.at = label
              /\ label # "idle" => r.plan = start[v].plan
<1> DEFINE r == [start[v] EXCEPT !.at = label,
                                 !.plan = IF label = "idle" THEN NoPlan ELSE start[v].plan]
<1>1. start[v] \in StartRecords
  BY DEF PortsTypeOK
<1>2. /\ r \in StartRecords /\ r.at = label
      /\ label # "idle" => r.plan = start[v].plan
  BY <1>1, NoPlanIsPlan DEF StartRecords
<1>3. start' = [start EXCEPT ![v] = r]
  BY <1>1 DEF StartGoes, PortsTypeOK, StartRecords
<1> HIDE DEF r
<1> QED BY <1>2, <1>3

\* The steps of a start, one by one.
LEMMA StartKeeps ==
    ASSUME PortsInv, NEW v \in PortVms, StartStep(v)
    PROVE  PortsInv'
<1>0. /\ start[v] \in StartRecords /\ qemu[v] \in QemuRecords
      /\ StartInv(v) /\ QemuInv(v) /\ PortsTypeOK
  BY DEF PortsInv, PortsTypeOK
<1>1. CASE ChoosePorts(v)
  <2>1. PICK c \in PortConfigs :
            /\ Distinct(Planned(c))
            /\ start' = [start EXCEPT ![v] = [at |-> "planned", plan |-> Planned(c)]]
    BY <1>1 DEF ChoosePorts
  <2> DEFINE r == [at |-> "planned", plan |-> Planned(c)]
             q == [qemu[v] EXCEPT !.orphan = qemu[v].state # "none"]
  <2>2. r \in StartRecords /\ r.at = "planned" /\ start' = [start EXCEPT ![v] = r]
    BY <2>1, DistinctIsPlan DEF StartRecords, StartLabels
  <2>3. /\ q \in QemuRecords /\ q.state = qemu[v].state /\ q.plan = qemu[v].plan
        /\ q.known = qemu[v].known /\ (q.orphan <=> qemu[v].state # "none")
    BY <1>0 DEF QemuRecords
  <2>4. /\ qemu' = [qemu EXCEPT ![v] = q] /\ UNCHANGED <<ports, owner, visit>>
        /\ ~(qemu[v].state # "none" /\ qemu[v].known)
    BY <1>1 DEF ChoosePorts, IsRunning
  <2> HIDE DEF q, r
  <2>5. ~(qemu[v].state = "serving" /\ ~qemu[v].orphan)
    BY <1>0, <2>4 DEF QemuInv, Serves
  <2> QED BY <2>2, <2>3, <2>4, <2>5, VmMoves
<1>2. CASE WritePorts(v)
  <2>1. PICK r \in StartRecords :
            start' = [start EXCEPT ![v] = r] /\ r.at = "written" /\ r.plan = start[v].plan
    BY <1>0, <1>2, StartRecord DEF WritePorts, StartLabels
  <2>2. /\ start[v].at = "planned" /\ r.plan \in Plans
        /\ ports' = [ports EXCEPT ![v] = r.plan] /\ UNCHANGED <<qemu, owner, visit>>
    BY <1>0, <1>2, <2>1 DEF WritePorts, StartIs, StartRecords
  <2>3. PortsTypeOK'
    BY <2>1, <2>2 DEF PortsInv, PortsTypeOK
  <2>4. \A w \in PortVms : /\ start'[w] = IF w = v THEN r ELSE start[w]
                           /\ ports'[w] = IF w = v THEN r.plan ELSE ports[w]
    BY <2>1, <2>2 DEF PortsInv, PortsTypeOK
  <2>5. ASSUME NEW w \in PortVms PROVE StartInv(w)' /\ QemuInv(w)'
    BY <1>0, <2>1, <2>2, <2>4 DEF PortsInv, StartInv, QemuInv, Serves
  <2>6. VisitInv'
    BY <2>2 DEF PortsInv, VisitInv, Serves
  <2> QED BY <2>3, <2>5, <2>6 DEF PortsInv
<1>3. ASSUME NEW label \in StartLabels, StartGoes(v, label), UNCHANGED <<ports, qemu, owner, visit>>,
             label \in {"planned", "written", "probed"} =>
                label = "probed" /\ start[v].at = "written"
      PROVE  PortsInv'
  <2>1. PICK r \in StartRecords : /\ start' = [start EXCEPT ![v] = r] /\ r.at = label
                                  /\ label # "idle" => r.plan = start[v].plan
    BY <1>0, <1>3, StartRecord
  <2>2. qemu' = [qemu EXCEPT ![v] = qemu[v]]
    BY <1>0, <1>3 DEF PortsTypeOK
  <2>3. r.at \in {"planned", "written", "probed"} => r.at = "probed" /\ r.plan = start[v].plan
    BY <1>3, <2>1
  <2>4. /\ r.at \in {"planned", "written", "probed"} => qemu[v].state = "none" \/ qemu[v].orphan
        /\ r.at \in {"written", "probed"} => ports[v] = r.plan
    BY <1>0, <1>3, <2>1, <2>3 DEF StartInv
  <2> QED BY <1>0, <1>3, <2>1, <2>2, <2>4, VmMoves DEF QemuInv, Serves
<1>4. CASE ProbePorts(v)
  BY <1>4, <1>3 DEF ProbePorts, StartIs, StartLabels
<1>5. CASE SpawnListener(v)
  <2>0. start[v].at = "probed" /\ UNCHANGED <<ports, owner, visit>> /\ ports[v] = start[v].plan
    BY <1>0, <1>5 DEF SpawnListener, StartIs, StartInv
  <2>1. CASE qemu[v].state = "none"
    <3> DEFINE q == [qemu[v] EXCEPT !.state = "starting", !.plan = start[v].plan]
    <3>1. /\ q \in QemuRecords /\ q.state = "starting" /\ q.plan = start[v].plan
      BY <1>0 DEF QemuRecords, StartRecords
    <3>2. qemu' = [qemu EXCEPT ![v] = q] /\ StartGoes(v, "spawned")
      BY <1>0, <1>5, <2>1 DEF SpawnListener, PortsTypeOK, QemuRecords
    <3>3. PICK r \in StartRecords : start' = [start EXCEPT ![v] = r] /\ r.at = "spawned"
      BY <1>0, <3>2, StartRecord DEF StartLabels
    <3> HIDE DEF q
    <3> QED BY <2>0, <2>1, <3>1, <3>2, <3>3, VmMoves
  <2>2. CASE qemu[v].state # "none"
    <3> DEFINE q == [qemu[v] EXCEPT !.known = FALSE]
    <3>1. /\ q \in QemuRecords /\ q.state = qemu[v].state /\ q.plan = qemu[v].plan
          /\ q.orphan = qemu[v].orphan
      BY <1>0 DEF QemuRecords
    <3>2. qemu' = [qemu EXCEPT ![v] = q] /\ StartGoes(v, "idle")
      BY <1>5, <2>2 DEF SpawnListener
    <3>3. PICK r \in StartRecords : start' = [start EXCEPT ![v] = r] /\ r.at = "idle"
      BY <1>0, <3>2, StartRecord DEF StartLabels
    <3>4. qemu[v].orphan
      BY <1>0, <2>0, <2>2 DEF StartInv
    <3> HIDE DEF q
    <3> QED BY <2>0, <2>2, <3>1, <3>2, <3>3, <3>4, VmMoves
  <2> QED BY <2>1, <2>2
<1>6. CASE RecordPid(v)
  <2> DEFINE q == [qemu[v] EXCEPT !.known = qemu[v].state # "none"]
  <2>1. /\ q \in QemuRecords /\ q.state = qemu[v].state /\ q.plan = qemu[v].plan
        /\ q.orphan = qemu[v].orphan /\ (q.known <=> qemu[v].state # "none")
    BY <1>0 DEF QemuRecords
  <2>2. qemu' = [qemu EXCEPT ![v] = q] /\ UNCHANGED <<ports, owner, visit>>
    BY <1>6 DEF RecordPid
  <2>3. PICK r \in StartRecords : start' = [start EXCEPT ![v] = r] /\ r.at = "recorded"
    BY <1>0, <1>6, StartRecord DEF RecordPid, StartLabels
  <2> HIDE DEF q
  <2> QED BY <1>0, <2>1, <2>2, <2>3, VmMoves DEF QemuInv, Serves
<1>7. CASE WatchListener(v)
  BY <1>7, <1>3 DEF WatchListener, StartLabels
<1>8. CASE WaitForBanner(v)
  BY <1>8, <1>3 DEF WaitForBanner, StartLabels
<1>9. CASE StartDies(v)
  <2> DEFINE q == [qemu[v] EXCEPT !.orphan = qemu[v].orphan \/ (qemu[v].state # "none" /\ ~qemu[v].known)]
  <2>1. /\ q \in QemuRecords /\ q.state = qemu[v].state /\ q.plan = qemu[v].plan
        /\ q.orphan <=> qemu[v].orphan \/ (qemu[v].state # "none" /\ ~qemu[v].known)
        /\ q.known = qemu[v].known
    BY <1>0 DEF QemuRecords
  <2>2. qemu' = [qemu EXCEPT ![v] = q] /\ UNCHANGED <<ports, owner, visit>>
    BY <1>9 DEF StartDies
  <2>3. PICK r \in StartRecords : start' = [start EXCEPT ![v] = r] /\ r.at = "idle"
    BY <1>0, <1>9, StartRecord DEF StartDies, StartLabels
  <2> HIDE DEF q
  <2> QED BY <1>0, <2>1, <2>2, <2>3, VmMoves DEF QemuInv, Serves
<1>10. CASE FindRunning(v)
  BY <1>10, <1>3 DEF FindRunning, StartLabels
<1> QED BY <1>1, <1>2, <1>4, <1>5, <1>6, <1>7, <1>8, <1>9, <1>10 DEF StartStep

\* The end of a QEMU: nothing that was said of it has to hold any more.
LEMMA GoneKeeps ==
    ASSUME PortsInv, NEW v \in PortVms, QemuGone(v), UNCHANGED <<start, ports>>,
           owner' \in [Ports -> PortVms \cup {Nobody, Foreign}],
           \A p \in Ports : owner'[p] = owner[p] \/ owner[p] = v
    PROVE  PortsInv'
<1>1. qemu' = [qemu EXCEPT ![v] = NoQemu]
  BY DEF QemuGone
<1>2. NoQemu \in QemuRecords /\ NoQemu.state = "none" /\ ~NoQemu.orphan
  BY NoPlanIsPlan DEF NoQemu, QemuRecords
<1>3. \A w \in PortVms : qemu'[w] = IF w = v THEN NoQemu ELSE qemu[w]
  BY <1>1 DEF PortsInv, PortsTypeOK
<1>4. visit' = IF visit.vm = v THEN [visit EXCEPT !.steady = FALSE] ELSE visit
  BY DEF QemuGone
<1>5. /\ visit' \in Visits /\ (visit.vm = v => ~visit'.steady)
      /\ visit'.at = visit.at /\ visit'.vm = visit.vm /\ visit'.service = visit.service
  BY <1>4 DEF PortsInv, PortsTypeOK, Visits
<1>6. PortsTypeOK'
  BY <1>1, <1>2, <1>5 DEF PortsInv, PortsTypeOK
<1>7. ASSUME NEW w \in PortVms PROVE StartInv(w)' /\ QemuInv(w)'
  <2>1. CASE w = v
    BY <1>2, <1>3, <2>1 DEF PortsInv, StartInv, QemuInv, Serves
  <2>2. CASE w # v
    <3>1. qemu[w].plan \in Plans
      BY DEF PortsInv, PortsTypeOK, QemuRecords
    <3>2. \A s \in Services : qemu[w].plan[s] # Off => qemu[w].plan[s] \in Ports
      BY <3>1 DEF Plans
    <3> QED BY <1>3, <2>2, <3>2 DEF PortsInv, StartInv, QemuInv, Serves
  <2> QED BY <2>1, <2>2
<1>8. VisitInv'
  <2>1. CASE visit.vm = v
    BY <1>5, <2>1 DEF PortsInv, VisitInv
  <2>2. CASE visit.vm # v
    BY <1>3, <1>4, <2>2 DEF PortsInv, VisitInv, Serves
  <2> QED BY <2>1, <2>2
<1> QED BY <1>6, <1>7, <1>8 DEF PortsInv

\* The steps of a VM's QEMU, one by one.
LEMMA ListenerKeeps ==
    ASSUME PortsInv, NEW v \in PortVms, ListenerStep(v)
    PROVE  PortsInv'
<1>0. qemu[v] \in QemuRecords /\ StartInv(v) /\ QemuInv(v)
  BY DEF PortsInv, PortsTypeOK
<1>1. CASE QemuRecordsPid(v)
  <2> DEFINE q == [qemu[v] EXCEPT !.known = TRUE]
  <2>1. /\ q \in QemuRecords /\ q.state = qemu[v].state /\ q.plan = qemu[v].plan
        /\ q.orphan = qemu[v].orphan /\ q.known
    BY <1>0 DEF QemuRecords
  <2>2. qemu' = [qemu EXCEPT ![v] = q] /\ UNCHANGED <<start, ports, owner, visit>>
    BY <1>1 DEF QemuRecordsPid
  <2>3. start' = [start EXCEPT ![v] = start[v]] /\ start[v] \in StartRecords
    BY <2>2 DEF PortsInv, PortsTypeOK
  <2> HIDE DEF q
  <2> QED BY ZenonT(30), <1>0, <2>1, <2>2, <2>3, VmMoves DEF StartInv, QemuInv, Serves
<1>2. CASE BindPorts(v)
  <2>0. Listening(qemu[v].plan) \subseteq Ports
    BY <1>0 DEF Listening, QemuRecords, Plans
  <2>1. CASE QemuGone(v) /\ UNCHANGED owner
    BY <1>2, <2>1, GoneKeeps DEF BindPorts, PortsInv, PortsTypeOK
  <2>2. CASE ~(QemuGone(v) /\ UNCHANGED owner)
    <3> DEFINE wanted == Listening(qemu[v].plan)
               q == [qemu[v] EXCEPT !.state = "serving", !.known = TRUE]
    <3>1. /\ q \in QemuRecords /\ q.state = "serving" /\ q.plan = qemu[v].plan
          /\ q.orphan = qemu[v].orphan /\ q.known
      BY <1>0 DEF QemuRecords
    <3>2. /\ qemu' = [qemu EXCEPT ![v] = q] /\ UNCHANGED <<start, ports, visit>>
          /\ qemu[v].state = "starting" /\ \A p \in wanted : owner[p] = Nobody
          /\ owner' = [p \in Ports |-> IF p \in wanted THEN v ELSE owner[p]]
      BY <1>0, <1>2, <2>2 DEF BindPorts, PortsInv, PortsTypeOK, QemuRecords
    <3>3. \A s \in Services : q.plan[s] # Off => q.plan[s] \in wanted
      BY <3>1 DEF Listening
    <3> HIDE DEF q, wanted
    <3>4. PortsTypeOK'
      BY <3>1, <3>2 DEF PortsInv, PortsTypeOK
    <3>5. \A w \in PortVms : qemu'[w] = IF w = v THEN q ELSE qemu[w]
      BY <3>2 DEF PortsInv, PortsTypeOK
    <3>6. ASSUME NEW w \in PortVms PROVE StartInv(w)' /\ QemuInv(w)'
      <4>1. CASE w = v
        <5>1. \A s \in Services : q.plan[s] # Off => owner'[q.plan[s]] = v
          BY <2>0, <3>2, <3>3 DEF wanted
        <5> QED BY <1>0, <3>1, <3>2, <3>5, <4>1, <5>1 DEF StartInv, QemuInv, Serves
      <4>2. CASE w # v
        <5>1. qemu[w].plan \in Plans
          BY DEF PortsInv, PortsTypeOK, QemuRecords
        <5>2. \A s \in Services : qemu[w].plan[s] # Off => qemu[w].plan[s] \in Ports
          BY <5>1 DEF Plans
        <5>3. \A p \in Ports : owner[p] = w => owner'[p] = w
          BY <3>2, PortsAssumption
        <5> QED BY <3>2, <3>5, <4>2, <5>2, <5>3 DEF PortsInv, StartInv, QemuInv, Serves
      <4> QED BY <4>1, <4>2
    <3>7. VisitInv'
      BY <3>1, <3>2, <3>5 DEF PortsInv, VisitInv, Serves
    <3> QED BY <3>4, <3>6, <3>7 DEF PortsInv
  <2> QED BY <2>1, <2>2
<1>3. CASE QemuEnds(v)
  <2>1. owner' \in [Ports -> PortVms \cup {Nobody, Foreign}]
    BY <1>3 DEF QemuEnds, PortsInv, PortsTypeOK
  <2>2. \A p \in Ports : owner'[p] = owner[p] \/ owner[p] = v
    BY <1>3 DEF QemuEnds
  <2> QED BY <1>3, <2>1, <2>2, GoneKeeps DEF QemuEnds
<1> QED BY <1>1, <1>2, <1>3 DEF ListenerStep

\* Other programs take only ports that nobody has, and give up only their own.
LEMMA ForeignKeeps ==
    ASSUME PortsInv, NEW p \in Ports, ForeignBinds(p)
    PROVE  PortsInv'
<1>1. /\ UNCHANGED <<start, ports, qemu, visit>> /\ owner[p] \in {Nobody, Foreign}
      /\ owner' = [owner EXCEPT ![p] = IF owner[p] = Nobody THEN Foreign ELSE Nobody]
  BY DEF ForeignBinds
<1>2. PortsTypeOK'
  BY <1>1 DEF PortsInv, PortsTypeOK
<1>3. \A o \in Ports, w \in PortVms : owner[o] = w => owner'[o] = w
  BY <1>1, PortsAssumption DEF PortsInv, PortsTypeOK
<1>4. ASSUME NEW w \in PortVms PROVE StartInv(w)' /\ QemuInv(w)'
  <2>1. qemu[w].plan \in Plans
    BY DEF PortsInv, PortsTypeOK, QemuRecords
  <2>2. \A s \in Services : qemu[w].plan[s] # Off => qemu[w].plan[s] \in Ports
    BY <2>1 DEF Plans
  <2> QED BY <1>1, <1>3, <2>2 DEF PortsInv, StartInv, QemuInv, Serves
<1>5. VisitInv'
  BY <1>1 DEF PortsInv, VisitInv, Serves
<1> QED BY <1>2, <1>4, <1>5 DEF PortsInv

\* An endpoint is a port: without a file, one of a configuration.
LEMMA EndpointsArePorts ==
    ASSUME PortsTypeOK, NEW v \in PortVms, NEW service \in Services, NEW p \in Endpoints(v, service)
    PROVE  p \in Ports /\ p # Off
<1>1. CASE ports[v] # NoFile
  <2>1. p \in {ports[v][service]} \ {Off}
    BY <1>1 DEF Endpoints
  <2>2. ports[v] \in Plans
    BY <1>1 DEF PortsTypeOK
  <2> QED BY <2>1, <2>2 DEF Plans
<1>2. CASE ports[v] = NoFile
  <2>1. p \in {c.ssh : c \in PortConfigs} \ {Off, AutoPort}
    BY <1>2 DEF Endpoints
  <2> QED BY <2>1, PortsAssumption
<1> QED BY <1>1, <1>2

\* The steps of a visit, one by one.
LEMMA VisitKeeps ==
    ASSUME PortsInv, VisitStep
    PROVE  PortsInv'
<1>1. UNCHANGED <<start, ports, qemu, owner>>
  BY DEF VisitStep, Visit, ReadEndpoint, ConnectVisit
<1>2. \A w \in PortVms : StartInv(w)' /\ QemuInv(w)'
  BY <1>1 DEF PortsInv, StartInv, QemuInv, Serves
<1>3. NoVisit \in Visits /\ NoVisit.at = "idle"
  BY DEF NoVisit, Visits
<1>4. CASE visit' = NoVisit
  BY <1>1, <1>2, <1>3, <1>4 DEF PortsInv, PortsTypeOK, VisitInv
<1>5. CASE \E v \in PortVms, s \in {"ssh", "spice"} : Visit(v, s)
  <2>1. PICK v \in PortVms, s \in {"ssh", "spice"} : Visit(v, s)
    BY <1>5
  <2>2. visit' = [at |-> "checked", vm |-> v, service |-> s, port |-> Off,
                  steady |-> Serves(v) /\ ~qemu[v].orphan]
    BY <2>1 DEF Visit
  <2>3. qemu[v].orphan \in BOOLEAN
    BY DEF PortsInv, PortsTypeOK, QemuRecords
  <2>4. visit' \in Visits
    BY <2>2, <2>3 DEF Visits, Serves
  <2>5. VisitInv'
    BY <1>1, <2>2 DEF VisitInv, Serves, Services
  <2> QED BY <1>1, <1>2, <2>4, <2>5 DEF PortsInv, PortsTypeOK
<1>6. CASE visit.at = "checked" /\ \E p \in Endpoints(visit.vm, visit.service) :
            visit' = [visit EXCEPT !.at = "connecting", !.port = p]
  <2>1. PICK p \in Endpoints(visit.vm, visit.service) :
            visit' = [visit EXCEPT !.at = "connecting", !.port = p]
    BY <1>6
  <2>2. visit.vm \in PortVms /\ visit.service \in Services /\ visit \in Visits
    BY <1>6 DEF PortsInv, PortsTypeOK, VisitInv
  <2>3. p \in Ports /\ p # Off
    BY <2>1, <2>2, EndpointsArePorts DEF PortsInv
  <2>4. /\ visit' \in Visits /\ visit'.at = "connecting" /\ visit'.port = p
        /\ visit'.vm = visit.vm /\ visit'.service = visit.service /\ visit'.steady = visit.steady
    BY <2>1, <2>2, <2>3 DEF Visits
  <2>5. ASSUME visit.steady
        PROVE  Serves(visit.vm) /\ ~qemu[visit.vm].orphan /\ p = qemu[visit.vm].plan[visit.service]
    <3>1. Serves(visit.vm) /\ ~qemu[visit.vm].orphan
      BY <1>6, <2>5 DEF PortsInv, VisitInv
    <3>2. ports[visit.vm] = qemu[visit.vm].plan /\ qemu[visit.vm].plan \in Plans
      BY <2>2, <3>1 DEF PortsInv, PortsTypeOK, QemuRecords, QemuInv, Serves
    <3>3. p \in {ports[visit.vm][visit.service]} \ {Off}
      BY <2>1, <3>2, PlansAreFiles DEF Endpoints
    <3> QED BY <3>1, <3>2, <3>3
  <2>6. VisitInv'
    BY <1>1, <2>2, <2>3, <2>4, <2>5 DEF VisitInv, Serves
  <2> QED BY <1>1, <1>2, <2>4, <2>6 DEF PortsInv, PortsTypeOK
<1> QED BY <1>4, <1>5, <1>6 DEF VisitStep, ReadEndpoint, ConnectVisit

-----------------------------------------------------------------------------

\* At first nothing runs.
LEMMA PortsStart == PortsInit => PortsInv
<1> SUFFICES ASSUME PortsInit PROVE PortsInv
  OBVIOUS
<1>1. NoPlan \in Plans
  BY NoPlanIsPlan
<1>2. NoQemu \in QemuRecords /\ NoQemu.state = "none" /\ ~NoQemu.orphan
  BY <1>1 DEF NoQemu, QemuRecords
<1>3. [at |-> "idle", plan |-> NoPlan] \in StartRecords
  BY <1>1 DEF StartRecords, StartLabels
<1>4. NoVisit \in Visits /\ NoVisit.at = "idle"
  BY DEF NoVisit, Visits
<1>5. PortsTypeOK
  BY <1>2, <1>3, <1>4 DEF PortsInit, PortsTypeOK
<1>6. \A v \in PortVms : StartInv(v) /\ QemuInv(v)
  BY <1>2 DEF PortsInit, StartInv, QemuInv, Serves
<1> QED BY <1>4, <1>5, <1>6 DEF PortsInit, PortsInv, VisitInv

\* What start, QEMU and the visits know of the ports, for any number of VMs and ports.
THEOREM PortsInvariance == PortsSpec => []PortsInv
<1>1. PortsInv /\ UNCHANGED portVars => PortsInv'
  BY DEF PortsInv, PortsTypeOK, StartInv, QemuInv, VisitInv, Serves, portVars
<1>2. PortsInv /\ PortsNext => PortsInv'
  BY StartKeeps, ListenerKeeps, ForeignKeeps, VisitKeeps DEF PortsNext
<1> QED BY <1>1, <1>2, PortsStart, PTL DEF PortsSpec

\* A QEMU that serves owns the ports that the file "ports" of its VM names, unless a
\* start died before it had recorded an earlier one.
THEOREM ServingAsRecordedHolds == PortsSpec => []ServingAsRecorded
<1>1. PortsInv => ServingAsRecorded
  BY DEF PortsInv, QemuInv, ServingAsRecorded, Serves
<1> QED BY <1>1, PortsInvariance, PTL

\* ssh, view and --wait ssh reach the VM's own QEMU if it has served since they found
\* it running.
THEOREM VisitsReachTheirVmHolds == PortsSpec => []VisitsReachTheirVm
<1>1. ASSUME PortsInv PROVE VisitsReachTheirVm
  <2>1. ASSUME visit.at = "connecting", visit.steady PROVE owner[visit.port] = visit.vm
    <3>1. visit.vm \in PortVms /\ Serves(visit.vm) /\ visit.port # Off
      BY <1>1, <2>1 DEF PortsInv, VisitInv
    <3>2. PICK s \in Services : visit.port = qemu[visit.vm].plan[s]
      BY <1>1, <2>1 DEF PortsInv, VisitInv
    <3> QED BY <1>1, <3>1, <3>2 DEF PortsInv, QemuInv
  <2>2. ASSUME NEW v \in PortVms, Serves(v), ~qemu[v].orphan, NEW p \in Endpoints(v, "ssh")
        PROVE  owner[p] = v
    <3>1. ports[v] = qemu[v].plan /\ qemu[v].plan \in Plans /\ QemuInv(v)
      BY <1>1, <2>2 DEF PortsInv, PortsTypeOK, QemuRecords, QemuInv, Serves
    <3>2. p \in {ports[v]["ssh"]} \ {Off}
      BY <2>2, <3>1, PlansAreFiles DEF Endpoints
    <3>3. "ssh" \in Services
      BY DEF Services
    <3> QED BY <2>2, <3>1, <3>2, <3>3 DEF QemuInv
  <2> QED BY <2>1, <2>2 DEF VisitsReachTheirVm
<1> QED BY <1>1, PortsInvariance, PTL

=============================================================================
