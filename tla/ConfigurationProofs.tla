------------------------ MODULE ConfigurationProofs -------------------------
(***************************************************************************)
(* From the settings of a VM to its QEMU: what VmSettings promises of the  *)
(* configuration file, for any number of commands at once, and what        *)
(* QemuCommand promises of the command line, for every configuration and   *)
(* every host.                                                             *)
(***************************************************************************)
EXTENDS VmSettings, QemuCommand, TLAPS

-----------------------------------------------------------------------------
(* The configuration file.  From the moment a command has the lock until   *)
(* it gives it up, no other one writes to the file, so that what the       *)
(* command has found out about it under the lock, the end of its last      *)
(* line, is still so when it writes; what it has read before that is not.  *)

Assigned == (UNION {Values[k] : k \in Settings}) \cup {Broken}

Texts == [Settings -> Assigned]

Files == [there : BOOLEAN, values : Texts, tail : Settings \cup {"none", "less"}]

Labels == {"idle", "found", "locked", "prepared", "resized"}

Appends ==
    [updates : UNION {[S -> Assigned] : S \in SUBSET Settings}, newline : BOOLEAN,
     unread : BOOLEAN]

SettingsTypeOK ==
    /\ conf \in Files
    /\ command \in [Commands -> [at : Labels, read : Texts]]
    /\ append \in Appends
    /\ clean \in BOOLEAN

\* Only one command is past the lock.
OneHolder == \A c, d \in Holders : c = d

\* What a command is about to append goes with the file as it is.
AppendFits ==
    \A c \in Commands : At(c, {"prepared", "resized"}) =>
        /\ append.updates \in Updates
        /\ append.newline = (conf.tail # "none")
        /\ append.unread \/ Valid(Updated(conf.values, append.updates))

SettingsInv == SettingsTypeOK /\ OneHolder /\ AppendFits /\ ConfigLoads

-----------------------------------------------------------------------------

LEMMA SettingsAre == Settings = {"size", "cache", "aio"}
  BY DEF Settings, Values

LEMMA DefaultIsText == Default \in Texts /\ Valid(Default)
<1>1. \A k \in Settings : Default[k] \in Values[k] /\ Default[k] # Broken
  BY DEF Default, Settings, Values, Broken
<1>2. Default \in Texts
  BY <1>1, SettingsAre DEF Default, Texts, Assigned
<1>3. Default["aio"] # "native"
  BY DEF Default
<1> QED BY <1>1, <1>2, <1>3 DEF Valid

\* Updates assign to settings.
LEMMA UpdatesAssign ==
    ASSUME NEW u \in Updates
    PROVE  /\ DOMAIN u \in SUBSET Settings
           /\ u \in [DOMAIN u -> Assigned]
<1>1. PICK S \in SUBSET Settings \ {{}} : u \in [S -> UNION {Values[k] : k \in Settings}]
  BY DEF Updates
<1>2. DOMAIN u = S
  BY <1>1
<1> QED BY <1>1, <1>2 DEF Assigned

\* Without a last line to continue, what is appended is what is read.
LEMMA AfterAppends ==
    ASSUME ~Joined, NEW written \in SUBSET DOMAIN append.updates
    PROVE  After(written) = [k \in Settings |-> IF k \in written THEN append.updates[k]
                                                ELSE conf.values[k]]
<1>1. written \ {} = written
  OBVIOUS
<1> QED BY <1>1 DEF After

\* And it is a configuration file again.
LEMMA AfterIsText ==
    ASSUME SettingsTypeOK, ~Joined, NEW written \in SUBSET DOMAIN append.updates
    PROVE  After(written) \in Texts
<1>1. PICK S \in SUBSET Settings : append.updates \in [S -> Assigned]
  BY DEF SettingsTypeOK, Appends
<1>2. conf.values \in Texts
  BY DEF SettingsTypeOK, Files
<1>3. \A k \in Settings :
        (IF k \in written THEN append.updates[k] ELSE conf.values[k]) \in Assigned
  BY <1>1, <1>2 DEF Texts
<1> QED BY <1>3, AfterAppends DEF Texts

\* A command that is past the lock is the only one.
LEMMA HolderIsAlone ==
    ASSUME OneHolder, NEW c \in Commands, NEW d \in Commands,
           ~At(c, {"idle", "found"}), ~At(d, {"idle", "found"})
    PROVE  c = d
  BY DEF OneHolder, Holders

-----------------------------------------------------------------------------
(* The steps.                                                              *)

LEMMA FindKeeps ==
    ASSUME SettingsInv, NEW c \in Commands, FindVm(c)
    PROVE  SettingsInv'
<1> USE DEF At
<1>1. SettingsTypeOK'
  BY DEF SettingsInv, SettingsTypeOK, FindVm, Files, Labels
<1>2. \A d \in Commands : command'[d].at = IF d = c THEN "found" ELSE command[d].at
  BY DEF SettingsInv, SettingsTypeOK, FindVm
<1>3. Holders' = Holders
  BY <1>2 DEF Holders, FindVm
<1>4. OneHolder' /\ ConfigLoads'
  BY <1>3 DEF SettingsInv, OneHolder, ConfigLoads, FindVm, Valid
<1>5. AppendFits'
  BY <1>2 DEF SettingsInv, AppendFits, FindVm, Valid, Updated
<1> QED BY <1>1, <1>4, <1>5 DEF SettingsInv

LEMMA LockKeeps ==
    ASSUME SettingsInv, NEW c \in Commands, LockVm(c)
    PROVE  SettingsInv'
<1> USE DEF At
<1>1. SettingsTypeOK'
  BY DefaultIsText DEF SettingsInv, SettingsTypeOK, LockVm, Goes, Returns, Rest, Labels
<1>2. \A d \in Commands : d # c => command'[d].at = command[d].at
  BY DEF SettingsInv, SettingsTypeOK, LockVm, Goes, Returns
<1>3. command'[c].at \in {"idle", "locked"}
  BY DEF SettingsInv, SettingsTypeOK, LockVm, Goes, Returns, Rest
<1>4. OneHolder'
  <2>1. CASE Holders = {}
    BY <2>1, <1>2, <1>3 DEF Holders, OneHolder
  <2>2. CASE Holders # {}
    <3>1. command'[c].at = "idle"
      BY <2>2 DEF SettingsInv, SettingsTypeOK, LockVm, Returns, Rest
    <3> QED BY <3>1, <1>2 DEF SettingsInv, Holders, OneHolder
  <2> QED BY <2>1, <2>2
<1>5. ConfigLoads'
  BY DEF SettingsInv, ConfigLoads, LockVm, Valid
<1>6. AppendFits'
  BY <1>2, <1>3 DEF SettingsInv, AppendFits, LockVm, Valid, Updated
<1> QED BY <1>1, <1>4, <1>5, <1>6 DEF SettingsInv

\* A command that ends, and changes the file at most by taking it away.
LEMMA ReturnKeeps ==
    ASSUME SettingsInv, NEW c \in Commands, Returns(c),
           append' = append \/ (append' = NoAppend /\ c \in Holders),
           conf' = conf \/ (conf' = [conf EXCEPT !.there = FALSE] /\ c \in Holders),
           clean' = clean
    PROVE  SettingsInv'
<1> USE DEF At
<1>1. NoAppend \in Appends
  <2>1. [k \in {} |-> Broken] \in [{} -> Assigned]
    OBVIOUS
  <2> QED BY <2>1 DEF NoAppend, Appends
<1>2. SettingsTypeOK'
  BY <1>1, DefaultIsText DEF SettingsInv, SettingsTypeOK, Returns, Rest, Labels, Files
<1>3. \A d \in Commands : d # c => command'[d].at = command[d].at
  BY DEF SettingsInv, SettingsTypeOK, Returns
<1>4. command'[c].at = "idle"
  BY DEF SettingsInv, SettingsTypeOK, Returns, Rest
<1>5. OneHolder'
  BY <1>3, <1>4 DEF SettingsInv, Holders, OneHolder
<1>6. conf'.values = conf.values /\ conf'.tail = conf.tail
  BY DEF SettingsInv, SettingsTypeOK, Files
<1>7. ConfigLoads'
  BY <1>6 DEF SettingsInv, ConfigLoads, Valid
<1>8. AppendFits'
  <2>1. SUFFICES ASSUME NEW d \in Commands, d # c, command[d].at \in {"prepared", "resized"}
                 PROVE  append' = append
    BY <1>3, <1>4, <1>6 DEF SettingsInv, AppendFits, Valid, Updated
  <2>2. d \in Holders
    BY <2>1 DEF Holders
  <2> QED BY <2>1, <2>2 DEF SettingsInv, OneHolder
<1> QED BY <1>2, <1>5, <1>7, <1>8 DEF SettingsInv

LEMMA PrepareKeeps ==
    ASSUME SettingsInv, NEW c \in Commands, PrepareSettings(c)
    PROVE  SettingsInv'
<1> USE DEF At
<1>1. CASE Returns(c) /\ UNCHANGED append
  BY <1>1, ReturnKeeps DEF PrepareSettings
<1>2. CASE ~(Returns(c) /\ UNCHANGED append)
  <2>1. PICK u \in Updates :
          /\ Valid(Updated(command[c].read, u))
          /\ append' = [updates |-> u, newline |-> conf.tail # "none",
                        unread |-> command[c].read # conf.values]
          /\ command' = [command EXCEPT ![c] = [at |-> "prepared", read |-> Default]]
    BY <1>2 DEF PrepareSettings
  <2>2. u \in UNION {[S -> Assigned] : S \in SUBSET Settings}
    BY UpdatesAssign
  <2>3. SettingsTypeOK'
    BY <2>1, <2>2, DefaultIsText
       DEF SettingsInv, SettingsTypeOK, PrepareSettings, Appends, Labels, Files
  <2>4. \A d \in Commands : command'[d].at = IF d = c THEN "prepared" ELSE command[d].at
    BY <2>1 DEF SettingsInv, SettingsTypeOK
  <2>5. Holders' = Holders
    BY <2>4 DEF Holders, PrepareSettings
  <2>6. OneHolder' /\ ConfigLoads'
    BY <2>5 DEF SettingsInv, OneHolder, ConfigLoads, PrepareSettings, Valid
  <2>7. append'.unread \/ command[c].read = conf.values
    BY <2>1
  <2>8. (append.unread \/ Valid(Updated(conf.values, append.updates)))'
    BY <2>1, <2>7 DEF PrepareSettings, Valid, Updated
  <2>9. AppendFits'
    BY <2>1, <2>8 DEF AppendFits, PrepareSettings
  <2> QED BY <2>3, <2>6, <2>9 DEF SettingsInv
<1> QED BY <1>1, <1>2

LEMMA ResizeKeeps ==
    ASSUME SettingsInv, NEW c \in Commands, ResizeForSet(c)
    PROVE  SettingsInv'
<1> USE DEF At
<1>1. CASE Returns(c)
  <2>1. c \in Holders
    BY DEF ResizeForSet, Holders
  <2>2. append' = append \/ append' = NoAppend
    BY DEF ResizeForSet
  <2> QED BY <1>1, <2>1, <2>2, ReturnKeeps DEF ResizeForSet
<1>2. CASE Goes(c, "resized") /\ UNCHANGED append
  <2>1. SettingsTypeOK'
    BY <1>2 DEF SettingsInv, SettingsTypeOK, ResizeForSet, Goes, Labels, Files
  <2>2. \A d \in Commands : command'[d].at = IF d = c THEN "resized" ELSE command[d].at
    BY <1>2 DEF SettingsInv, SettingsTypeOK, Goes
  <2>3. Holders' = Holders
    BY <2>2 DEF Holders, ResizeForSet
  <2>4. OneHolder' /\ ConfigLoads'
    BY <2>3 DEF SettingsInv, OneHolder, ConfigLoads, ResizeForSet, Valid
  <2>5. AppendFits'
    BY <1>2, <2>2 DEF SettingsInv, AppendFits, ResizeForSet, Valid, Updated
  <2> QED BY <2>1, <2>4, <2>5 DEF SettingsInv
<1> QED BY <1>1, <1>2 DEF ResizeForSet

\* Under the lock no last line is without an end that the command does not know of.
LEMMA NotJoined ==
    ASSUME SettingsInv, NEW c \in Commands, At(c, {"resized"})
    PROVE  ~Joined
  BY DEF SettingsInv, AppendFits, At, Joined

\* A write, whole or cut short, ends the command that has the lock.
LEMMA WriterLeaves ==
    ASSUME SettingsInv, NEW c \in Commands, At(c, {"resized"}), Returns(c)
    PROVE  Holders' = {}
<1>1. Holders = {c}
  BY HolderIsAlone DEF SettingsInv, Holders, At
<1>2. \A d \in Commands : command'[d].at = IF d = c THEN "idle" ELSE command[d].at
  BY DEF SettingsInv, SettingsTypeOK, Returns, Rest
<1> QED BY <1>1, <1>2 DEF Holders, At

LEMMA WrittenFits ==
    ASSUME SettingsInv, NEW c \in Commands, At(c, {"resized"}), Returns(c),
           append' = NoAppend, conf' \in Files, clean' \in BOOLEAN, ConfigLoads'
    PROVE  SettingsInv'
<1>1. NoAppend \in Appends
  <2>1. [k \in {} |-> Broken] \in [{} -> Assigned]
    OBVIOUS
  <2> QED BY <2>1 DEF NoAppend, Appends
<1>2. SettingsTypeOK'
  BY <1>1, DefaultIsText DEF SettingsInv, SettingsTypeOK, Returns, Rest, Labels
<1>3. OneHolder' /\ AppendFits'
  BY WriterLeaves DEF OneHolder, AppendFits, Holders, At
<1> QED BY <1>2, <1>3 DEF SettingsInv

LEMMA WriteKeeps ==
    ASSUME SettingsInv, NEW c \in Commands, WriteSettings(c)
    PROVE  SettingsInv'
<1>1. ~Joined
  BY NotJoined DEF WriteSettings
<1>2. DOMAIN append.updates \in SUBSET DOMAIN append.updates
  OBVIOUS
<1>3. conf' \in Files
  <2>1. After(DOMAIN append.updates) \in Texts
    BY <1>1, <1>2, AfterIsText DEF SettingsInv
  <2> QED BY <2>1 DEF WriteSettings, SettingsInv, SettingsTypeOK, Files
<1>4. conf'.values = Updated(conf.values, append.updates)
  <2>1. After(DOMAIN append.updates) = Updated(conf.values, append.updates)
    BY <1>1, <1>2, AfterAppends DEF Updated
  <2> QED BY <2>1 DEF WriteSettings, SettingsInv, SettingsTypeOK, Files
<1>5. clean' \in BOOLEAN
  BY DEF WriteSettings
<1>6. ConfigLoads'
  BY <1>4 DEF SettingsInv, AppendFits, ConfigLoads, WriteSettings, Valid, At
<1> QED BY <1>3, <1>5, <1>6, WrittenFits DEF WriteSettings

LEMMA CutKeeps ==
    ASSUME SettingsInv, NEW c \in Commands, WriteCutShort(c)
    PROVE  SettingsInv'
<1>1. ~Joined
  BY NotJoined DEF WriteCutShort
<1>0. PICK k \in DOMAIN append.updates : \E left \in Cut(k) :
        conf' = [conf EXCEPT
                   !.values = IF left = "ignored" THEN After(Earlier(k))
                              ELSE [After(Earlier(k)) EXCEPT ![k] = left],
                   !.tail = IF left = "ignored" THEN "less" ELSE k]
  BY DEF WriteCutShort
<1>2. PICK left \in Cut(k) :
        conf' = [conf EXCEPT
                   !.values = IF left = "ignored" THEN After(Earlier(k))
                              ELSE [After(Earlier(k)) EXCEPT ![k] = left],
                   !.tail = IF left = "ignored" THEN "less" ELSE k]
  BY <1>0
<1>3. After(Earlier(k)) \in Texts
  <2>1. Earlier(k) \in SUBSET DOMAIN append.updates
    BY DEF Earlier
  <2> QED BY <1>1, <2>1, AfterIsText DEF SettingsInv
<1>4. k \in Settings /\ (left = "ignored" \/ left \in Assigned)
  <2>1. PICK S \in SUBSET Settings : append.updates \in [S -> Assigned]
    BY DEF SettingsInv, SettingsTypeOK, Appends
  <2>2. k \in Settings /\ append.updates[k] \in Assigned
    BY <2>1, <1>2
  <2>3. Default[k] \in Assigned
    BY <2>2, DefaultIsText DEF Texts
  <2> QED BY <1>2, <2>2, <2>3 DEF Cut, Assigned
<1>5. conf' \in Files
  BY <1>2, <1>3, <1>4 DEF SettingsInv, SettingsTypeOK, Files, Texts
<1>6. clean' \in BOOLEAN /\ ConfigLoads'
  BY DEF WriteCutShort, ConfigLoads
<1> QED BY <1>5, <1>6, WrittenFits DEF WriteCutShort

LEMMA OthersKeep ==
    ASSUME SettingsInv, NEW c \in Commands, CommandDies(c) \/ StartAsRead(c) \/ DeleteConfig(c)
    PROVE  SettingsInv'
<1>1. CASE CommandDies(c)
  BY <1>1, ReturnKeeps DEF CommandDies
<1>2. CASE StartAsRead(c)
  BY <1>2, ReturnKeeps DEF StartAsRead
<1>3. CASE DeleteConfig(c)
  BY <1>3, ReturnKeeps DEF DeleteConfig, Holders, At
<1> QED BY <1>1, <1>2, <1>3

\* SettingsInv is inductive.
THEOREM SettingsInvariance == SettingsSpec => []SettingsInv
<1>1. SettingsInit => SettingsInv
  <2> SUFFICES ASSUME SettingsInit PROVE SettingsInv
    OBVIOUS
  <2>1. [k \in {} |-> Broken] \in [{} -> Assigned]
    OBVIOUS
  <2>2. SettingsTypeOK
    BY <2>1, DefaultIsText
       DEF SettingsInit, SettingsTypeOK, Files, Appends, NoAppend, Rest, Labels
  <2>3. Holders = {}
    BY DEF SettingsInit, Holders, At, Rest
  <2>4. OneHolder /\ AppendFits
    BY <2>3 DEF OneHolder, AppendFits, Holders, At
  <2>5. ConfigLoads
    BY DefaultIsText DEF SettingsInit, ConfigLoads
  <2> QED BY <2>2, <2>4, <2>5 DEF SettingsInv
<1>2. SettingsInv /\ [SettingsNext]_settingsVars => SettingsInv'
  <2> SUFFICES ASSUME SettingsInv, [SettingsNext]_settingsVars PROVE SettingsInv'
    OBVIOUS
  <2>1. CASE \E c \in Commands : SettingsStep(c)
    BY <2>1, FindKeeps, LockKeeps, PrepareKeeps, ResizeKeeps, WriteKeeps, CutKeeps, OthersKeep
       DEF SettingsStep
  <2>2. CASE QemuExits \/ UNCHANGED settingsVars
    BY <2>2 DEF QemuExits, settingsVars, SettingsInv, SettingsTypeOK, OneHolder, Holders,
                AppendFits, At, ConfigLoads, Valid, Updated
  <2> QED BY <2>1, <2>2 DEF SettingsNext
<1> QED BY <1>1, <1>2, PTL DEF SettingsSpec

\* What set has validated is what the file says, for any number of commands at once.
THEOREM ConfigLoadsHolds == SettingsSpec => []ConfigLoads
<1>1. SettingsInv => ConfigLoads
  BY DEF SettingsInv
<1> QED BY <1>1, SettingsInvariance, PTL

-----------------------------------------------------------------------------

LEMMA OthersStay ==
    ASSUME SettingsInv, SettingsNext, conf' # conf
    PROVE  \/ \E c \in Commands : WriteSettings(c) \/ WriteCutShort(c)
           \/ conf' = [conf EXCEPT !.there = FALSE]
  BY DEF SettingsNext, SettingsStep, FindVm, LockVm, CommandDies, PrepareSettings, ResizeForSet,
         StartAsRead, DeleteConfig, QemuExits

\* A set that succeeds has all of its updates in force; whether it succeeds or not, it
\* touches no other setting; and nothing else does.
THEOREM SettingsStayHolds == SettingsSpec => SettingsStay
<1> DEFINE Stays ==
      /\ ~conf.there => ~conf'.there
      /\ conf' # conf /\ conf'.there =>
           \E c \in Commands :
             /\ At(c, {"resized"})
             /\ \A k \in Settings \ DOMAIN append.updates : conf'.values[k] = conf.values[k]
             /\ conf'.tail = "none" =>
                   \A k \in DOMAIN append.updates : conf'.values[k] = append.updates[k]
<1>1. SettingsInv /\ [SettingsNext]_settingsVars => [Stays]_settingsVars
  <2> SUFFICES ASSUME SettingsInv, SettingsNext PROVE Stays
    OBVIOUS
  <2>0. conf \in Files /\ append \in Appends
    BY DEF SettingsInv, SettingsTypeOK
  <2>1. PICK S \in SUBSET Settings : append.updates \in [S -> Assigned]
    BY <2>0 DEF Appends
  <2>2. CASE conf' = conf \/ conf' = [conf EXCEPT !.there = FALSE]
    BY <2>0, <2>2 DEF Files
  <2>3. ASSUME NEW c \in Commands, WriteSettings(c) PROVE Stays
    <3>1. ~Joined
      BY <2>3, NotJoined DEF WriteSettings
    <3>2. DOMAIN append.updates \in SUBSET DOMAIN append.updates
      OBVIOUS
    <3>3. conf'.values = [k \in Settings |-> IF k \in DOMAIN append.updates
                                             THEN append.updates[k] ELSE conf.values[k]]
      BY <2>0, <2>3, <3>1, <3>2, AfterAppends DEF WriteSettings, Files
    <3>4. conf'.there = conf.there
      BY <2>0, <2>3 DEF WriteSettings, Files
    <3>5. \A k \in Settings \ DOMAIN append.updates : conf'.values[k] = conf.values[k]
      BY <3>3
    <3>6. \A k \in DOMAIN append.updates : conf'.values[k] = append.updates[k]
      BY <2>1, <3>3
    <3> QED BY <2>3, <3>4, <3>5, <3>6 DEF WriteSettings
  <2>4. ASSUME NEW c \in Commands, WriteCutShort(c) PROVE Stays
    <3>1. ~Joined
      BY <2>4, NotJoined DEF WriteCutShort
    <3>0. PICK k \in DOMAIN append.updates : \E left \in Cut(k) :
            conf' = [conf EXCEPT
                       !.values = IF left = "ignored" THEN After(Earlier(k))
                                  ELSE [After(Earlier(k)) EXCEPT ![k] = left],
                       !.tail = IF left = "ignored" THEN "less" ELSE k]
      BY <2>4 DEF WriteCutShort
    <3>2. PICK left \in Cut(k) :
            conf' = [conf EXCEPT
                       !.values = IF left = "ignored" THEN After(Earlier(k))
                                  ELSE [After(Earlier(k)) EXCEPT ![k] = left],
                       !.tail = IF left = "ignored" THEN "less" ELSE k]
      BY <3>0
    <3>3. After(Earlier(k)) = [j \in Settings |-> IF j \in Earlier(k) THEN append.updates[j]
                                                  ELSE conf.values[j]]
      <4>1. Earlier(k) \in SUBSET DOMAIN append.updates
        BY DEF Earlier
      <4> QED BY <3>1, <4>1, AfterAppends
    <3>4. \A j \in Settings \ DOMAIN append.updates : conf'.values[j] = conf.values[j]
      <4>1. ASSUME NEW j \in Settings \ DOMAIN append.updates
            PROVE  j # k /\ j \notin Earlier(k)
        BY <3>2 DEF Earlier
      <4> QED BY <2>0, <3>2, <3>3, <4>1 DEF Files
    <3>5. conf'.there = conf.there /\ conf'.tail # "none"
      <4>1. k # "none"
        BY <2>1, <3>2, SettingsAre
      <4> QED BY <2>0, <3>2, <4>1 DEF Files
    <3> QED BY <2>4, <3>4, <3>5 DEF WriteCutShort
  <2> QED BY <2>2, <2>3, <2>4, OthersStay
<1> QED BY <1>1, SettingsInvariance, PTL DEF SettingsSpec, SettingsStay

-----------------------------------------------------------------------------
(* The command line.  What the plan lists, and what the options open,      *)
(* depend on the same conditions, and the only part of a host that changes *)
(* on the way, virtiofsd, is none of them.  What restart has checked with  *)
(* the endpoints of the old run and the ports it found then, start checks  *)
(* without them and with ports that are found anew; with ports as good it  *)
(* refuses no more, but for the template of the UEFI variables of macOS,   *)
(* which only start needs.                                                 *)

Planned == {"planned", "shared", "probed"}

CommandInv ==
    /\ host \in HostType
    /\ restarted => stage # "loaded"
    /\ restarted /\ stage = "given" => ~Refuses(config, host, "none", nvram, "free", FALSE)
    /\ RestartLooksFirst
    /\ stage \in Planned =>
         /\ ~RefusesRemote(config, host)
         /\ known = KnownListeners(config, host)

-----------------------------------------------------------------------------

\* Without the file of an earlier run, start refuses no more than with it.
LEMMA FileRefusesMore ==
    ASSUME NEW c, NEW h, NEW state, NEW file, NEW ports, NEW prepare,
           Refuses(c, h, "none", file, ports, prepare)
    PROVE  Refuses(c, h, state, file, ports, prepare)
  BY DEF Refuses, RefusesIpc

\* To prepare the firmware takes no more than to find it, but for the template.
LEMMA PreparingRefusesTemplate ==
    ASSUME NEW c, NEW h, NEW state, NEW file, NEW ports,
           Refuses(c, h, state, file, ports, TRUE), ~Refuses(c, h, state, file, ports, FALSE)
    PROVE  LacksTemplate(c, h, file)
  BY DEF Refuses, RefusesFirmware

\* Whether virtiofsd is there makes no difference to the listeners or to who is served.
LEMMA FallBackKeepsListeners ==
    ASSUME NEW c, NEW h \in HostType, NEW g, g = [h EXCEPT !.virtiofsd = FALSE]
    PROVE  /\ g \in HostType
           /\ KnownListeners(c, g) = KnownListeners(c, h)
           /\ RefusesRemote(c, g) = RefusesRemote(c, h)
<1>1. g \in HostType /\ g.os = h.os /\ g.backends = h.backends
  BY DEF HostType
<1>2. Display(c, g) = Display(c, h)
  BY <1>1 DEF Display
<1>3. HasSpicePort(c, g) = HasSpicePort(c, h)
  BY <1>1 DEF HasSpicePort
<1>4. UsesSpice(c, g) = UsesSpice(c, h)
  BY <1>2 DEF UsesSpice
<1> QED BY <1>1, <1>3, <1>4 DEF KnownListeners, RefusesRemote

LEMMA StepsKeep ==
    ASSUME CommandInv, [CommandNext]_commandVars
    PROVE  CommandInv'
<1>1. ASSUME NEW b \in BOOLEAN, NEW u \in {"default", "ehci", "none"}, ApplyLaunchOptions(b, u)
      PROVE  CommandInv'
  BY <1>1 DEF ApplyLaunchOptions, CommandInv, Planned, RestartLooksFirst
<1>2. CASE RestartStops
  <2>1. CASE RestartRefuses(config, host, ipc, nvram, found')
    BY <1>2, <2>1 DEF RestartStops, CommandInv, Planned, RestartLooksFirst
  <2>2. CASE ~RestartRefuses(config, host, ipc, nvram, found')
    <3>1. found' = "free"
      BY <2>2 DEF RestartRefuses, Refuses, RefusesPorts
    <3>2. ~Refuses(config, host, "none", nvram, "free", FALSE)
      BY <2>2, <3>1, FileRefusesMore DEF RestartRefuses
    <3>3. /\ stage' = "given" /\ UNCHANGED <<config, host, nvram>>
      BY <1>2, <2>2 DEF RestartStops
    <3>4. ~Refuses(config', host', "none", nvram', "free", FALSE)
      BY <3>2, <3>3
    <3> QED BY <3>3, <3>4 DEF CommandInv, Planned, RestartLooksFirst
  <2> QED BY <2>1, <2>2
<1>3. CASE MakePlan
  <2>1. CASE Refuses(config, host, "none", nvram, found', TRUE)
    <3>1. restarted /\ found' = "free" => LacksTemplate(config, host, nvram)
      BY <1>3, <2>1, PreparingRefusesTemplate DEF MakePlan, CommandInv
    <3>2. UNCHANGED <<config, host, restarted, nvram>> /\ stage' = "refused"
      BY <1>3, <2>1 DEF MakePlan
    <3> QED BY <3>1, <3>2 DEF CommandInv, Planned, RestartLooksFirst
  <2>2. CASE ~Refuses(config, host, "none", nvram, found', TRUE)
    <3>1. ~RefusesRemote(config, host) /\ stage' = "planned"
      BY <1>3, <2>2 DEF MakePlan, Refuses
    <3>2. /\ config' = config /\ host' = host /\ restarted' = restarted
          /\ known' = KnownListeners(config, host)
      BY <1>3, <2>2 DEF MakePlan
    <3> QED BY <3>1, <3>2 DEF CommandInv, RestartLooksFirst
  <2> QED BY <2>1, <2>2
<1>4. CASE StartSharing
  <2>1. stage = "planned" /\ stage' = "shared" /\ config' = config /\ restarted' = restarted
    BY <1>4 DEF StartSharing
  <2>2. CASE host' = host /\ known' = known
    BY <2>1, <2>2 DEF CommandInv, Planned, RestartLooksFirst
  <2>3. CASE host' = [host EXCEPT !.virtiofsd = FALSE] /\ known' = KnownListeners(config, host')
    <3>1. /\ host' \in HostType
          /\ RefusesRemote(config, host') = RefusesRemote(config, host)
      BY <2>3, FallBackKeepsListeners DEF CommandInv
    <3> QED BY <2>1, <2>3, <3>1 DEF CommandInv, Planned, RestartLooksFirst
  <2> QED BY <1>4, <2>2, <2>3 DEF StartSharing, FallBack
<1>5. CASE StartTpmAndProbe
  BY <1>5 DEF StartTpmAndProbe, CommandInv, Planned, RestartLooksFirst
<1>6. CASE UNCHANGED commandVars
  BY <1>6 DEF commandVars, CommandInv, Planned, RestartLooksFirst
<1> QED BY <1>1, <1>2, <1>3, <1>4, <1>5, <1>6 DEF CommandNext

\* CommandInv is inductive.
THEOREM CommandInvariance ==
    ASSUME CommandAssumption
    PROVE  CommandSpec => []CommandInv
<1>1. CommandInit => CommandInv
  BY DEF CommandAssumption, CommandInit, CommandInv, Planned, RestartLooksFirst
<1> QED BY <1>1, StepsKeep, PTL DEF CommandSpec

\* A restart that has stopped the VM finds nothing wrong with the configuration or the
\* host, for any of them, that it has not looked for before, but for the ports it finds
\* then, a swtpm that is not there, and the template that macOS may lack.
THEOREM RestartLooksFirstHolds ==
    ASSUME CommandAssumption
    PROVE  CommandSpec => []RestartLooksFirst
<1>1. CommandInv => RestartLooksFirst
  BY DEF CommandInv
<1> QED BY <1>1, CommandInvariance, PTL

-----------------------------------------------------------------------------
(* The listeners.                                                          *)

\* The command line forwards ports exactly if the plan says so and there is no bridge.
LEMMA NetworkListens ==
    ASSUME NEW c
    PROVE  NetworkOptions(c) # {} <=> UsesPortForwarding(c) /\ ~Bridged(c)
  BY DEF NetworkOptions, When, UsesPortForwarding, UsesUserNetwork

\* It opens the port of SPICE exactly if the display is one that uses SPICE.
LEMMA SpiceListens ==
    ASSUME NEW c, NEW h
    PROVE  SpiceOptions(c, h) # {} /\ HasSpicePort(c, h) <=> UsesSpice(c, h) /\ HasSpicePort(c, h)
  BY DEF SpiceOptions, When, UsesSpice

LEMMA ListenersOfPlan ==
    ASSUME NEW c, NEW h
    PROVE  TcpListeners(c, h) = KnownListeners(c, h) \ When(Bridged(c), {"ssh", "forward"})
<1>1. CASE Bridged(c)
  BY <1>1, NetworkListens, SpiceListens DEF TcpListeners, KnownListeners, When, Forwarded
<1>2. CASE ~Bridged(c)
  BY <1>2, NetworkListens, SpiceListens DEF TcpListeners, KnownListeners, When, Forwarded
<1> QED BY <1>1, <1>2

LEMMA OpenAsAsked ==
    ASSUME NEW c, NEW h, ~RefusesRemote(c, h), "remote" \in OpenHosts(c, h)
    PROVE  c.insecure
<1>1. CASE "telnet" \in {c.monitor, c.serial} /\ c.telnetHost = "remote"
  BY <1>1 DEF RefusesRemote
<1>2. CASE "spice" \in TcpListeners(c, h) /\ c.access = "remote"
  <2>1. UsesSpice(c, h)
    BY <1>2, SpiceListens DEF TcpListeners, When, Forwarded
  <2> QED BY <1>2, <2>1 DEF RefusesRemote
<1> QED BY <1>1, <1>2 DEF OpenHosts, When

\* For every configuration and host, QEMU listens where the plan says, and serves
\* others without a password only if the user has said so.
THEOREM ListenersAreKnownHolds ==
    ASSUME CommandAssumption
    PROVE  CommandSpec => []ListenersAreKnown
<1>1. CommandInv => ListenersAreKnown
  <2> SUFFICES ASSUME CommandInv, stage = "probed"
               PROVE  /\ TcpListeners(config, host)
                           = known \ When(Bridged(config), {"ssh", "forward"})
                      /\ "remote" \in OpenHosts(config, host) => config.insecure
    BY DEF ListenersAreKnown
  <2>1. ~RefusesRemote(config, host) /\ known = KnownListeners(config, host)
    BY DEF CommandInv, Planned
  <2> QED BY <2>1, ListenersOfPlan, OpenAsAsked
<1> QED BY <1>1, CommandInvariance, PTL

-----------------------------------------------------------------------------
(* The options are chosen part by part.  Each part has ids of its own, of  *)
(* which it uses one only once; what its options need, others of the part  *)
(* provide, or other parts under the same condition.                       *)

\* The options of S have different ids, all of them in I.
Within(S, I) ==
    /\ \A o, p \in S : o.id = p.id => o = p
    /\ \A o \in S : o.id \in I

Gives(S) == {o.id : o \in S} \cup UNION {o.provides : o \in S}

\* What the options of S need is in G.
Served(S, G) == \A o \in S : o.needs \subseteq G

\* No option of S connects to a helper other than those of H.
Connects(S, H) == (UNION {o.provides : o \in S}) \cap {"virtiofsd", "swtpm"} = H

LEMMA JoinWithin ==
    ASSUME NEW S, NEW T, NEW I, NEW J, Within(S, I), Within(T, J), I \cap J = {}
    PROVE  Within(S \cup T, I \cup J)
  BY DEF Within

LEMMA JoinConnects ==
    ASSUME NEW S, NEW T, NEW H, NEW J, Connects(S, H), Connects(T, J)
    PROVE  Connects(S \cup T, H \cup J)
<1>1. UNION {o.provides : o \in S \cup T}
        = (UNION {o.provides : o \in S}) \cup (UNION {o.provides : o \in T})
  OBVIOUS
<1> QED BY <1>1 DEF Connects

LEMMA GivesMore ==
    ASSUME NEW S, NEW T, S \subseteq T
    PROVE  Gives(S) \subseteq Gives(T)
  BY DEF Gives

LEMMA ServedByMore ==
    ASSUME NEW S, NEW G, NEW H, Served(S, G), G \subseteq H
    PROVE  Served(S, H)
  BY DEF Served

MachineIds == {"rng0", "rng", "machine"}
ProcessorIds == {"accel", "cpu", "kvm-pit"}
FirmwareIds == {"bios", "rom", "efivars", "pflash0", "pflash1", "secure"}
StorageIds == {"SystemDisk", "disk", "ahci", "BootLoader", "boot", "scsi0", "cd0", "cdrom"}
UsbIds == {"input", "keyboard", "hostpass", "hostdevice", "braille"}
ShareIds == {"mem", "numa", "char0", "share", "fsdev0"}
PortIds ==
    {"virtio-serial", "qga0", "agent", "vdagent0", "vdagent", "webdav0", "webdav", "spicepass",
     "usbredirchardev", "usbredirdev", "smartpass", "usb-ccid", "ccid", "card", "clipboard"}
OtherIds ==
    {"ICH9-LPC", "video", "display", "spice", "audio0", "sound", "nic", "netdevice",
     "chrtpm", "tpm0", "tpm", "monitor0", "mon", "serial0", "serial"}

\* The parts of the command line with few options.
OtherOptions(c, h) ==
    TweakOptions(c) \cup VideoOptions(c, h) \cup SpiceOptions(c, h) \cup AudioOptions(c, h)
        \cup NetworkOptions(c) \cup TpmOptions(c) \cup ConsoleOptions(c)

LEMMA CommandInParts ==
    ASSUME NEW c, NEW h
    PROVE  Command(c, h) =
             MachineOptions(c, h) \cup ProcessorOptions(c, h) \cup FirmwareOptions(c, h)
               \cup StorageOptions(c) \cup UsbOptions(c) \cup ShareOptions(c, h)
               \cup PortOptions(c, h) \cup OtherOptions(c, h)
  BY DEF Command, OtherOptions

LEMMA OwnIds ==
    ASSUME NEW c, NEW h
    PROVE  /\ Within(MachineOptions(c, h), MachineIds)
           /\ Within(ProcessorOptions(c, h), ProcessorIds)
           /\ Within(FirmwareOptions(c, h), FirmwareIds)
           /\ Within(StorageOptions(c), StorageIds)
           /\ Within(UsbOptions(c), UsbIds)
           /\ Within(ShareOptions(c, h), ShareIds)
           /\ Within(PortOptions(c, h), PortIds)
           /\ Within(OtherOptions(c, h), OtherIds)
<1> USE DEF Within, Option, When
<1>1. Within(MachineOptions(c, h), MachineIds)
  BY DEF MachineOptions, MachineIds
<1>2. Within(ProcessorOptions(c, h), ProcessorIds)
  BY DEF ProcessorOptions, ProcessorIds
<1>3. Within(FirmwareOptions(c, h), FirmwareIds)
  BY DEF FirmwareOptions, FirmwareIds
<1>4. Within(StorageOptions(c), StorageIds)
  BY DEF StorageOptions, StorageIds
<1>5. Within(UsbOptions(c), UsbIds)
  BY DEF UsbOptions, UsbIds
<1>6. Within(ShareOptions(c, h), ShareIds)
  BY DEF ShareOptions, ShareIds
<1>7. Within(PortOptions(c, h), PortIds)
  BY DEF PortOptions, PortIds, UsesSpice
<1>8. Within(OtherOptions(c, h), OtherIds)
  BY DEF OtherOptions, TweakOptions, VideoOptions, SpiceOptions, AudioOptions,
         NetworkOptions, TpmOptions, ConsoleOptions, OtherIds
<1> QED BY <1>1, <1>2, <1>3, <1>4, <1>5, <1>6, <1>7, <1>8

\* No two options of a command line have the same id.
LEMMA IdsDiffer ==
    ASSUME NEW c, NEW h
    PROVE  \A o, p \in Command(c, h) : o.id = p.id => o = p
<1> DEFINE
      two == MachineOptions(c, h) \cup ProcessorOptions(c, h)
      three == two \cup FirmwareOptions(c, h)
      four == three \cup StorageOptions(c)
      five == four \cup UsbOptions(c)
      six == five \cup ShareOptions(c, h)
      seven == six \cup PortOptions(c, h)
<1> USE OwnIds, JoinWithin
<1>2. Within(two, MachineIds \cup ProcessorIds)
  BY DEF MachineIds, ProcessorIds
<1>3. Within(three, MachineIds \cup ProcessorIds \cup FirmwareIds)
  <2>1. (MachineIds \cup ProcessorIds) \cap FirmwareIds = {}
    BY DEF MachineIds, ProcessorIds, FirmwareIds
  <2> QED BY <1>2, <2>1
<1>4. Within(four, MachineIds \cup ProcessorIds \cup FirmwareIds \cup StorageIds)
  <2>1. (MachineIds \cup ProcessorIds \cup FirmwareIds) \cap StorageIds = {}
    BY DEF MachineIds, ProcessorIds, FirmwareIds, StorageIds
  <2> QED BY <1>3, <2>1
<1>5. Within(five, MachineIds \cup ProcessorIds \cup FirmwareIds \cup StorageIds \cup UsbIds)
  <2>1. (MachineIds \cup ProcessorIds \cup FirmwareIds \cup StorageIds) \cap UsbIds = {}
    BY DEF MachineIds, ProcessorIds, FirmwareIds, StorageIds, UsbIds
  <2> QED BY <1>4, <2>1
<1>6. Within(six, MachineIds \cup ProcessorIds \cup FirmwareIds \cup StorageIds \cup UsbIds
                    \cup ShareIds)
  <2>1. (MachineIds \cup ProcessorIds \cup FirmwareIds \cup StorageIds \cup UsbIds)
          \cap ShareIds = {}
    BY DEF MachineIds, ProcessorIds, FirmwareIds, StorageIds, UsbIds, ShareIds
  <2> QED BY <1>5, <2>1
<1>7. Within(seven, MachineIds \cup ProcessorIds \cup FirmwareIds \cup StorageIds \cup UsbIds
                      \cup ShareIds \cup PortIds)
  <2>1. (MachineIds \cup ProcessorIds \cup FirmwareIds \cup StorageIds \cup UsbIds
           \cup ShareIds) \cap PortIds = {}
    BY DEF MachineIds, ProcessorIds, FirmwareIds, StorageIds, UsbIds, ShareIds, PortIds
  <2> QED BY <1>6, <2>1
<1>8. (MachineIds \cup ProcessorIds \cup FirmwareIds \cup StorageIds \cup UsbIds
         \cup ShareIds \cup PortIds) \cap OtherIds = {}
  BY DEF MachineIds, ProcessorIds, FirmwareIds, StorageIds, UsbIds, ShareIds, PortIds,
         OtherIds
<1> QED BY <1>7, <1>8, CommandInParts DEF Within

LEMMA OptionFields ==
    ASSUME NEW i, NEW p, NEW n
    PROVE  /\ Option(i, p, n).id = i
           /\ Option(i, p, n).provides = p
           /\ Option(i, p, n).needs = n
  BY DEF Option

\* An option of a part gives its id and what it provides.
LEMMA OptionGives ==
    ASSUME NEW S, NEW i, NEW p, NEW n, Option(i, p, n) \in S
    PROVE  i \in Gives(S) /\ p \subseteq Gives(S)
  BY OptionFields DEF Gives

\* On ARM the firmware comes under the names that its machine expects.
LEMMA MachineServed ==
    ASSUME NEW c \in ConfigType, NEW h
    PROVE  Served(MachineOptions(c, h), Gives(MachineOptions(c, h)) \cup Gives(FirmwareOptions(c, h)))
<1>1. "rng0" \in Gives(MachineOptions(c, h))
  <2>1. Option("rng0", {}, {}) \in MachineOptions(c, h)
    BY DEF MachineOptions
  <2> QED BY <2>1, OptionGives
<1>2. c.arch = "aarch64" /\ c.boot = "efi" /\ ~ArmBios(c, h) =>
        {"rom", "efivars"} \subseteq Gives(FirmwareOptions(c, h))
  <2>1. c.arch = "aarch64" /\ c.boot = "efi" /\ ~ArmBios(c, h) =>
          /\ Option("rom", {}, {}) \in FirmwareOptions(c, h)
          /\ Option("efivars", {}, {"OVMF_VARS"}) \in FirmwareOptions(c, h)
    BY DEF FirmwareOptions
  <2> QED BY <2>1, OptionGives
<1> QED BY <1>1, <1>2, OptionFields DEF MachineOptions, Served, When

\* The model "host" is only kept with an accelerator that is hardware.
LEMMA ProcessorServed ==
    ASSUME NEW c, NEW h, ~RefusesCpu(c, h)
    PROVE  Served(ProcessorOptions(c, h), Gives(ProcessorOptions(c, h)))
<1> DEFINE accelerator == Accelerator(c, h)
           given == {accelerator} \cup When(accelerator # "tcg", {"hardware"})
<1>1. CpuModel(c, accelerator) = "host" => accelerator # "tcg"
  BY DEF RefusesCpu
<1>2. Option("accel", given, {}) \in ProcessorOptions(c, h)
  BY DEF ProcessorOptions
<1>3. given \subseteq Gives(ProcessorOptions(c, h))
  BY <1>2, OptionGives
<1>4. /\ accelerator \in Gives(ProcessorOptions(c, h))
      /\ accelerator # "tcg" => "hardware" \in Gives(ProcessorOptions(c, h))
  BY <1>3 DEF When
<1>5. \A o \in ProcessorOptions(c, h) :
        \/ o.needs = {}
        \/ o.needs = {"hardware"} /\ CpuModel(c, accelerator) = "host"
        \/ o.needs = {"kvm"} /\ accelerator = "kvm"
  BY OptionFields DEF ProcessorOptions, When
<1> HIDE DEF accelerator
<1> QED BY <1>1, <1>4, <1>5 DEF Served

LEMMA MachineGives ==
    ASSUME NEW c, NEW h, c.arch # "aarch64"
    PROVE  {"ide", MachineType(c)} \cup When(Smm(c, h), {"smm"}) \subseteq Gives(MachineOptions(c, h))
<1> DEFINE given == When(c.arch # "aarch64", {"ide", MachineType(c)} \cup When(Smm(c, h), {"smm"}))
           needed == When(c.arch = "aarch64" /\ c.boot = "efi" /\ ~ArmBios(c, h), {"rom", "efivars"})
<1>1. Option("machine", given, needed) \in MachineOptions(c, h)
  BY DEF MachineOptions
<1> QED BY <1>1, OptionGives DEF When

\* Only a machine of the type has the bridge that is tweaked.
LEMMA TweakServed ==
    ASSUME NEW c, NEW h
    PROVE  Served(TweakOptions(c), Gives(MachineOptions(c, h)))
<1>1. MachineType(c) = "q35" => c.arch # "aarch64"
  BY DEF MachineType
<1>2. MachineType(c) = "q35" => "q35" \in Gives(MachineOptions(c, h))
  BY <1>1, MachineGives
<1> QED BY <1>2, OptionFields DEF TweakOptions, Served, When

\* Secure boot has SMM where the host is not macOS.
LEMMA FirmwareServed ==
    ASSUME NEW c \in ConfigType, NEW h, NEW file, ~KnownUnmet(c, h),
           c.boot = "efi" /\ ~ArmBios(c, h) => file = "file"
    PROVE  Served(FirmwareOptions(c, h),
                  Gives(MachineOptions(c, h)) \cup When(file = "file", {"OVMF_VARS"}))
<1>1. c.arch # "aarch64" /\ c.secureboot => "smm" \in Gives(MachineOptions(c, h))
  BY MachineGives DEF KnownUnmet, Smm, When
<1> QED BY <1>1, OptionFields DEF FirmwareOptions, Served, When

\* All machines but virt have the IDE bus.
LEMMA StorageServed ==
    ASSUME NEW c \in ConfigType, NEW h, ~KnownUnmet(c, h)
    PROVE  Served(StorageOptions(c), Gives(StorageOptions(c)) \cup Gives(MachineOptions(c, h)))
<1> DEFINE G == Gives(StorageOptions(c))
<1>1. c.arch # "aarch64" => "ide" \in Gives(MachineOptions(c, h))
  BY MachineGives
<1>2. c.guest # "reactos" => "SystemDisk" \in G
  <2>1. c.guest # "reactos" => Option("SystemDisk", {}, {}) \in StorageOptions(c)
    BY DEF StorageOptions, When
  <2> QED BY <2>1, OptionGives
<1>3. c.guest \in {"macos", "kolibrios"} => "ahci" \in G
  <2>1. c.guest \in {"macos", "kolibrios"} => Option("ahci", {}, {}) \in StorageOptions(c)
    BY DEF StorageOptions, When
  <2> QED BY <2>1, OptionGives
<1>4. c.guest = "macos" => "BootLoader" \in G
  <2>1. c.guest = "macos" => Option("BootLoader", {}, {}) \in StorageOptions(c)
    BY DEF StorageOptions, When
  <2> QED BY <2>1, OptionGives
<1>5. c.arch = "aarch64" /\ c.iso => {"scsi0", "cd0"} \subseteq G
  <2>1. c.arch = "aarch64" /\ c.iso =>
          Option("scsi0", {}, {}) \in StorageOptions(c) /\ Option("cd0", {}, {}) \in StorageOptions(c)
    BY DEF StorageOptions, When
  <2> QED BY <2>1, OptionGives
<1>6. c.arch = "aarch64" => c.guest \notin {"windows", "reactos"}
  BY DEF KnownUnmet
<1>7. \A o \in StorageOptions(c) :
        \A n \in o.needs :
          \/ n = "ide" /\ (c.guest \in {"windows", "reactos"} \/ c.arch # "aarch64")
          \/ n = "SystemDisk" /\ c.guest # "reactos"
          \/ n = "ahci" /\ c.guest \in {"macos", "kolibrios"}
          \/ n = "BootLoader" /\ c.guest = "macos"
          \/ n \in {"scsi0", "cd0"} /\ c.arch = "aarch64" /\ c.iso
  BY OptionFields DEF StorageOptions, When
<1> QED BY <1>1, <1>2, <1>3, <1>4, <1>5, <1>6, <1>7 DEF Served

\* The adapter with OpenGL goes with a display that has it.
LEMMA VideoServed ==
    ASSUME NEW c \in ConfigType, NEW h, ~KnownUnmet(c, h), ~RefusesDisplay(c, h)
    PROVE  Served(VideoOptions(c, h), Gives(VideoOptions(c, h)))
<1> DEFINE gl == RequestedGl(c, h) /\ VirtioAdapter(c, h) /\ h.gl
           shown == CASE Display(c, h) \in {"gtk", "sdl"} -> gl
                      [] Display(c, h) = "spice" -> RequestedGl(c, h)
                      [] OTHER -> FALSE
<1>1. Display(c, h) \in {"gtk", "sdl", "cocoa", "none", "spice"}
  BY DEF Display, ConfigType
<1>2. Display(c, h) = "cocoa" => ~h.gl
  BY DEF RefusesDisplay, KnownUnmet, UsesSpice
<1>3. Display(c, h) = "none" => ~RequestedGl(c, h)
  BY DEF RequestedGl
<1>4. gl => shown
  BY <1>1, <1>2, <1>3
<1>5. Option("display", When(shown, {"gl"}), {}) \in VideoOptions(c, h)
  BY DEF VideoOptions
<1>6. shown => "gl" \in Gives(VideoOptions(c, h))
  BY <1>5, OptionGives DEF When
<1>7. VideoOptions(c, h)
        = {Option("video", {}, When(gl, {"gl"})), Option("display", When(shown, {"gl"}), {})}
  BY DEF VideoOptions
<1> HIDE DEF gl, shown
<1> QED BY <1>4, <1>6, <1>7, OptionFields DEF Served, When

\* A display that uses SPICE has its server, and a port for it if nothing is shown.
LEMMA SpiceServed ==
    ASSUME NEW c, NEW h, UsesSpice(c, h)
    PROVE  "spice" \in Gives(SpiceOptions(c, h))
<1>1. Display(c, h) = "none" => HasSpicePort(c, h)
  BY DEF Display, HasSpicePort
<1>2. Option("spice", {}, {}) \in SpiceOptions(c, h)
  BY <1>1 DEF UsesSpice, SpiceOptions, When
<1> QED BY <1>2, OptionGives

LEMMA PortServed ==
    ASSUME NEW c, NEW h
    PROVE  Served(PortOptions(c, h), Gives(PortOptions(c, h)) \cup Gives(SpiceOptions(c, h)))
<1> DEFINE G == Gives(PortOptions(c, h))
           gtk == Display(c, h) = "gtk" /\ c.clipboard
<1>1. c.agent \/ UsesSpice(c, h) \/ gtk => "virtio-serial" \in G
  <2>1. c.agent \/ UsesSpice(c, h) \/ gtk => Option("virtio-serial", {}, {}) \in PortOptions(c, h)
    BY DEF PortOptions, When
  <2> QED BY <2>1, OptionGives
<1>2. c.agent => "qga0" \in G
  <2>1. c.agent => Option("qga0", {}, {}) \in PortOptions(c, h)
    BY DEF PortOptions, When
  <2> QED BY <2>1, OptionGives
<1>3. UsesSpice(c, h) => {"vdagent0", "webdav0"} \subseteq G
  <2>1. UsesSpice(c, h) =>
          /\ Option("vdagent0", {}, {"spice"}) \in PortOptions(c, h)
          /\ Option("webdav0", {}, {"spice"}) \in PortOptions(c, h)
    BY DEF PortOptions, When
  <2> QED BY <2>1, OptionGives
<1>4. UsesSpice(c, h) /\ h.usbRedirection => {"usb", "usbredirchardev"} \subseteq G
  <2>1. UsesSpice(c, h) /\ h.usbRedirection =>
          /\ Option("spicepass", {"usb"}, {}) \in PortOptions(c, h)
          /\ Option("usbredirchardev", {}, {"spice"}) \in PortOptions(c, h)
    BY DEF PortOptions, When
  <2> QED BY <2>1, OptionGives
<1>5. UsesSpice(c, h) /\ h.smartcard => {"usb", "usb-ccid", "ccid"} \subseteq G
  <2>1. UsesSpice(c, h) /\ h.smartcard =>
          /\ Option("smartpass", {"usb"}, {}) \in PortOptions(c, h)
          /\ Option("usb-ccid", {}, {"usb"}) \in PortOptions(c, h)
          /\ Option("ccid", {}, {"spice"}) \in PortOptions(c, h)
    BY DEF PortOptions, When
  <2> QED BY <2>1, OptionGives
<1>6. gtk => "vdagent0" \in G
  <2>1. gtk => Option("vdagent0", {}, {}) \in PortOptions(c, h)
    BY DEF PortOptions, When
  <2> QED BY <2>1, OptionGives
<1> QED BY <1>1, <1>2, <1>3, <1>4, <1>5, <1>6, SpiceServed, OptionFields DEF PortOptions, Served, When

LEMMA UsbServed ==
    ASSUME NEW c, NEW h, ValidConfig(c), ~KnownUnmet(c, h)
    PROVE  Served(UsbOptions(c), Gives(UsbOptions(c)))
<1>1. c.usbInput \/ c.braille => c.usb # "none"
  BY DEF ValidConfig, KnownUnmet
<1>2. c.usb # "none" => {"input", "usb"} \subseteq Gives(UsbOptions(c))
  <2>1. c.usb # "none" => Option("input", {"usb"}, {}) \in UsbOptions(c)
    BY DEF UsbOptions, When
  <2> QED BY <2>1, OptionGives
<1>3. c.hostUsb => "hostpass" \in Gives(UsbOptions(c))
  <2>1. c.hostUsb => Option("hostpass", {"usb"}, {}) \in UsbOptions(c)
    BY DEF UsbOptions, When
  <2> QED BY <2>1, OptionGives
<1> QED BY <1>1, <1>2, <1>3, OptionFields DEF UsbOptions, Served, When

LEMMA AudioServed ==
    ASSUME NEW c, NEW h, c.sound = "usb-audio" => c.usb = "xhci"
    PROVE  Served(AudioOptions(c, h), Gives(AudioOptions(c, h)) \cup Gives(SpiceOptions(c, h))
                                        \cup Gives(UsbOptions(c)))
<1>1. c.sound = "usb-audio" => "usb" \in Gives(UsbOptions(c))
  <2>1. c.sound = "usb-audio" => Option("input", {"usb"}, {}) \in UsbOptions(c)
    BY DEF UsbOptions, When
  <2> QED BY <2>1, OptionGives
<1>2. c.sound # "none" => "audio0" \in Gives(AudioOptions(c, h))
  <2>1. c.sound # "none" =>
          Option("audio0", {}, When(UsesSpice(c, h), {"spice"})) \in AudioOptions(c, h)
    BY DEF AudioOptions, When
  <2> QED BY <2>1, OptionGives
<1> QED BY <1>1, <1>2, SpiceServed, OptionFields DEF AudioOptions, Served, When

LEMMA NetworkServed ==
    ASSUME NEW c
    PROVE  Served(NetworkOptions(c), Gives(NetworkOptions(c)))
<1>1. NetworkOptions(c) # {} => Option("nic", {}, {}) \in NetworkOptions(c)
  BY DEF NetworkOptions, When
<1> QED BY <1>1, OptionGives, OptionFields DEF NetworkOptions, Served, When

LEMMA ShareServed ==
    ASSUME NEW c, NEW h
    PROVE  Served(ShareOptions(c, h), Gives(ShareOptions(c, h)))
<1> DEFINE G == Gives(ShareOptions(c, h))
<1>1. VirtiofsRequested(c, h) => {"mem", "numa", "char0"} \subseteq G
  <2>1. VirtiofsRequested(c, h) =>
          /\ Option("mem", {}, {}) \in ShareOptions(c, h)
          /\ Option("numa", {}, {"mem"}) \in ShareOptions(c, h)
          /\ Option("char0", {"virtiofsd"}, {}) \in ShareOptions(c, h)
    BY DEF ShareOptions
  <2> QED BY <2>1, OptionGives
<1>2. ~VirtiofsRequested(c, h) /\ c.share /\ c.guest \in {"linux", "macos"} => "fsdev0" \in G
  <2>1. ~VirtiofsRequested(c, h) /\ c.share /\ c.guest \in {"linux", "macos"} =>
          Option("fsdev0", {}, {}) \in ShareOptions(c, h)
    BY DEF ShareOptions
  <2> QED BY <2>1, OptionGives
<1> QED BY <1>1, <1>2, OptionFields DEF ShareOptions, Served

LEMMA TpmServed ==
    ASSUME NEW c
    PROVE  Served(TpmOptions(c), Gives(TpmOptions(c)))
<1>1. c.tpm => /\ Option("chrtpm", {"swtpm"}, {}) \in TpmOptions(c)
               /\ Option("tpm0", {}, {"chrtpm"}) \in TpmOptions(c)
  BY DEF TpmOptions, When
<1>2. c.tpm => {"chrtpm", "tpm0"} \subseteq Gives(TpmOptions(c))
  BY <1>1, OptionGives
<1> QED BY <1>2, OptionFields DEF TpmOptions, Served, When

LEMMA ConsoleServed ==
    ASSUME NEW c
    PROVE  Served(ConsoleOptions(c), Gives(ConsoleOptions(c)))
<1>1. /\ c.monitor = "telnet" => Option("monitor0", {}, {}) \in ConsoleOptions(c)
      /\ c.serial = "telnet" => Option("serial0", {}, {}) \in ConsoleOptions(c)
  BY DEF ConsoleOptions, When
<1>2. /\ c.monitor = "telnet" => "monitor0" \in Gives(ConsoleOptions(c))
      /\ c.serial = "telnet" => "serial0" \in Gives(ConsoleOptions(c))
  BY <1>1, OptionGives
<1> QED BY <1>2, OptionFields DEF ConsoleOptions, Served, When

LEMMA PartsOfCommand ==
    ASSUME NEW c, NEW h
    PROVE  \A part \in {MachineOptions(c, h), ProcessorOptions(c, h), FirmwareOptions(c, h),
                        StorageOptions(c), TweakOptions(c), VideoOptions(c, h),
                        SpiceOptions(c, h), UsbOptions(c), AudioOptions(c, h),
                        NetworkOptions(c), ShareOptions(c, h), PortOptions(c, h),
                        TpmOptions(c), ConsoleOptions(c)} :
             Gives(part) \subseteq Gives(Command(c, h))
<1>1. \A part : part \subseteq Command(c, h) => Gives(part) \subseteq Gives(Command(c, h))
  BY GivesMore
<1> QED BY <1>1 DEF Command

\* Whatever an option needs, the command line or the file of the UEFI variables gives it.
LEMMA NeedsAreMet ==
    ASSUME NEW c \in ConfigType, NEW h, NEW file, ValidConfig(c), ~KnownUnmet(c, h),
           ~RefusesCpu(c, h), ~RefusesDisplay(c, h),
           c.sound = "usb-audio" => c.usb = "xhci",
           c.boot = "efi" /\ ~ArmBios(c, h) => file = "file"
    PROVE  Served(Command(c, h), Gives(Command(c, h)) \cup When(file = "file", {"OVMF_VARS"}))
<1> DEFINE G == Gives(Command(c, h)) \cup When(file = "file", {"OVMF_VARS"})
<1>1. Served(SpiceOptions(c, h), G)
  BY DEF SpiceOptions, Served, Option, When
<1>2. Served(MachineOptions(c, h), G) /\ Served(FirmwareOptions(c, h), G)
  BY MachineServed, FirmwareServed, PartsOfCommand DEF Served
<1>3. Served(ProcessorOptions(c, h), G) /\ Served(TweakOptions(c), G)
  BY ProcessorServed, TweakServed, PartsOfCommand DEF Served
<1>4. Served(StorageOptions(c), G) /\ Served(VideoOptions(c, h), G)
  BY StorageServed, VideoServed, PartsOfCommand DEF Served
<1>5. Served(PortOptions(c, h), G) /\ Served(UsbOptions(c), G) /\ Served(AudioOptions(c, h), G)
  BY PortServed, UsbServed, AudioServed, PartsOfCommand DEF Served
<1>6. /\ Served(NetworkOptions(c), G) /\ Served(ShareOptions(c, h), G)
      /\ Served(TpmOptions(c), G) /\ Served(ConsoleOptions(c), G)
  BY NetworkServed, ShareServed, TpmServed, ConsoleServed, PartsOfCommand DEF Served
<1> QED BY ZenonT(30), <1>1, <1>2, <1>3, <1>4, <1>5, <1>6 DEF Command, Served

\* A part whose options provide other things connects to no helper.
LEMMA NoHelper ==
    ASSUME NEW S, \A o \in S : o.provides \cap {"virtiofsd", "swtpm"} = {}
    PROVE  Connects(S, {})
  BY DEF Connects

\* The helpers to which the options connect.
LEMMA ConnectsAsAsked ==
    ASSUME NEW c, NEW h
    PROVE  Connects(Command(c, h), When(VirtiofsRequested(c, h), {"virtiofsd"})
                                     \cup When(c.tpm, {"swtpm"}))
<1> DEFINE others ==
      MachineOptions(c, h) \cup ProcessorOptions(c, h) \cup FirmwareOptions(c, h)
        \cup StorageOptions(c) \cup UsbOptions(c) \cup PortOptions(c, h) \cup TweakOptions(c)
        \cup VideoOptions(c, h) \cup SpiceOptions(c, h) \cup AudioOptions(c, h)
        \cup NetworkOptions(c) \cup ConsoleOptions(c)
<1>1. Connects(others, {})
  <2> DEFINE Free(S) == \A o \in S : o.provides \cap {"virtiofsd", "swtpm"} = {}
  <2>1. Free(MachineOptions(c, h))
    <3>1. MachineType(c) \in {"virt", "pc", "q35"}
      BY DEF MachineType
    <3> QED BY <3>1, OptionFields DEF MachineOptions, When
  <2>2. Free(ProcessorOptions(c, h))
    <3>1. Accelerator(c, h) \in {"kvm", "hvf", "whpx", "tcg"}
      BY DEF Accelerator
    <3> QED BY <3>1, OptionFields DEF ProcessorOptions, When
  <2>3. Free(FirmwareOptions(c, h)) /\ Free(StorageOptions(c)) /\ Free(UsbOptions(c))
    BY OptionFields DEF FirmwareOptions, StorageOptions, UsbOptions, When
  <2>4. Free(PortOptions(c, h)) /\ Free(VideoOptions(c, h))
    BY OptionFields DEF PortOptions, VideoOptions, When
  <2>5. /\ Free(TweakOptions(c)) /\ Free(SpiceOptions(c, h)) /\ Free(AudioOptions(c, h))
        /\ Free(NetworkOptions(c)) /\ Free(ConsoleOptions(c))
    BY OptionFields DEF TweakOptions, SpiceOptions, AudioOptions, NetworkOptions, ConsoleOptions,
                        When
  <2>6. Free(others)
    BY <2>1, <2>2, <2>3, <2>4, <2>5
  <2> QED BY <2>6, NoHelper
<1>2. Connects(ShareOptions(c, h), When(VirtiofsRequested(c, h), {"virtiofsd"}))
  <2>1. CASE VirtiofsRequested(c, h)
    <3>1. Option("char0", {"virtiofsd"}, {}) \in ShareOptions(c, h)
      BY <2>1 DEF ShareOptions
    <3>2. \A o \in ShareOptions(c, h) : o.provides \subseteq {"virtiofsd"}
      BY <2>1, OptionFields DEF ShareOptions
    <3> QED BY <2>1, <3>1, <3>2, OptionFields DEF Connects, When
  <2>2. CASE ~VirtiofsRequested(c, h)
    <3>1. \A o \in ShareOptions(c, h) : o.provides = {}
      BY <2>2, OptionFields DEF ShareOptions
    <3> QED BY <2>2, <3>1, NoHelper DEF When
  <2> QED BY <2>1, <2>2
<1>3. Connects(TpmOptions(c), When(c.tpm, {"swtpm"}))
  <2>1. CASE c.tpm
    <3>1. Option("chrtpm", {"swtpm"}, {}) \in TpmOptions(c)
      BY <2>1 DEF TpmOptions, When
    <3>2. \A o \in TpmOptions(c) : o.provides \subseteq {"swtpm"}
      BY <2>1, OptionFields DEF TpmOptions, When
    <3> QED BY <2>1, <3>1, <3>2, OptionFields DEF Connects, When
  <2>2. CASE ~c.tpm
    BY <2>2, NoHelper DEF TpmOptions, When
  <2> QED BY <2>1, <2>2
<1>4. Command(c, h) = (others \cup ShareOptions(c, h)) \cup TpmOptions(c)
  BY DEF Command
<1> HIDE DEF others
<1>5. Connects(others \cup ShareOptions(c, h), {} \cup When(VirtiofsRequested(c, h), {"virtiofsd"}))
  BY <1>1, <1>2, JoinConnects
<1> QED BY <1>3, <1>4, <1>5, JoinConnects

-----------------------------------------------------------------------------
(* From the plan on, the options are those of the configuration and of the *)
(* host, and neither has changed since the plan was found fit in anything  *)
(* that the options depend on, but for virtiofsd, with which they change.  *)

NvramTypeOK == nvram \in {"absent", "file", "symlink"}

PlanInv ==
    /\ config \in ConfigType
    /\ ValidConfig(config)
    /\ stage # "loaded" /\ config.sound = "usb-audio" => config.usb = "xhci"
    /\ stage \in Planned =>
         /\ options = Command(config, host)
         /\ ~RefusesDisplay(config, host)
         /\ ~RefusesCpu(config, host)
         /\ config.boot = "efi" /\ ~ArmBios(config, host) => nvram = "file"
    /\ stage \in {"loaded", "given", "planned"} => helpers = {}
    /\ stage = "shared" => helpers = When(VirtiofsRequested(config, host), {"virtiofsd"})
    /\ stage = "probed" => helpers = When(VirtiofsRequested(config, host), {"virtiofsd"})
                                       \cup When(config.tpm, {"swtpm"})

\* The launch options are of the types of the settings they replace.
LEMMA LaunchedIsConfig ==
    ASSUME NEW c \in ConfigType, NEW b \in BOOLEAN, NEW u \in {"default", "ehci", "none"}
    PROVE  /\ Launched(c, b, u) \in ConfigType
           /\ Launched(c, b, u).sound = "usb-audio" => Launched(c, b, u).usb = "xhci"
<1> DEFINE brailled == IF b THEN [c EXCEPT !.braille = TRUE, !.display = "sdl", !.usb = "xhci"]
                       ELSE c
           chosen == IF u = "default" THEN brailled ELSE [brailled EXCEPT !.usb = u]
<1>1. Launched(c, b, u) = IF c.sound = "usb-audio" THEN [chosen EXCEPT !.usb = "xhci"]
                          ELSE chosen
  BY DEF Launched
<1>2. brailled \in ConfigType /\ brailled.sound = c.sound
  <2> DEFINE first == [c EXCEPT !.braille = TRUE]
             second == [first EXCEPT !.display = "sdl"]
  <2>1. first \in ConfigType /\ first.sound = c.sound
    BY ZenonT(30) DEF ConfigType
  <2>2. second \in ConfigType /\ second.sound = first.sound
    <3> HIDE DEF first
    <3> QED BY <2>1 DEF ConfigType
  <2>3. [second EXCEPT !.usb = "xhci"] \in ConfigType /\ [second EXCEPT !.usb = "xhci"].sound = second.sound
    <3> HIDE DEF second
    <3> QED BY <2>2 DEF ConfigType
  <2>4. brailled = IF b THEN [second EXCEPT !.usb = "xhci"] ELSE c
    OBVIOUS
  <2> QED BY <2>1, <2>2, <2>3, <2>4
<1>3. chosen \in ConfigType /\ chosen.sound = c.sound
  <2> HIDE DEF brailled
  <2> QED BY <1>2 DEF ConfigType
<1> HIDE DEF chosen
<1> QED BY <1>1, <1>3 DEF ConfigType

\* Nothing that was found fit for the plan depends on virtiofsd.
LEMMA FallBackStaysFit ==
    ASSUME NEW c, NEW h \in HostType, NEW g, g = [h EXCEPT !.virtiofsd = FALSE]
    PROVE  /\ RefusesDisplay(c, g) = RefusesDisplay(c, h)
           /\ RefusesCpu(c, g) = RefusesCpu(c, h)
           /\ ArmBios(c, g) = ArmBios(c, h)
           /\ ~VirtiofsRequested(c, g)
<1>1. /\ g.os = h.os /\ g.arch = h.arch /\ g.trial = h.trial /\ g.cpus = h.cpus
      /\ g.flags = h.flags /\ g.backends = h.backends /\ g.vdagent = h.vdagent
      /\ g.firmware = h.firmware /\ g.virtiofsd = FALSE
  BY DEF HostType
<1>2. Display(c, g) = Display(c, h) /\ UsesSpice(c, g) = UsesSpice(c, h)
  BY <1>1 DEF Display, UsesSpice
<1>3. RefusesDisplay(c, g) = RefusesDisplay(c, h)
  BY <1>1, <1>2 DEF RefusesDisplay
<1>4. Accelerator(c, g) = Accelerator(c, h)
  BY <1>1 DEF Accelerator, Usable
<1>5. RefusesCpu(c, g) = RefusesCpu(c, h)
  BY <1>1, <1>4 DEF RefusesCpu
<1>6. ArmBios(c, g) = ArmBios(c, h) /\ ~VirtiofsRequested(c, g)
  BY <1>1 DEF ArmBios, VirtiofsRequested
<1> QED BY <1>3, <1>5, <1>6

\* What was not refused has its UEFI variables prepared.
LEMMA PlanIsPrepared ==
    ASSUME NEW c \in ConfigType, NEW h, NEW file \in {"absent", "file", "symlink"}, NEW ports,
           ~Refuses(c, h, "none", file, ports, TRUE), c.boot = "efi", ~ArmBios(c, h)
    PROVE  Prepared(c, h, file) = "file"
  BY DEF Refuses, RefusesFirmware, Prepared

LEMMA PlanStaysFit ==
    ASSUME CommandInv, PlanInv, NvramTypeOK, [CommandNext]_commandVars
    PROVE  PlanInv'
<1>1. ASSUME NEW b \in BOOLEAN, NEW u \in {"default", "ehci", "none"}, ApplyLaunchOptions(b, u)
      PROVE  PlanInv'
  BY <1>1, LaunchedIsConfig DEF ApplyLaunchOptions, PlanInv, Planned
<1>2. CASE RestartStops
  BY <1>2 DEF RestartStops, PlanInv, Planned
<1>3. CASE MakePlan
  <2>1. CASE Refuses(config, host, "none", nvram, found', TRUE)
    BY <1>3, <2>1 DEF MakePlan, PlanInv, Planned
  <2>2. CASE ~Refuses(config, host, "none", nvram, found', TRUE)
    <3>1. ~RefusesDisplay(config, host) /\ ~RefusesCpu(config, host)
      BY <2>2 DEF Refuses, RefusesHost
    <3>2. config.boot = "efi" /\ ~ArmBios(config, host) => nvram' = "file"
      BY <1>3, <2>2, PlanIsPrepared DEF MakePlan, PlanInv, NvramTypeOK
    <3>3. /\ config' = config /\ host' = host /\ stage = "given" /\ stage' = "planned"
          /\ helpers' = helpers /\ options' = Command(config, host)
      BY <1>3, <2>2 DEF MakePlan
    <3> QED BY <3>1, <3>2, <3>3 DEF PlanInv, Planned
  <2> QED BY <2>1, <2>2
<1>4. CASE StartSharing
  <2>1. /\ stage = "planned" /\ stage' = "shared" /\ config' = config /\ nvram' = nvram
    BY <1>4 DEF StartSharing
  <2>2. CASE host' = host /\ options' = options
             /\ helpers' = helpers \cup When(VirtiofsRequested(config, host), {"virtiofsd"})
    BY <2>1, <2>2 DEF PlanInv, Planned
  <2>3. CASE host' = [host EXCEPT !.virtiofsd = FALSE] /\ options' = Command(config, host')
             /\ helpers' = helpers
    <3>1. /\ RefusesDisplay(config, host') = RefusesDisplay(config, host)
          /\ RefusesCpu(config, host') = RefusesCpu(config, host)
          /\ ArmBios(config, host') = ArmBios(config, host)
          /\ ~VirtiofsRequested(config, host')
      BY <2>3, FallBackStaysFit DEF CommandInv
    <3> QED BY <2>1, <2>3, <3>1 DEF PlanInv, Planned, When
  <2>4. \/ /\ VirtiofsRequested(config, host) /\ helpers' = helpers \cup {"virtiofsd"}
           /\ host' = host /\ options' = options
        \/ /\ ~VirtiofsRequested(config, host) /\ helpers' = helpers
           /\ host' = host /\ options' = options
        \/ /\ host' = [host EXCEPT !.virtiofsd = FALSE] /\ options' = Command(config, host')
           /\ helpers' = helpers
    BY <1>4 DEF StartSharing, FallBack
  <2> QED BY <2>2, <2>3, <2>4 DEF When
<1>5. CASE StartTpmAndProbe
  BY <1>5 DEF StartTpmAndProbe, PlanInv, Planned
<1>6. CASE UNCHANGED commandVars
  BY <1>6 DEF commandVars, PlanInv, Planned
<1> QED BY <1>1, <1>2, <1>3, <1>4, <1>5, <1>6 DEF CommandNext

LEMMA VariablesTyped == CommandSpec => []NvramTypeOK
<1>1. CommandInit => NvramTypeOK
  BY DEF CommandInit, NvramTypeOK
<1>2. NvramTypeOK /\ [CommandNext]_commandVars => NvramTypeOK'
  BY DEF NvramTypeOK, CommandNext, commandVars, ApplyLaunchOptions, RestartStops, MakePlan, StartSharing,
         StartTpmAndProbe, Prepared
<1> QED BY <1>1, <1>2, PTL DEF CommandSpec

\* PlanInv is an invariant.
THEOREM PlanInvariance ==
    ASSUME CommandAssumption
    PROVE  CommandSpec => []PlanInv
<1>1. CommandInit => PlanInv
  BY DEF CommandAssumption, CommandInit, PlanInv, Planned
<1> QED BY <1>1, PlanStaysFit, VariablesTyped, CommandInvariance, PTL DEF CommandSpec

\* For every configuration and every host, but for the flaws of KnownUnmet, QEMU is given
\* no id twice and all that its options need, and the helpers it connects to are running.
THEOREM CommandIsWholeHolds ==
    ASSUME CommandAssumption
    PROVE  CommandSpec => []CommandIsWhole
<1>1. PlanInv => CommandIsWhole
  <2> SUFFICES ASSUME PlanInv, stage = "probed" PROVE CommandIsWhole
    BY DEF CommandIsWhole
  <2>1. options = Command(config, host)
    BY DEF PlanInv, Planned
  <2>2. \A o, p \in options : o.id = p.id => o = p
    BY <2>1, IdsDiffer
  <2>3. ~KnownUnmet(config, host) => (UNION {o.needs : o \in options}) \subseteq Provided
    <3>1. SUFFICES ASSUME ~KnownUnmet(config, host)
                   PROVE  Served(options, Provided)
      BY DEF Served
    <3>2. Provided = Gives(options) \cup When(nvram = "file", {"OVMF_VARS"})
      BY DEF Provided, Gives
    <3> QED BY <2>1, <3>1, <3>2, NeedsAreMet DEF PlanInv, Planned
  <2>4. (UNION {o.provides : o \in options}) \cap {"virtiofsd", "swtpm"} = helpers
    BY <2>1, ConnectsAsAsked DEF PlanInv, Connects
  <2> QED BY <2>2, <2>3, <2>4 DEF CommandIsWhole
<1> QED BY <1>1, PlanInvariance, PTL

=============================================================================
