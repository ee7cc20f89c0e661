------------------------- MODULE ImageDownloadsProofs -------------------------
(***************************************************************************)
(* For any number of processes, however often they die and others get      *)
(* their PIDs: what a command has downloaded stays as it is until that     *)
(* command removes it, and what was reported is kept.  The argument: what  *)
(* a command has put at a destination was put there while nothing was      *)
(* there, so that two commands never have the same file; and a command     *)
(* only removes what it has.                                               *)
(***************************************************************************)
EXTENDS ImageDownloads, TLAPS

AllFiles == Destinations \cup DownloadPids

Downloaded == [is : {"file"}, by : DownloadPids, bad : BOOLEAN]

Contents == Downloaded \cup {Absent}

Writing == {"stage", "fetch", "link", "unlink"}

DownloaderLabels ==
    Writing \cup {"idle", "verify", "reject", "publish", "tidy", "tidy_chunklist"}

Commands == {"none", "image", "macos", "cache"}

Downloaders ==
    [command : Commands, at : DownloaderLabels, file : AllFiles \cup {"none"},
     attempt : 0 .. Attempts, holds : Contents]

DownloadTypeOK ==
    /\ downloader \in [DownloadPids -> Downloaders]
    /\ found \in [AllFiles -> Contents]
    /\ mine \in [DownloadPids -> SUBSET AllFiles]
    /\ reported \in SUBSET Destinations

\* The file and the labels of each command.
ControlInv(p) ==
    LET d == downloader[p] IN
    CASE d.command = "none" -> d.at = "idle"
      [] d.command = "image" -> d.file = "image" /\ d.at \in Writing \cup {"verify", "reject"}
      [] d.command = "cache" -> d.file = p /\ d.at \in Writing \cup {"verify", "reject", "publish"}
      [] d.command = "macos" ->
            \/ d.file \in Recovery /\ d.at \in Writing
            \/ d.file = "img" /\ d.at \in {"tidy", "tidy_chunklist"}

\* The files that were finished before.
Before(file) ==
    CASE file = "chunklist" -> {"dmg"}
      [] file = "img" -> {"dmg", "chunklist"}
      [] OTHER -> {}

\* What a command has put at its destinations.
MineInv(p) ==
    mine[p] = CASE downloader[p].at = "idle" -> {}
                [] downloader[p].at \in {"stage", "fetch", "link"} -> Before(downloader[p].file)
                [] downloader[p].at = "tidy_chunklist" -> {"chunklist", "img"}
                [] OTHER -> Before(downloader[p].file) \cup {downloader[p].file}

IsBy(content, p) ==
    /\ content \in Downloaded
    /\ content.by = p
    /\ downloader[p].command = "macos" => ~content.bad

DownloaderInv(p) ==
    /\ ControlInv(p)
    /\ MineInv(p)
    /\ downloader[p].at = "link" => IsBy(downloader[p].holds, p)
    /\ \A f \in mine[p] : IsBy(found[f], p)

ReportedInv ==
    \A f \in reported :
        /\ found[f] \in Downloaded
        /\ ~found[f].bad
        /\ \A p \in DownloadPids : f \notin mine[p]

DownloadInv ==
    /\ DownloadTypeOK
    /\ \A p \in DownloadPids : DownloaderInv(p)
    /\ ReportedInv

-----------------------------------------------------------------------------

LEMMA AbsentIsNotDownloaded == Absent \notin Downloaded
  BY DEF Absent, Downloaded

\* A step of p leaves the others alone if it replaces or removes only what is p's, and
\* reports only that.
LEMMA StepIsLocal ==
    ASSUME DownloadInv, NEW p \in DownloadPids, DownloadTypeOK', DownloaderInv(p)',
           \A q \in DownloadPids \ {p} : downloader'[q] = downloader[q] /\ mine'[q] = mine[q],
           \A f \in AllFiles : found'[f] # found[f] => f \in mine[p] \/ found[f] = Absent,
           \A f \in reported' :
              /\ f \notin mine'[p]
              /\ \/ f \in reported
                 \/ f \in mine[p] /\ found'[f] = found[f] /\ ~found[f].bad
    PROVE  DownloadInv'
<1>1. ASSUME NEW q \in DownloadPids \ {p}, NEW f \in mine[q]
      PROVE  f \in AllFiles /\ f \notin mine[p] /\ IsBy(found[f], q) /\ found'[f] = found[f]
  <2>1. f \in AllFiles /\ IsBy(found[f], q)
    BY <1>1 DEF DownloadInv, DownloadTypeOK, DownloaderInv
  <2>2. f \notin mine[p]
    BY <1>1, <2>1 DEF DownloadInv, DownloaderInv, IsBy
  <2> QED BY <2>1, <2>2, AbsentIsNotDownloaded DEF IsBy
<1>2. ASSUME NEW q \in DownloadPids \ {p} PROVE DownloaderInv(q)'
  <2>1. DownloaderInv(q) /\ downloader'[q] = downloader[q] /\ mine'[q] = mine[q]
    BY DEF DownloadInv
  <2>2. ControlInv(q)' /\ MineInv(q)'
    BY <2>1 DEF DownloaderInv, ControlInv, MineInv
  <2>3. (downloader[q].at = "link" => IsBy(downloader[q].holds, q))'
    BY <2>1 DEF DownloaderInv, IsBy
  <2>4. (\A f \in mine[q] : IsBy(found[f], q))'
    BY <2>1, <1>1 DEF IsBy
  <2> QED BY <2>2, <2>3, <2>4 DEF DownloaderInv
<1>3. ReportedInv'
  <2> SUFFICES ASSUME NEW f \in reported'
               PROVE  /\ found'[f] \in Downloaded
                      /\ ~found'[f].bad
                      /\ \A q \in DownloadPids : f \notin mine'[q]
    BY DEF ReportedInv
  <2>0. f \in AllFiles
    BY DEF DownloadTypeOK, AllFiles
  <2>1. CASE f \in reported
    <3>1. found'[f] = found[f]
      BY <2>0, <2>1, AbsentIsNotDownloaded DEF DownloadInv, ReportedInv
    <3> QED BY <2>1, <3>1 DEF DownloadInv, ReportedInv
  <2>2. CASE f \in mine[p] /\ found'[f] = found[f] /\ ~found[f].bad
    <3>1. found[f] \in Downloaded
      BY <2>2 DEF DownloadInv, DownloaderInv, IsBy
    <3>2. \A q \in DownloadPids \ {p} : f \notin mine[q]
      BY <2>2, <1>1
    <3> QED BY <2>2, <3>1, <3>2
  <2> QED BY <2>1, <2>2
<1> QED BY <1>2, <1>3 DEF DownloadInv

\* The end of a command, whatever it removes of its own, or reports.
LEMMA EndKeeps ==
    ASSUME DownloadInv, NEW p \in DownloadPids, DownloadEnds(p), found' \in [AllFiles -> Contents],
           \A f \in AllFiles : found'[f] # found[f] => f \in mine[p],
           reported' \in SUBSET Destinations,
           \A f \in reported' \ reported : f \in mine[p] /\ found'[f] = found[f] /\ ~found[f].bad
    PROVE  DownloadInv'
<1>1. DownloadTypeOK'
  <2>1. NoDownload \in Downloaders
    BY DownloadAssumption DEF NoDownload, Downloaders, Commands, DownloaderLabels, Contents
  <2> QED BY <2>1 DEF DownloadEnds, DownloadInv, DownloadTypeOK
<1>2. downloader'[p] = NoDownload /\ mine'[p] = {}
  BY DEF DownloadEnds, DownloadInv, DownloadTypeOK
<1>3. DownloaderInv(p)'
  BY <1>2 DEF DownloaderInv, ControlInv, MineInv, NoDownload
<1>4. \A q \in DownloadPids \ {p} : downloader'[q] = downloader[q] /\ mine'[q] = mine[q]
  BY DEF DownloadEnds, DownloadInv, DownloadTypeOK
<1> QED BY <1>1, <1>2, <1>3, <1>4, StepIsLocal

\* The command goes on; what it has put somewhere, or removed, was its own, or nothing.
LEMMA AdvanceKeeps ==
    ASSUME DownloadInv, NEW p \in DownloadPids, NEW d \in Downloaders, NEW m \in SUBSET AllFiles,
           downloader' = [downloader EXCEPT ![p] = d], mine' = [mine EXCEPT ![p] = m],
           found' \in [AllFiles -> Contents], reported' = reported,
           \A f \in AllFiles : found'[f] # found[f] => f \in mine[p] \/ found[f] = Absent,
           \A f \in m : f \in mine[p] \/ found[f] = Absent,
           DownloaderInv(p)'
    PROVE  DownloadInv'
<1>1. DownloadTypeOK'
  BY DEF DownloadInv, DownloadTypeOK
<1>2. \A q \in DownloadPids \ {p} : downloader'[q] = downloader[q] /\ mine'[q] = mine[q]
  BY DEF DownloadInv, DownloadTypeOK
<1>3. \A f \in reported' : f \notin mine'[p] /\ f \in reported
  BY AbsentIsNotDownloaded DEF DownloadInv, DownloadTypeOK, ReportedInv
<1> QED BY <1>1, <1>2, <1>3, StepIsLocal

\* The same for a step that neither puts a file somewhere nor removes one.
LEMMA QuietlyKeeps ==
    ASSUME DownloadInv, NEW p \in DownloadPids, NEW d \in Downloaders,
           downloader' = [downloader EXCEPT ![p] = d], mine' = mine, found' = found,
           reported' = reported, DownloaderInv(p)'
    PROVE  DownloadInv'
<1>1. mine[p] \in SUBSET AllFiles /\ mine' = [mine EXCEPT ![p] = mine[p]]
  BY DEF DownloadInv, DownloadTypeOK
<1>2. found' \in [AllFiles -> Contents]
  BY DEF DownloadInv, DownloadTypeOK
<1> QED BY <1>1, <1>2, AdvanceKeeps

-----------------------------------------------------------------------------
(* The steps.                                                              *)

LEMMA BeginKeeps ==
    ASSUME DownloadInv, NEW p \in DownloadPids, NEW command \in {"image", "macos", "cache"},
           BeginDownload(p, command)
    PROVE  DownloadInv'
<1>1. PICK file \in AllFiles :
        /\ file = CASE command = "image" -> "image" [] command = "macos" -> "dmg" [] OTHER -> p
        /\ downloader' = [downloader EXCEPT
             ![p] = [command |-> command, at |-> "stage", file |-> file, attempt |-> 0,
                     holds |-> Absent]]
  BY DEF BeginDownload, AllFiles, Destinations, Recovery
<1> DEFINE d == [command |-> command, at |-> "stage", file |-> file, attempt |-> 0,
                 holds |-> Absent]
<1>2. /\ d \in Downloaders
      /\ d.command = command
      /\ d.at = "stage"
      /\ d.file = file
  <2>1. 0 \in 0 .. Attempts /\ Absent \in Contents
    BY DownloadAssumption DEF Contents
  <2> QED BY <2>1 DEF Downloaders, Commands, DownloaderLabels, Writing
<1>3. mine[p] = {}
  BY DEF DownloadInv, DownloaderInv, MineInv, BeginDownload, DownloadIs
<1> HIDE DEF d
<1>4. downloader' = [downloader EXCEPT ![p] = d] /\ downloader'[p] = d
  BY <1>1, <1>2 DEF d, DownloadInv, DownloadTypeOK
<1>5. Before(file) = {}
  BY <1>1, DownloadAssumption DEF Before, Destinations, Recovery
<1>6. mine' = mine /\ found' = found /\ reported' = reported
  BY DEF BeginDownload
<1>7. DownloaderInv(p)'
  <2>1. ControlInv(p)'
    BY <1>1, <1>2, <1>4 DEF ControlInv, Writing, Recovery
  <2>2. MineInv(p)'
    BY <1>2, <1>3, <1>4, <1>5, <1>6 DEF MineInv
  <2> QED BY <1>2, <1>3, <1>4, <1>6, <2>1, <2>2 DEF DownloaderInv
<1> QED BY <1>2, <1>4, <1>6, <1>7, QuietlyKeeps

LEMMA StageKeeps ==
    ASSUME DownloadInv, NEW p \in DownloadPids, StageFile(p)
    PROVE  DownloadInv'
<1>1. CASE DownloadEnds(p)
  BY <1>1, EndKeeps DEF StageFile, DownloadInv, DownloadTypeOK
<1>2. CASE ~DownloadEnds(p)
  <2>1. PICK a \in 1 .. Attempts :
          downloader' = [downloader EXCEPT ![p].at = "fetch", ![p].attempt = a]
    BY <1>2 DEF StageFile
  <2>2. mine' = mine /\ found' = found /\ reported' = reported
    BY <1>2 DEF StageFile
  <2>3. downloader[p] \in Downloaders
    BY DEF DownloadInv, DownloadTypeOK
  <2> DEFINE d == [command |-> downloader[p].command, at |-> "fetch",
                   file |-> downloader[p].file, attempt |-> a, holds |-> downloader[p].holds]
  <2>4. /\ d \in Downloaders
        /\ d.at = "fetch"
        /\ d.command = downloader[p].command
        /\ d.file = downloader[p].file
    <3>1. a \in 0 .. Attempts /\ "fetch" \in DownloaderLabels
      BY DownloadAssumption DEF DownloaderLabels, Writing
    <3> QED BY <2>3, <3>1 DEF Downloaders
  <2>5. downloader' = [downloader EXCEPT ![p] = d]
    <3> DEFINE e == [downloader[p] EXCEPT !.at = "fetch"]
    <3>1. e = [command |-> downloader[p].command, at |-> "fetch",
               file |-> downloader[p].file, attempt |-> downloader[p].attempt,
               holds |-> downloader[p].holds]
      BY <2>3 DEF Downloaders
    <3>2. downloader' = [downloader EXCEPT ![p] = [e EXCEPT !.attempt = a]]
      BY <2>1 DEF DownloadInv, DownloadTypeOK
    <3> HIDE DEF e
    <3>3. d = [e EXCEPT !.attempt = a]
      BY <3>1
    <3> QED BY <3>2, <3>3
  <2> HIDE DEF d
  <2>6. downloader'[p] = d
    BY <2>5 DEF DownloadInv, DownloadTypeOK
  <2>7. DownloaderInv(p)'
    <3>1. DownloaderInv(p) /\ downloader[p].at = "stage"
      BY DEF DownloadInv, StageFile, DownloadIs
    <3>2. ControlInv(p)' /\ MineInv(p)'
      BY <2>2, <2>4, <2>6, <3>1 DEF DownloaderInv, ControlInv, MineInv, Writing
    <3> QED BY <2>2, <2>4, <2>6, <3>1, <3>2 DEF DownloaderInv, IsBy
  <2> QED BY <2>2, <2>4, <2>5, <2>7, QuietlyKeeps
<1> QED BY <1>1, <1>2

LEMMA FetchKeeps ==
    ASSUME DownloadInv, NEW p \in DownloadPids, FetchFile(p)
    PROVE  DownloadInv'
<1>1. CASE DownloadEnds(p)
  BY <1>1, EndKeeps DEF FetchFile, Converts, DownloadInv, DownloadTypeOK
<1>2. CASE ~DownloadEnds(p)
  <2>1. PICK content :
          /\ downloader' = [downloader EXCEPT ![p].at = "link", ![p].holds = content]
          /\ IsBy(content, p)
    <3>1. CASE downloader[p].file = "img"
      <4>1. downloader' = [downloader EXCEPT ![p].at = "link", ![p].holds = found["dmg"]]
        BY <1>2, <3>1 DEF FetchFile, Converts
      <4>2. downloader[p].at = "fetch"
        BY DEF FetchFile, Converts, DownloadIs
      <4>3. "dmg" \in mine[p]
        BY <3>1, <4>2 DEF DownloadInv, DownloaderInv, MineInv, Before
      <4> QED BY <4>1, <4>3 DEF DownloadInv, DownloaderInv
    <3>2. CASE downloader[p].file # "img"
      <4>1. PICK bad \in BOOLEAN :
              /\ bad => downloader[p].command # "macos"
              /\ downloader' = [downloader EXCEPT ![p].at = "link", ![p].holds = Got(p, bad)]
        BY <1>2, <3>2 DEF FetchFile, Converts
      <4>2. IsBy(Got(p, bad), p)
        BY <4>1 DEF IsBy, Got, Downloaded
      <4> QED BY <4>1, <4>2
    <3> QED BY <3>1, <3>2
  <2>2. mine' = mine /\ found' = found /\ reported' = reported
    BY <1>2 DEF FetchFile, Converts
  <2>3. downloader[p] \in Downloaders
    BY DEF DownloadInv, DownloadTypeOK
  <2> DEFINE d == [command |-> downloader[p].command, at |-> "link",
                   file |-> downloader[p].file, attempt |-> downloader[p].attempt,
                   holds |-> content]
  <2>4. /\ d \in Downloaders
        /\ d.at = "link"
        /\ d.command = downloader[p].command
        /\ d.file = downloader[p].file
        /\ d.holds = content
    <3>1. content \in Contents /\ "link" \in DownloaderLabels
      BY <2>1 DEF IsBy, Contents, DownloaderLabels, Writing
    <3> QED BY <2>3, <3>1 DEF Downloaders
  <2>5. downloader' = [downloader EXCEPT ![p] = d]
    <3> DEFINE e == [downloader[p] EXCEPT !.at = "link"]
    <3>1. e = [command |-> downloader[p].command, at |-> "link",
               file |-> downloader[p].file, attempt |-> downloader[p].attempt,
               holds |-> downloader[p].holds]
      BY <2>3 DEF Downloaders
    <3>2. downloader' = [downloader EXCEPT ![p] = [e EXCEPT !.holds = content]]
      BY <2>1 DEF DownloadInv, DownloadTypeOK
    <3> HIDE DEF e
    <3>3. d = [e EXCEPT !.holds = content]
      BY <3>1
    <3> QED BY <3>2, <3>3
  <2> HIDE DEF d
  <2>6. downloader'[p] = d
    BY <2>5 DEF DownloadInv, DownloadTypeOK
  <2>7. DownloaderInv(p)'
    <3>1. DownloaderInv(p) /\ downloader[p].at = "fetch"
      BY DEF DownloadInv, FetchFile, Converts, DownloadIs
    <3>2. ControlInv(p)' /\ MineInv(p)'
      BY <2>2, <2>4, <2>6, <3>1 DEF DownloaderInv, ControlInv, MineInv, Writing
    <3>3. IsBy(downloader[p].holds, p)'
      BY <2>1, <2>4, <2>6 DEF IsBy
    <3>4. (\A f \in mine[p] : IsBy(found[f], p))'
      BY <2>2, <2>4, <2>6, <3>1 DEF DownloaderInv, IsBy
    <3> QED BY <3>2, <3>3, <3>4 DEF DownloaderInv
  <2> QED BY <2>2, <2>4, <2>5, <2>7, QuietlyKeeps
<1> QED BY <1>1, <1>2

LEMMA LinkKeeps ==
    ASSUME DownloadInv, NEW p \in DownloadPids, LinkFile(p)
    PROVE  DownloadInv'
<1>1. CASE found[downloader[p].file] # Absent
  BY <1>1, EndKeeps DEF LinkFile, DownloadInv, DownloadTypeOK
<1>2. CASE found[downloader[p].file] = Absent
  <2> DEFINE file == downloader[p].file
             d == [downloader[p] EXCEPT !.at = "unlink"]
             m == mine[p] \cup {file}
  <2>1. /\ found' = [found EXCEPT ![file] = downloader[p].holds]
        /\ mine' = [mine EXCEPT ![p] = m]
        /\ downloader' = [downloader EXCEPT ![p] = d]
        /\ reported' = reported
    BY <1>2 DEF LinkFile, DownloadInv, DownloadTypeOK
  <2>2. downloader[p].at = "link" /\ IsBy(downloader[p].holds, p) /\ DownloaderInv(p)
    BY DEF LinkFile, DownloadIs, DownloadInv, DownloaderInv
  <2>3. file \in AllFiles
    BY <2>2, DownloadAssumption DEF DownloaderInv, ControlInv, AllFiles, Destinations, Recovery,
       DownloadInv, DownloadTypeOK, Downloaders, Commands
  <2>4. /\ d \in Downloaders
        /\ d.at = "unlink"
        /\ d.command = downloader[p].command
        /\ d.file = file
    BY DEF DownloadInv, DownloadTypeOK, Downloaders, DownloaderLabels, Writing
  <2> HIDE DEF d
  <2>5. downloader'[p] = d
    BY <2>1 DEF DownloadInv, DownloadTypeOK
  <2>6. m \in SUBSET AllFiles /\ mine'[p] = m
    BY <2>1, <2>3 DEF DownloadInv, DownloadTypeOK
  <2>7. found' \in [AllFiles -> Contents]
    BY <2>1, <2>2 DEF DownloadInv, DownloadTypeOK, IsBy, Contents
  <2>8. \A f \in AllFiles : found'[f] = IF f = file THEN downloader[p].holds ELSE found[f]
    BY <2>1 DEF DownloadInv, DownloadTypeOK
  <2>9. DownloaderInv(p)'
    <3>1. mine[p] = Before(file)
      BY <2>2 DEF DownloaderInv, MineInv
    <3>2. ControlInv(p)'
      BY <2>2, <2>4, <2>5 DEF DownloaderInv, ControlInv, Writing
    <3>3. MineInv(p)'
      BY <2>4, <2>5, <2>6, <3>1 DEF MineInv
    <3>4. (\A f \in mine[p] : IsBy(found[f], p))'
      BY <2>2, <2>4, <2>5, <2>6, <2>8 DEF DownloaderInv, IsBy
    <3> QED BY <2>4, <2>5, <3>2, <3>3, <3>4 DEF DownloaderInv
  <2>10. \A f \in AllFiles : found'[f] # found[f] => f \in mine[p] \/ found[f] = Absent
    BY <1>2, <2>8
  <2>11. \A f \in m : f \in mine[p] \/ found[f] = Absent
    BY <1>2
  <2> HIDE DEF m
  <2> QED BY <2>1, <2>4, <2>6, <2>7, <2>9, <2>10, <2>11, AdvanceKeeps
<1> QED BY <1>1, <1>2

\* The record that NextFile leaves.
LEMMA NextFileIs ==
    ASSUME DownloadInv, NEW p \in DownloadPids, NEW label \in DownloaderLabels,
           NEW file \in AllFiles, NextFile(p, label, file)
    PROVE  \E d \in Downloaders :
             /\ downloader' = [downloader EXCEPT ![p] = d]
             /\ downloader'[p] = d
             /\ d.command = downloader[p].command
             /\ d.at = label
             /\ d.file = file
<1> DEFINE d == [command |-> downloader[p].command, at |-> label, file |-> file,
                 attempt |-> 0, holds |-> Absent]
<1>1. d \in Downloaders
  BY DownloadAssumption DEF DownloadInv, DownloadTypeOK, Downloaders, Contents
<1>2. downloader' = [downloader EXCEPT ![p] = d]
  BY DEF NextFile, DownloadInv, DownloadTypeOK, Downloaders
<1>3. downloader'[p] = d
  BY <1>2 DEF DownloadInv, DownloadTypeOK
<1> QED BY <1>1, <1>2, <1>3

\* The command goes on, and nothing else happens.
LEMMA NextKeeps ==
    ASSUME DownloadInv, NEW p \in DownloadPids, NEW label \in DownloaderLabels \ {"link"},
           NEW file \in AllFiles, NextFile(p, label, file), mine' = mine, found' = found,
           reported' = reported,
           (downloader'[p].command = downloader[p].command /\ downloader'[p].at = label
              /\ downloader'[p].file = file) => ControlInv(p)' /\ MineInv(p)'
    PROVE  DownloadInv'
<1>1. PICK d \in Downloaders :
        /\ downloader' = [downloader EXCEPT ![p] = d]
        /\ downloader'[p] = d
        /\ d.command = downloader[p].command
        /\ d.at = label
        /\ d.file = file
  BY NextFileIs
<1>2. DownloaderInv(p)'
  BY <1>1 DEF DownloadInv, DownloaderInv, IsBy
<1> QED BY <1>1, <1>2, QuietlyKeeps

LEMMA UnlinkKeeps ==
    ASSUME DownloadInv, NEW p \in DownloadPids, UnlinkTemp(p)
    PROVE  DownloadInv'
<1> DEFINE file == downloader[p].file
<1>1. /\ downloader[p].at = "unlink"
      /\ ControlInv(p)
      /\ mine[p] = Before(file) \cup {file}
      /\ file \in AllFiles
  <2>1. downloader[p].at = "unlink" /\ DownloaderInv(p)
    BY DEF UnlinkTemp, DownloadIs, DownloadInv
  <2> QED BY <2>1, DownloadAssumption DEF DownloaderInv, ControlInv, MineInv, AllFiles,
        Destinations, Recovery, DownloadInv, DownloadTypeOK, Downloaders, Commands
<1>2. mine' = mine /\ found' = found /\ reported' = reported
  BY DEF UnlinkTemp
<1>3. \A f \in Recovery \cup {"image"} : f \in AllFiles /\ f \notin DownloadPids
  BY DownloadAssumption DEF AllFiles, Destinations
<1>4. CASE file = "dmg"
  <2>1. NextFile(p, "stage", "chunklist")
    BY <1>4 DEF UnlinkTemp
  <2>2. (downloader'[p].command = downloader[p].command /\ downloader'[p].at = "stage"
           /\ downloader'[p].file = "chunklist") => ControlInv(p)' /\ MineInv(p)'
    BY <1>1, <1>2, <1>3, <1>4
       DEF ControlInv, MineInv, Before, Recovery, Writing, DownloadInv, DownloadTypeOK,
           Downloaders, Commands
  <2>3. "stage" \in DownloaderLabels \ {"link"} /\ "chunklist" \in AllFiles
    BY <1>3 DEF DownloaderLabels, Writing, Recovery
  <2> QED BY <1>2, <2>1, <2>2, <2>3, NextKeeps
<1>5. CASE file = "chunklist"
  <2>1. NextFile(p, "stage", "img")
    BY <1>5 DEF UnlinkTemp
  <2>2. (downloader'[p].command = downloader[p].command /\ downloader'[p].at = "stage"
           /\ downloader'[p].file = "img") => ControlInv(p)' /\ MineInv(p)'
    BY <1>1, <1>2, <1>3, <1>5
       DEF ControlInv, MineInv, Before, Recovery, Writing, DownloadInv, DownloadTypeOK,
           Downloaders, Commands
  <2>3. "stage" \in DownloaderLabels \ {"link"} /\ "img" \in AllFiles
    BY <1>3 DEF DownloaderLabels, Writing, Recovery
  <2> QED BY <1>2, <2>1, <2>2, <2>3, NextKeeps
<1>6. CASE file = "img"
  <2>1. NextFile(p, "tidy", "img")
    BY <1>6 DEF UnlinkTemp
  <2>2. (downloader'[p].command = downloader[p].command /\ downloader'[p].at = "tidy"
           /\ downloader'[p].file = "img") => ControlInv(p)' /\ MineInv(p)'
    BY <1>1, <1>2, <1>3, <1>6
       DEF ControlInv, MineInv, Before, Recovery, Writing, DownloadInv, DownloadTypeOK,
           Downloaders, Commands
  <2>3. "tidy" \in DownloaderLabels \ {"link"} /\ "img" \in AllFiles
    BY <1>3 DEF DownloaderLabels, Writing, Recovery
  <2> QED BY <1>2, <2>1, <2>2, <2>3, NextKeeps
<1>7. CASE file \notin Recovery
  <2>1. NextFile(p, "verify", file)
    BY <1>7 DEF UnlinkTemp, Recovery
  <2>2. (downloader'[p].command = downloader[p].command /\ downloader'[p].at = "verify"
           /\ downloader'[p].file = file) => ControlInv(p)' /\ MineInv(p)'
    BY <1>1, <1>2, <1>7
       DEF ControlInv, MineInv, Before, Recovery, Writing, DownloadInv, DownloadTypeOK,
           Downloaders, Commands
  <2>3. "verify" \in DownloaderLabels \ {"link"}
    BY DEF DownloaderLabels, Writing
  <2> HIDE DEF file
  <2> QED BY <1>1, <1>2, <2>1, <2>2, <2>3, NextKeeps
<1> QED BY <1>4, <1>5, <1>6, <1>7 DEF Recovery

LEMMA VerifyKeeps ==
    ASSUME DownloadInv, NEW p \in DownloadPids, VerifyFile(p)
    PROVE  DownloadInv'
<1> DEFINE file == downloader[p].file
           passes == found[file] # Absent /\ ~found[file].bad
<1>1. /\ downloader[p].at = "verify"
      /\ ControlInv(p)
      /\ mine[p] = Before(file) \cup {file}
      /\ \/ downloader[p].command = "image" /\ file = "image"
         \/ downloader[p].command = "cache" /\ file = p
  <2>1. downloader[p].at = "verify" /\ DownloaderInv(p)
    BY DEF VerifyFile, DownloadIs, DownloadInv
  <2>2. downloader[p].command \in Commands
    BY DEF DownloadInv, DownloadTypeOK, Downloaders
  <2>3. ControlInv(p) /\ MineInv(p)
    BY <2>1 DEF DownloaderInv
  <2>4. \/ downloader[p].command = "image" /\ file = "image"
        \/ downloader[p].command = "cache" /\ file = p
    <3>1. CASE downloader[p].command = "none"
      BY <2>1, <2>3, <3>1 DEF ControlInv
    <3>2. CASE downloader[p].command = "image"
      BY <2>1, <2>3, <3>2 DEF ControlInv
    <3>3. CASE downloader[p].command = "cache"
      BY <2>1, <2>3, <3>3 DEF ControlInv
    <3>4. CASE downloader[p].command = "macos"
      BY <2>1, <2>3, <3>4 DEF ControlInv, Writing
    <3> QED BY <2>2, <3>1, <3>2, <3>3, <3>4 DEF Commands
  <2>5. mine[p] = Before(file) \cup {file}
    BY <2>1, <2>3 DEF MineInv
  <2> QED BY <2>1, <2>3, <2>4, <2>5
<1>2. file \in AllFiles /\ found' = found
  BY <1>1 DEF AllFiles, Destinations, VerifyFile
<1>3. CASE passes /\ downloader[p].command = "image"
  <2>1. DownloadEnds(p) /\ reported' = reported \cup {"image"}
    BY <1>3 DEF VerifyFile
  <2>2. "image" \in mine[p] /\ ~found["image"].bad
    BY <1>1, <1>3 DEF ControlInv
  <2>3. reported' \in SUBSET Destinations /\ found' \in [AllFiles -> Contents]
    BY <1>2, <2>1 DEF DownloadInv, DownloadTypeOK, Destinations
  <2> QED BY <1>2, <2>1, <2>2, <2>3, EndKeeps
<1>4. CASE passes /\ downloader[p].command = "cache"
  <2>1. NextFile(p, "publish", p) /\ mine' = mine /\ reported' = reported
    BY <1>4 DEF VerifyFile
  <2>2. (downloader'[p].command = downloader[p].command /\ downloader'[p].at = "publish"
           /\ downloader'[p].file = p) => ControlInv(p)' /\ MineInv(p)'
    BY <1>1, <1>4, <2>1 DEF ControlInv, MineInv
  <2>3. "publish" \in DownloaderLabels \ {"link"} /\ p \in AllFiles
    BY DEF DownloaderLabels, AllFiles
  <2> QED BY <1>2, <2>1, <2>2, <2>3, NextKeeps
<1>5. CASE ~passes
  <2>1. NextFile(p, "reject", file) /\ mine' = mine /\ reported' = reported
    BY <1>5 DEF VerifyFile
  <2>2. (downloader'[p].command = downloader[p].command /\ downloader'[p].at = "reject"
           /\ downloader'[p].file = file) => ControlInv(p)' /\ MineInv(p)'
    BY <1>1, <2>1 DEF ControlInv, MineInv
  <2>3. "reject" \in DownloaderLabels \ {"link"}
    BY DEF DownloaderLabels
  <2> HIDE DEF file
  <2> QED BY <1>2, <2>1, <2>2, <2>3, NextKeeps
<1> QED BY <1>1, <1>3, <1>4, <1>5

\* The removal of one file that is the command's, and its end.
LEMMA RemoveKeeps ==
    ASSUME DownloadInv, NEW p \in DownloadPids, NEW file \in mine[p],
           DownloadEnds(p), found' = [found EXCEPT ![file] = Absent],
           reported' \in SUBSET Destinations,
           \A f \in reported' \ reported : f \in mine[p] /\ f # file /\ ~found[f].bad
    PROVE  DownloadInv'
<1>1. found' \in [AllFiles -> Contents]
  BY DEF DownloadInv, DownloadTypeOK, Contents
<1>2. \A f \in AllFiles : found'[f] = IF f = file THEN Absent ELSE found[f]
  BY DEF DownloadInv, DownloadTypeOK
<1>3. mine[p] \subseteq AllFiles
  BY DEF DownloadInv, DownloadTypeOK
<1> QED BY <1>1, <1>2, <1>3, EndKeeps

LEMMA RejectKeeps ==
    ASSUME DownloadInv, NEW p \in DownloadPids, RejectFile(p)
    PROVE  DownloadInv'
<1>1. downloader[p].file \in mine[p]
  BY DEF RejectFile, DownloadIs, DownloadInv, DownloaderInv, MineInv
<1>2. reported' = reported /\ reported' \in SUBSET Destinations
  BY DEF RejectFile, DownloadInv, DownloadTypeOK
<1> QED BY <1>1, <1>2, RemoveKeeps DEF RejectFile

LEMMA PublishKeeps ==
    ASSUME DownloadInv, NEW p \in DownloadPids, PublishFile(p)
    PROVE  DownloadInv'
<1>1. p \in mine[p]
  <2>1. downloader[p].at = "publish" /\ DownloaderInv(p)
    BY DEF PublishFile, DownloadIs, DownloadInv
  <2>2. downloader[p].file = p
    BY <2>1 DEF DownloaderInv, ControlInv, Writing, DownloadInv, DownloadTypeOK, Downloaders,
                Commands
  <2> QED BY <2>1, <2>2 DEF DownloaderInv, MineInv
<1>2. reported' = reported /\ reported' \in SUBSET Destinations
  BY DEF PublishFile, DownloadInv, DownloadTypeOK
<1> QED BY <1>1, <1>2, RemoveKeeps DEF PublishFile

LEMMA RemoveDmgKeeps ==
    ASSUME DownloadInv, NEW p \in DownloadPids, RemoveDmg(p)
    PROVE  DownloadInv'
<1>1. downloader[p].at = "tidy" /\ DownloaderInv(p)
  BY DEF RemoveDmg, DownloadIs, DownloadInv
<1>2. /\ downloader[p].command = "macos"
      /\ downloader[p].file = "img"
  BY <1>1 DEF DownloaderInv, ControlInv, Writing, DownloadInv, DownloadTypeOK, Downloaders,
              Commands
<1>3. mine[p] = {"dmg", "chunklist", "img"}
  BY <1>1, <1>2 DEF DownloaderInv, MineInv, Before
<1>4. "tidy_chunklist" \in DownloaderLabels /\ "img" \in AllFiles /\ "dmg" \in AllFiles
  BY DEF DownloaderLabels, AllFiles, Destinations, Recovery
<1>5. PICK d \in Downloaders :
        /\ downloader' = [downloader EXCEPT ![p] = d]
        /\ downloader'[p] = d
        /\ d.command = downloader[p].command
        /\ d.at = "tidy_chunklist"
        /\ d.file = "img"
  <2>1. NextFile(p, "tidy_chunklist", "img")
    BY DEF RemoveDmg
  <2> QED BY <1>4, <2>1, NextFileIs
<1> DEFINE m == mine[p] \ {"dmg"}
<1>6. /\ mine' = [mine EXCEPT ![p] = m]
      /\ m \in SUBSET AllFiles
      /\ mine'[p] = m
      /\ m = {"chunklist", "img"}
  BY <1>3 DEF RemoveDmg, Removes, DownloadInv, DownloadTypeOK
<1>7. /\ found' \in [AllFiles -> Contents]
      /\ \A f \in AllFiles : found'[f] = IF f = "dmg" THEN Absent ELSE found[f]
  BY DEF RemoveDmg, Removes, DownloadInv, DownloadTypeOK, Contents
<1>8. DownloaderInv(p)'
  <2>1. ControlInv(p)' /\ MineInv(p)'
    BY <1>2, <1>5, <1>6 DEF ControlInv, MineInv
  <2>2. (\A f \in mine[p] : IsBy(found[f], p))'
    BY <1>1, <1>3, <1>5, <1>6, <1>7 DEF DownloaderInv, IsBy
  <2> QED BY <1>5, <2>1, <2>2 DEF DownloaderInv
<1>9. reported' = reported
  BY DEF RemoveDmg
<1> HIDE DEF m
<1> QED BY <1>3, <1>5, <1>6, <1>7, <1>8, <1>9, AdvanceKeeps

LEMMA RemoveChunklistKeeps ==
    ASSUME DownloadInv, NEW p \in DownloadPids, RemoveChunklist(p)
    PROVE  DownloadInv'
<1>1. downloader[p].at = "tidy_chunklist" /\ DownloaderInv(p)
  BY DEF RemoveChunklist, DownloadIs, DownloadInv
<1>2. downloader[p].command = "macos"
  BY <1>1 DEF DownloaderInv, ControlInv, Writing, DownloadInv, DownloadTypeOK, Downloaders,
              Commands
<1>3. mine[p] = {"chunklist", "img"} /\ ~found["img"].bad
  BY <1>1, <1>2 DEF DownloaderInv, MineInv, IsBy
<1>4. reported' = reported \cup {"img"} /\ reported' \in SUBSET Destinations
  BY DEF RemoveChunklist, DownloadInv, DownloadTypeOK, Destinations, Recovery
<1>5. \A f \in reported' \ reported : f \in mine[p] /\ f # "chunklist" /\ ~found[f].bad
  BY <1>3, <1>4
<1>6. /\ DownloadEnds(p)
      /\ found' = [found EXCEPT !["chunklist"] = Absent]
      /\ "chunklist" \in mine[p]
  BY <1>3 DEF RemoveChunklist
<1> QED BY <1>4, <1>5, <1>6, RemoveKeeps

LEMMA DiesKeeps ==
    ASSUME DownloadInv, NEW p \in DownloadPids, DownloaderDies(p)
    PROVE  DownloadInv'
  BY EndKeeps DEF DownloaderDies, DownloadInv, DownloadTypeOK

-----------------------------------------------------------------------------
(* What is cleared away.                                                   *)

LEMMA ClearKeeps ==
    ASSUME DownloadInv, downloader' = downloader, mine' = mine,
           found' \in [AllFiles -> Contents], reported' \in SUBSET reported,
           \A p \in DownloadPids : \A f \in mine[p] : found'[f] = found[f],
           \A f \in reported' : found'[f] = found[f]
    PROVE  DownloadInv'
<1>1. DownloadTypeOK'
  BY DEF DownloadInv, DownloadTypeOK
<1>2. ASSUME NEW p \in DownloadPids PROVE DownloaderInv(p)'
  <2>1. DownloaderInv(p)
    BY DEF DownloadInv
  <2>2. ControlInv(p)' /\ MineInv(p)'
    BY <2>1 DEF DownloaderInv, ControlInv, MineInv
  <2>3. (downloader[p].at = "link" => IsBy(downloader[p].holds, p))'
    BY <2>1 DEF DownloaderInv, IsBy
  <2>4. (\A f \in mine[p] : IsBy(found[f], p))'
    BY <2>1 DEF DownloaderInv, IsBy
  <2> QED BY <2>2, <2>3, <2>4 DEF DownloaderInv
<1>3. ReportedInv'
  BY DEF DownloadInv, ReportedInv
<1> QED BY <1>1, <1>2, <1>3 DEF DownloadInv

\* Whose files the files of a command can be.
LEMMA MineIsOf ==
    ASSUME DownloadInv, NEW p \in DownloadPids
    PROVE  /\ downloader[p].command \notin {"image", "macos"} => mine[p] \subseteq {p}
           /\ downloader[p].command # "cache" => mine[p] \subseteq Destinations
<1>1. DownloaderInv(p) /\ downloader[p].command \in Commands
  BY DEF DownloadInv, DownloadTypeOK, Downloaders
<1> USE DEF DownloaderInv, ControlInv, MineInv, Before, Writing, Destinations, Recovery
<1>2. CASE downloader[p].command = "none"
  BY <1>1, <1>2
<1>3. CASE downloader[p].command = "image"
  BY <1>1, <1>3
<1>4. CASE downloader[p].command = "cache"
  BY <1>1, <1>4, DownloadAssumption
<1>5. CASE downloader[p].command = "macos"
  BY <1>1, <1>5
<1> QED BY <1>1, <1>2, <1>3, <1>4, <1>5 DEF Commands

LEMMA UserClearsKeeps ==
    ASSUME DownloadInv, NEW file \in AllFiles, UserClears(file)
    PROVE  DownloadInv'
<1>1. found' \in [AllFiles -> Contents]
  BY DEF UserClears, DownloadInv, DownloadTypeOK, Contents
<1>2. \A f \in AllFiles \ {file} : found'[f] = found[f]
  BY DEF UserClears, DownloadInv, DownloadTypeOK
<1>3. \A p \in DownloadPids : \A f \in mine[p] : f \in AllFiles \ {file}
  BY MineIsOf, DownloadAssumption DEF UserClears, AtWork, AllFiles
<1>4. reported' = reported \ {file} /\ reported \subseteq AllFiles
  BY DEF UserClears, DownloadInv, DownloadTypeOK, AllFiles
<1> QED BY <1>1, <1>2, <1>3, <1>4, ClearKeeps DEF UserClears

-----------------------------------------------------------------------------

LEMMA StepKeeps ==
    ASSUME DownloadInv, NEW p \in DownloadPids, DownloadStep(p)
    PROVE  DownloadInv'
  BY BeginKeeps, StageKeeps, FetchKeeps, LinkKeeps, UnlinkKeeps, VerifyKeeps, RejectKeeps,
     PublishKeeps, RemoveDmgKeeps, RemoveChunklistKeeps, DiesKeeps DEF DownloadStep

LEMMA InitHolds == DownloadInit => DownloadInv
<1> SUFFICES ASSUME DownloadInit PROVE DownloadInv
  OBVIOUS
<1>1. NoDownload \in Downloaders
  BY DownloadAssumption DEF NoDownload, Downloaders, Commands, DownloaderLabels, Contents
<1>2. DownloadTypeOK
  BY <1>1 DEF DownloadInit, DownloadTypeOK, AllFiles, Contents
<1>3. \A p \in DownloadPids : DownloaderInv(p)
  BY DEF DownloadInit, DownloaderInv, ControlInv, MineInv, NoDownload
<1> QED BY <1>2, <1>3 DEF DownloadInit, DownloadInv, ReportedInv

LEMMA StutterKeeps == DownloadInv /\ UNCHANGED downloadVars => DownloadInv'
<1> SUFFICES ASSUME DownloadInv, UNCHANGED downloadVars PROVE DownloadInv'
  OBVIOUS
<1>1. found' \in [AllFiles -> Contents]
  BY DEF downloadVars, DownloadInv, DownloadTypeOK
<1> QED BY <1>1, ClearKeeps DEF downloadVars

\* Whatever the processes do and wherever they die, each command knows which files are
\* its own, and they are what it put there.
THEOREM DownloadInvariance == DownloadSpec => []DownloadInv
<1>1. DownloadInv /\ [DownloadNext]_downloadVars => DownloadInv'
  BY StepKeeps, UserClearsKeeps, StutterKeeps DEF DownloadNext, AllFiles
<1> QED BY <1>1, InitHolds, PTL DEF DownloadSpec

\* No command's download is replaced or taken by another, whoever is after the same
\* names or has the PID of one that died, and what was reported as downloaded stays and
\* is what it should be.
THEOREM DownloadsAreKeptHolds == DownloadSpec => []DownloadsAreKept
<1>1. DownloadInv => DownloadsAreKept
  BY AbsentIsNotDownloaded DEF DownloadInv, DownloaderInv, IsBy, ReportedInv, DownloadsAreKept
<1> QED BY <1>1, DownloadInvariance, PTL

=============================================================================
