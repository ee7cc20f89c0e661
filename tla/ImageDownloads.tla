---------------------------- MODULE ImageDownloads ----------------------------
(***************************************************************************)
(* How vmctl processes that know nothing of one another download files     *)
(* into one directory: get --download, for which the names of the files    *)
(* are those of the image (or, for macOS, of the recovery image and of     *)
(* what it is converted from), and the cache, for which the name has the   *)
(* PID.  A file is staged under a name of its own, written, linked to its  *)
(* destination and only then verified; a process may die at any step, and  *)
(* another one may come to have its PID.                                   *)
(***************************************************************************)
EXTENDS Naturals, FiniteSets

CONSTANTS
    DownloadPids,   \* of the vmctl processes: they name the temporary files
    Attempts,       \* how many names a process tries for one (100)
    MaxLeft         \* bound on the temporary files with which a process may die

\* The destinations: in the user's directory, and in the object store for each PID.
Recovery == {"dmg", "chunklist", "img"}

Destinations == {"image"} \cup Recovery

ASSUME DownloadAssumption ==
    /\ Attempts \in Nat \ {0}
    /\ MaxLeft \in Nat
    /\ DownloadPids \cap Destinations = {}

VARIABLES
    downloader, \* what each process does: the command and where it is, the file it is
                \* at, the number of its temporary file, and what that holds
    found,      \* what is at each destination
    temps,      \* the temporary files: destination, PID and number
    mine,       \* what each process has put at its destination (auxiliary)
    reported    \* the files that a command has reported as downloaded (auxiliary)

downloadVars == <<downloader, found, temps, mine, reported>>

Absent == [is |-> "absent"]

\* What a process got, or converted from what it got, and whether it is bad: not what
\* its checksum, if one is known, is of.
Got(p, bad) == [is |-> "file", by |-> p, bad |-> bad]

NoDownload ==
    [command |-> "none", at |-> "idle", file |-> "none", attempt |-> 0, holds |-> Absent]

DownloadInit ==
    /\ downloader = [p \in DownloadPids |-> NoDownload]
    /\ found = [f \in Destinations \cup DownloadPids |-> Absent]
    /\ temps = {}
    /\ mine = [p \in DownloadPids |-> {}]
    /\ reported = {}

DownloadIs(p, label) == downloader[p].at = label

Temp(p) == <<downloader[p].file, p, downloader[p].attempt>>

\* The command ends, with success, with an error, or because it dies.
DownloadEnds(p) ==
    /\ downloader' = [downloader EXCEPT ![p] = NoDownload]
    /\ mine' = [mine EXCEPT ![p] = {}]

\* It goes on with the next file.
NextFile(p, label, file) ==
    downloader' = [downloader EXCEPT
        ![p] = [command |-> downloader[p].command, at |-> label, file |-> file, attempt |-> 0,
                holds |-> Absent]]

Removes(p, file) ==
    /\ found' = [found EXCEPT ![file] = Absent]
    /\ mine' = [mine EXCEPT ![p] = @ \ {file}]

-----------------------------------------------------------------------------

\* download_image and download_windows; download_macos, which wants none of its files
\* there; and cache_request, which wants no file of an earlier process with its PID.
BeginDownload(p, command) ==
    /\ DownloadIs(p, "idle")
    /\ LET Begins(file) ==
               downloader' = [downloader EXCEPT
                   ![p] = [command |-> command, at |-> "stage", file |-> file, attempt |-> 0,
                           holds |-> Absent]]
       IN \/ command = "image" /\ Begins("image")
          \/ command = "macos" /\ (\A f \in Recovery : found[f] = Absent) /\ Begins("dmg")
          \/ command = "cache" /\ found[p] = Absent /\ Begins(p)
    /\ UNCHANGED <<found, temps, mine, reported>>

\* stage_new_file
StageFile(p) ==
    /\ DownloadIs(p, "stage")
    /\ LET f == downloader[p].file
           free == {a \in 1 .. Attempts : <<f, p, a>> \notin temps}
       IN IF found[f] # Absent \/ free = {}
          THEN DownloadEnds(p) /\ UNCHANGED temps
          ELSE \E a \in free :
                 /\ \A b \in free : a <= b
                 /\ temps' = temps \cup {<<f, p, a>>}
                 /\ downloader' = [downloader EXCEPT ![p].at = "fetch", ![p].attempt = a]
                 /\ UNCHANGED mine
    /\ UNCHANGED <<found, reported>>

\* The image of macOS is what qemu-img makes of the dmg that is there.
Converts(p) ==
    /\ downloader[p].file = "img"
    /\ found["dmg"] # Absent
    /\ downloader' = [downloader EXCEPT ![p].at = "link", ![p].holds = found["dmg"]]

\* Else curl gets the file.  It or qemu-img may fail, and the temporary file goes.
FetchFile(p) ==
    /\ DownloadIs(p, "fetch")
    /\ \/ /\ \/ Converts(p)
             \/ /\ downloader[p].file # "img"
                /\ \E bad \in BOOLEAN :
                     /\ bad => downloader[p].command # "macos"
                     /\ downloader' = [downloader EXCEPT ![p].at = "link",
                                                         ![p].holds = Got(p, bad)]
          /\ UNCHANGED <<temps, mine>>
       \/ /\ DownloadEnds(p)
          /\ temps' = temps \ {Temp(p)}
    /\ UNCHANGED <<found, reported>>

\* Mutant: the file is renamed to its destination.
LinkFile_Renames(p) ==
    /\ DownloadIs(p, "link")
    /\ found' = [found EXCEPT ![downloader[p].file] = downloader[p].holds]
    /\ mine' = [mine EXCEPT ![p] = @ \cup {downloader[p].file}]
    /\ downloader' = [downloader EXCEPT ![p].at = "unlink"]
    /\ UNCHANGED <<temps, reported>>

\* commit_new_file: the link fails if there is a file by now.
LinkFile(p) ==
    /\ DownloadIs(p, "link")
    /\ IF found[downloader[p].file] = Absent
       THEN /\ found' = [found EXCEPT ![downloader[p].file] = downloader[p].holds]
            /\ mine' = [mine EXCEPT ![p] = @ \cup {downloader[p].file}]
            /\ downloader' = [downloader EXCEPT ![p].at = "unlink"]
            /\ UNCHANGED temps
       ELSE /\ DownloadEnds(p)
            /\ temps' = temps \ {Temp(p)}
            /\ UNCHANGED found
    /\ UNCHANGED reported

UnlinkTemp(p) ==
    /\ DownloadIs(p, "unlink")
    /\ temps' = temps \ {Temp(p)}
    /\ CASE downloader[p].file = "dmg" -> NextFile(p, "stage", "chunklist")
         [] downloader[p].file = "chunklist" -> NextFile(p, "stage", "img")
         [] downloader[p].file = "img" -> NextFile(p, "tidy", "img")
         [] OTHER -> NextFile(p, "verify", downloader[p].file)
    /\ UNCHANGED <<found, mine, reported>>

\* verify_checksum, if there is one.
VerifyFile(p) ==
    /\ DownloadIs(p, "verify")
    /\ LET file == found[downloader[p].file]
           passes == file # Absent /\ ~file.bad
       IN CASE passes /\ downloader[p].command = "image" ->
                    DownloadEnds(p) /\ reported' = reported \cup {"image"}
            [] passes /\ downloader[p].command = "cache" ->
                    NextFile(p, "publish", p) /\ UNCHANGED <<mine, reported>>
            [] OTHER ->
                    NextFile(p, "reject", downloader[p].file) /\ UNCHANGED <<mine, reported>>
    /\ UNCHANGED <<found, temps>>

RejectFile(p) ==
    /\ DownloadIs(p, "reject")
    /\ found' = [found EXCEPT ![downloader[p].file] = Absent]
    /\ DownloadEnds(p)
    /\ UNCHANGED <<temps, reported>>

\* The object of the cache is renamed, or removed as one that is in the store already
\* (module ImageCache), or what fails on the way to that leaves it to be removed.
PublishFile(p) ==
    /\ DownloadIs(p, "publish")
    /\ found' = [found EXCEPT ![p] = Absent]
    /\ DownloadEnds(p)
    /\ UNCHANGED <<temps, reported>>

\* What the recovery image was made of goes.
RemoveDmg(p) ==
    /\ DownloadIs(p, "tidy")
    /\ Removes(p, "dmg")
    /\ NextFile(p, "tidy_chunklist", "img")
    /\ UNCHANGED <<temps, reported>>

RemoveChunklist(p) ==
    /\ DownloadIs(p, "tidy_chunklist")
    /\ found' = [found EXCEPT !["chunklist"] = Absent]
    /\ DownloadEnds(p)
    /\ reported' = reported \cup {"img"}
    /\ UNCHANGED temps

DownloaderDies(p) ==
    /\ ~DownloadIs(p, "idle")
    /\ Cardinality(temps) <= MaxLeft
    /\ DownloadEnds(p)
    /\ UNCHANGED <<found, temps, reported>>

-----------------------------------------------------------------------------
(* What is left is cleared away by the user, when no command is at it:     *)
(* cache prune passes over the files of downloads.                         *)

AtWork(commands) == \E p \in DownloadPids : downloader[p].command \in commands

UserClears(f) ==
    /\ ~AtWork(IF f \in Destinations THEN {"image", "macos"} ELSE {"cache"})
    /\ found[f] # Absent
    /\ found' = [found EXCEPT ![f] = Absent]
    /\ temps' = {t \in temps : t[1] \in Destinations <=> f \notin Destinations}
    /\ reported' = reported \ {f}
    /\ UNCHANGED <<downloader, mine>>

-----------------------------------------------------------------------------

DownloadStep(p) ==
    \/ \E command \in {"image", "macos", "cache"} : BeginDownload(p, command)
    \/ StageFile(p) \/ FetchFile(p) \/ LinkFile(p) \/ UnlinkTemp(p) \/ VerifyFile(p)
    \/ RejectFile(p) \/ PublishFile(p) \/ RemoveDmg(p) \/ RemoveChunklist(p)
    \/ DownloaderDies(p)

DownloadNext ==
    \/ \E p \in DownloadPids : DownloadStep(p)
    \/ \E f \in Destinations \cup DownloadPids : UserClears(f)

DownloadSpec == DownloadInit /\ [][DownloadNext]_downloadVars

-----------------------------------------------------------------------------
(* Properties.                                                             *)

\* What a command has put at a destination is there, as it got it, until that command
\* takes it away itself, whichever commands are after the same names, have failed over
\* them, or have died with its PID; a recovery image is made of the download of the
\* command that reports it; and what has been reported stays, and is what its checksum,
\* if there is one, is of.
DownloadsAreKept ==
    /\ \A p \in DownloadPids : \A f \in mine[p] : found[f] # Absent /\ found[f].by = p
    /\ \A f \in reported : found[f] # Absent /\ ~found[f].bad

=============================================================================
