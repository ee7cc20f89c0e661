------------------------------ MODULE VmSettings ------------------------------
(***************************************************************************)
(* The configuration file of a VM under several commands at once.  Every   *)
(* command reads and validates the file in find, before it has the         *)
(* operation lock of the VM; set then validates what it has read together  *)
(* with its updates, and appends to the file as it is by then a line for   *)
(* each update and nothing else.  Of several lines for a setting the last  *)
(* one counts.  A write may be cut short, by the end of vmctl or of the    *)
(* space on the disk.                                                      *)
(***************************************************************************)
EXTENDS Naturals

CONSTANT Commands

\* The settings stand for all that set can change, and the last two for the pairs of
\* settings that must agree.
Values ==
    [size |-> {"32G", "64G"}, cache |-> {"writeback", "none"}, aio |-> {"threads", "native"}]

Settings == DOMAIN Values

\* The order in which set writes them.
Place == [size |-> 1, cache |-> 2, aio |-> 3]

\* A value that does not load.
Broken == "broken"

\* What a setting is that the file leaves out, or gives no value.
Default == [size |-> "64G", cache |-> "writeback", aio |-> "threads"]

\* The updates that a set may be given.
Updates ==
    {u \in UNION {[S -> UNION {Values[k] : k \in Settings}] : S \in SUBSET Settings \ {{}}} :
        \A k \in DOMAIN u : u[k] \in Values[k]}

VARIABLES
    conf,       \* the file: whether it is there, the value of each setting, and what its
                \* last line is, if that has no end: the line of a setting, or less
    command,    \* where each command is, and what it has read
    append,     \* what the one that has the lock is about to append: the updates, whether
                \* it ends the last line first, and whether it has read the file as it is
    disk,       \* the size of the disk image, or "none"
    running,    \* whether the VM runs
    clean       \* no write was cut short, and each set had read what it wrote over (auxiliary)

settingsVars == <<conf, command, append, disk, running, clean>>

Rest == [at |-> "idle", read |-> Default]

NoAppend == [updates |-> [k \in {} |-> Broken], newline |-> FALSE, unread |-> FALSE]

SettingsInit ==
    /\ conf = [there |-> TRUE, values |-> Default, tail |-> "none"]
    /\ command = [c \in Commands |-> Rest]
    /\ append = NoAppend
    /\ disk \in {"none"} \cup Values["size"]
    /\ running = FALSE
    /\ clean = TRUE

Valid(values) ==
    /\ \A k \in Settings : values[k] # Broken
    /\ values["aio"] = "native" => values["cache"] = "none"

At(c, labels) == command[c].at \in labels

Goes(c, label) == command' = [command EXCEPT ![c].at = label]

Returns(c) == command' = [command EXCEPT ![c] = Rest]

Holders == {c \in Commands : ~At(c, {"idle", "found"})}

-----------------------------------------------------------------------------
(* All commands.                                                           *)

\* find: a file that does not load is an error, of every command that goes by a name.
FindVm(c) ==
    /\ At(c, {"idle"})
    /\ conf.there
    /\ Valid(conf.values)
    /\ command' = [command EXCEPT ![c] = [at |-> "found", read |-> conf.values]]
    /\ UNCHANGED <<conf, append, disk, running, clean>>

\* acquire_vm_lock; a lock that is held is an error.
LockVm(c) ==
    /\ At(c, {"found"})
    /\ IF Holders = {} THEN Goes(c, "locked") ELSE Returns(c)
    /\ UNCHANGED <<conf, append, disk, running, clean>>

\* The command is killed; the system gives up its lock.
CommandDies(c) ==
    /\ ~At(c, {"idle"})
    /\ Returns(c)
    /\ append' = IF c \in Holders THEN NoAppend ELSE append
    /\ UNCHANGED <<conf, disk, running, clean>>

-----------------------------------------------------------------------------
(* set.                                                                    *)

\* Mutant: what is validated lacks an update.
Updated_WithoutAio(values, u) ==
    [k \in Settings |-> IF k \in DOMAIN u \ {"aio"} THEN u[k] ELSE values[k]]

Updated(values, u) == [k \in Settings |-> IF k \in DOMAIN u THEN u[k] ELSE values[k]]

\* The updates are validated and the file opened, if it is still there, and read for
\* whether its last line ends.
PrepareSettings(c) ==
    /\ At(c, {"locked"})
    /\ \/ \E u \in Updates :
            /\ conf.there
            /\ Valid(Updated(command[c].read, u))
            /\ append' = [updates |-> u, newline |-> conf.tail # "none",
                          unread |-> command[c].read # conf.values]
            /\ command' = [command EXCEPT ![c] = [at |-> "prepared", read |-> Default]]
       \/ Returns(c) /\ UNCHANGED append
    /\ UNCHANGED <<conf, disk, running, clean>>

\* require_stopped_disk and disk_resize, which does not shrink.
ResizeForSet(c) ==
    /\ At(c, {"prepared"})
    /\ IF "size" \notin DOMAIN append.updates
       THEN Goes(c, "resized") /\ UNCHANGED <<append, disk>>
       ELSE LET size == append.updates["size"] IN
            IF ~running /\ disk \in {"32G", size}
            THEN Goes(c, "resized") /\ disk' = size /\ UNCHANGED append
            ELSE Returns(c) /\ append' = NoAppend /\ UNCHANGED disk
    /\ UNCHANGED <<conf, running, clean>>

\* The settings whose lines come before that of k.
Earlier(k) == {j \in DOMAIN append.updates : Place[j] < Place[k]}

\* Mutant: the new lines are appended as they are.
Joined_AsIs == conf.tail # "none"

\* Whether the first new line continues a last line that has no end.
Joined == conf.tail # "none" /\ ~append.newline

\* The values of the file after the first lines, those of the settings in written, were
\* appended.  A first line that continues another one breaks its setting or, where that
\* names none, is lost.
After(written) ==
    LET lost == IF Joined THEN {k \in written : Earlier(k) = {}} ELSE {}
    IN [k \in Settings |->
          IF k \in written \ lost THEN append.updates[k]
          ELSE IF Joined /\ written # {} /\ k = conf.tail THEN Broken
          ELSE conf.values[k]]

WriteSettings(c) ==
    /\ At(c, {"resized"})
    /\ conf' = [conf EXCEPT !.values = After(DOMAIN append.updates), !.tail = "none"]
    /\ clean' = (clean /\ ~append.unread)
    /\ append' = NoAppend
    /\ Returns(c)
    /\ UNCHANGED <<disk, running>>

\* What is left of the line of a setting that is cut short: less than its key, which no
\* one reads; the key and no value; a value without its closing quote, which is none; or
\* all but the end of the line.
Cut(k) == {"ignored", Default[k], Broken, append.updates[k]}

WriteCutShort(c) ==
    /\ At(c, {"resized"})
    /\ \E k \in DOMAIN append.updates :
         \E left \in Cut(k) :
            conf' = [conf EXCEPT
                       !.values = IF left = "ignored" THEN After(Earlier(k))
                                  ELSE [After(Earlier(k)) EXCEPT ![k] = left],
                       !.tail = IF left = "ignored" THEN "less" ELSE k]
    /\ clean' = FALSE
    /\ append' = NoAppend
    /\ Returns(c)
    /\ UNCHANGED <<disk, running>>

-----------------------------------------------------------------------------
(* start and delete-vm, and the end of QEMU.                               *)

\* start runs with what it has read, and makes the disk when there is none.
StartAsRead(c) ==
    /\ At(c, {"locked"})
    /\ running' = TRUE
    /\ IF disk = "none" THEN disk' \in Values["size"] ELSE UNCHANGED disk
    /\ Returns(c)
    /\ UNCHANGED <<conf, append, clean>>

DeleteConfig(c) ==
    /\ At(c, {"locked"})
    /\ ~running
    /\ conf' = [conf EXCEPT !.there = FALSE]
    /\ disk' = "none"
    /\ Returns(c)
    /\ UNCHANGED <<append, running, clean>>

QemuExits ==
    /\ running
    /\ running' = FALSE
    /\ UNCHANGED <<conf, command, append, disk, clean>>

-----------------------------------------------------------------------------

SettingsStep(c) ==
    \/ FindVm(c) \/ LockVm(c) \/ CommandDies(c)
    \/ PrepareSettings(c) \/ ResizeForSet(c) \/ WriteSettings(c) \/ WriteCutShort(c)
    \/ StartAsRead(c) \/ DeleteConfig(c)

SettingsNext == (\E c \in Commands : SettingsStep(c)) \/ QemuExits

SettingsSpec == SettingsInit /\ [][SettingsNext]_settingsVars

-----------------------------------------------------------------------------
(* Properties.                                                             *)

\* The configuration of a VM loads, and with it every command that goes by a name, as
\* long as each set has read the settings that it wrote over and no write was cut
\* short: what set validates is what the file says when it is done.
ConfigLoads == clean => Valid(conf.values)

\* A set that succeeds has all of its updates in force and leaves every other setting
\* as it was, whatever had been left of an earlier write; one that is cut short touches
\* no setting but its own; nothing else touches any; and a configuration that was
\* deleted stays so, though a set may still be about to write to it.
SettingsStay ==
    [][/\ ~conf.there => ~conf'.there
       /\ conf' # conf /\ conf'.there =>
            \E c \in Commands :
              /\ At(c, {"resized"})
              /\ \A k \in Settings \ DOMAIN append.updates :
                    conf'.values[k] = conf.values[k]
              /\ conf'.tail = "none" =>
                    \A k \in DOMAIN append.updates :
                        conf'.values[k] = append.updates[k]]_settingsVars

=============================================================================
