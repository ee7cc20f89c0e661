------------------------------ MODULE ImageCache ------------------------------
(***************************************************************************)
(* The image cache of one VM directory, shared by concurrent vmctl         *)
(* processes: `get` downloads into it, `create` and `get --create-config`  *)
(* make VMs whose configurations may refer to its objects, `cache prune`   *)
(* removes the objects that no configuration refers to, and `delete-vm`    *)
(* takes configurations away.  An object is named for its digest, so it is *)
(* identified here with the content it was stored with.                    *)
(***************************************************************************)
EXTENDS FiniteSets

CONSTANTS
    Clients, NoClient,
    Urls, NoUrl,
    Contents, NoContent,    \* image contents; NoContent also: no reference
    Vms, NoVm,
    NoConfig,               \* of a VM: it does not exist
    Ops,
    Faults

AllOps == {"get", "refresh", "create", "create_config", "prune", "delete"}

\* client_crash: a vmctl process dies between two steps; corrupt: a stored
\* object goes bad; io_error: a download, a check or an operation on a file fails.
AllFaults == {"client_crash", "corrupt", "io_error"}

ASSUME CacheAssumption ==
    /\ NoClient \notin Clients
    /\ NoUrl \notin Urls
    /\ NoVm \notin Vms
    /\ NoContent \notin Contents
    /\ NoConfig \notin Contents \cup {NoContent}
    /\ Ops \subseteq AllOps
    /\ Faults \subseteq AllFaults

VARIABLES
    pc, op,
    from,       \* the URL a client downloads from
    vm,         \* the VM it creates or deletes
    got,        \* the object it works with
    todo,       \* prune: the configurations it has yet to read
    refs,       \* prune: the references it has found
    victims,    \* prune: the objects it removes
    lock,       \* the client that holds the flock of download.lock
    objects,    \* the object store: "absent", "good" or "corrupt"
    index,      \* index.json
    config,     \* the configurations, each with the object it refers to
    dataDir,    \* the VMs that have a data directory
    upstream,   \* what each URL serves
    halfGone,   \* VMs whose data was deleted, and whose configuration was not (auxiliary)
    undone,     \* VMs of which a written configuration was, or was to be, undone (auxiliary)
    unlocked    \* VMs configured by a client without the cache lock (auxiliary)

client == <<pc, op, from, vm, got, todo, refs, victims>>
store == <<objects, index>>
vms == <<config, dataDir, halfGone, undone, unlocked>>
vars == <<client, lock, store, vms, upstream>>

Stored == {o \in Contents : objects[o] # "absent"}

Indexed == {o \in Contents : \E u \in Urls : index[u] = o}

Init ==
    /\ pc = [c \in Clients |-> "idle"]
    /\ op = [c \in Clients |-> "none"]
    /\ from = [c \in Clients |-> NoUrl]
    /\ vm = [c \in Clients |-> NoVm]
    /\ got = [c \in Clients |-> NoContent]
    /\ todo = [c \in Clients |-> {}]
    /\ refs = [c \in Clients |-> {}]
    /\ victims = [c \in Clients |-> {}]
    /\ lock = NoClient
    /\ objects = [o \in Contents |-> "absent"]
    /\ index = [u \in Urls |-> NoContent]
    /\ config = [v \in Vms |-> NoConfig]
    /\ dataDir = {}
    /\ upstream \in [Urls -> Contents]
    /\ halfGone = {}
    /\ undone = {}
    /\ unlocked = {}

-----------------------------------------------------------------------------
(* Commands begin and end.                                                 *)

At(c, label) == pc[c] = label

Goto(c, label) ==
    /\ pc' = [pc EXCEPT ![c] = label]
    /\ UNCHANGED <<op, from, vm, got, todo, refs, victims>>

Unlock(c) == lock' = IF lock = c THEN NoClient ELSE lock

\* The command returns; FileLock::drop.
Return(c) ==
    /\ pc' = [pc EXCEPT ![c] = "idle"]
    /\ op' = [op EXCEPT ![c] = "none"]
    /\ from' = [from EXCEPT ![c] = NoUrl]
    /\ vm' = [vm EXCEPT ![c] = NoVm]
    /\ got' = [got EXCEPT ![c] = NoContent]
    /\ todo' = [todo EXCEPT ![c] = {}]
    /\ refs' = [refs EXCEPT ![c] = {}]
    /\ victims' = [victims EXCEPT ![c] = {}]
    /\ Unlock(c)

\* Mutant: whatever the directory of the VM is, a failing create removes it.
HasMadeDataDir_Any(c) == op[c] \in {"create", "create_config"}

\* Whether the data directory is the client's own work, of a VM not yet configured.
HasMadeDataDir(c) ==
    \/ op[c] = "create_config" /\ pc[c] \notin {"make_dir", "append_iso", "undo_config"}
    \/ op[c] = "create" /\ pc[c] \in {"provision", "write_linked", "write_copied"}

\* The data directory is removed; nobody looks whether that succeeds.
RemoveDir(v) ==
    \/ dataDir' = dataDir \ {v}
    \/ "io_error" \in Faults /\ dataDir' = dataDir

\* The command fails; what it has made of a VM is removed.
GiveUp(c) ==
    /\ Return(c)
    /\ IF HasMadeDataDir(c) THEN RemoveDir(vm[c]) ELSE dataDir' = dataDir
    /\ UNCHANGED <<store, config, halfGone, undone, unlocked, upstream>>

Fail(c) == "io_error" \in Faults /\ GiveUp(c)

Downloads == {"get", "refresh", "create_config"}

Begin(c) ==
    /\ At(c, "idle")
    /\ \E o \in Ops :
        /\ op' = [op EXCEPT ![c] = o]
        /\ pc' = [pc EXCEPT ![c] = CASE o = "create_config" -> "make_dir"
                                     [] o = "delete" -> "delete_data"
                                     [] OTHER -> "lock"]
        /\ \E u \in IF o \in Downloads THEN Urls ELSE {NoUrl} :
             from' = [from EXCEPT ![c] = u]
        /\ \E v \in IF o \in {"create", "create_config", "delete"} THEN Vms ELSE {NoVm} :
             /\ vm' = [vm EXCEPT ![c] = v]
             /\ o = "delete" => /\ config[v] # NoConfig
                                /\ \A d \in Clients : op[d] = "delete" => vm[d] # v
        /\ \E x \in IF o = "create" THEN Contents ELSE {NoContent} :
             got' = [got EXCEPT ![c] = x]
    /\ UNCHANGED <<todo, refs, victims, lock, store, vms, upstream>>

FirstStep ==
    [get |-> "lookup", refresh |-> "lookup", create_config |-> "lookup",
     create |-> "select", prune |-> "scan"]

\* Mutant: prune does not mind the lock.
AcquireCacheLock_PruneBarges(c) ==
    /\ At(c, "lock")
    /\ lock = NoClient \/ op[c] = "prune"
    /\ lock' = c
    /\ pc' = [pc EXCEPT ![c] = FirstStep[op[c]]]
    /\ todo' = [todo EXCEPT ![c] = IF op[c] = "prune" THEN Vms ELSE {}]
    /\ UNCHANGED <<op, from, vm, got, refs, victims, store, vms, upstream>>

\* acquire_cache_lock never waits.
AcquireCacheLock(c) ==
    /\ At(c, "lock")
    /\ lock = NoClient
    /\ lock' = c
    /\ pc' = [pc EXCEPT ![c] = FirstStep[op[c]]]
    /\ todo' = [todo EXCEPT ![c] = IF op[c] = "prune" THEN Vms ELSE {}]
    /\ UNCHANGED <<op, from, vm, got, refs, victims, store, vms, upstream>>

CacheLockBusy(c) ==
    /\ At(c, "lock")
    /\ lock # NoClient
    /\ GiveUp(c)

-----------------------------------------------------------------------------
(* cache_request.                                                          *)

\* cache_request returns and drops the lock; create_config goes on without it.
\* (get is done with it.)
Cached(c, object) ==
    IF op[c] = "create_config"
    THEN /\ pc' = [pc EXCEPT ![c] = "provision"]
         /\ got' = [got EXCEPT ![c] = object]
         /\ Unlock(c)
         /\ UNCHANGED <<op, from, vm, todo, refs, victims>>
    ELSE Return(c)

\* The index entry of the URL, unless --refresh-cache passes over it; an entry
\* whose object is gone is none.
Entry(c) ==
    IF op[c] # "refresh" /\ index[from[c]] \in Stored THEN index[from[c]] ELSE NoContent

\* A hit is verified against its digest and fails the command on a mismatch.
LookUp(c) ==
    /\ At(c, "lookup")
    /\ \/ /\ Entry(c) = NoContent
          /\ Goto(c, "download")
          /\ UNCHANGED <<lock, vms>>
       \/ /\ Entry(c) # NoContent
          /\ objects[Entry(c)] = "good"
          /\ Cached(c, Entry(c))
          /\ UNCHANGED vms
       \/ /\ Entry(c) # NoContent
          /\ objects[Entry(c)] = "corrupt"
          /\ GiveUp(c)
    /\ UNCHANGED <<store, upstream>>

\* Download and checksum, in a temporary file.
Download(c) ==
    /\ At(c, "download")
    /\ \/ /\ pc' = [pc EXCEPT ![c] = "publish"]
          /\ got' = [got EXCEPT ![c] = upstream[from[c]]]
          /\ UNCHANGED <<op, from, vm, todo, refs, victims, lock, store, vms, upstream>>
       \/ Fail(c)

\* Mutant: the file is copied into the store, not renamed.
Publish_ByCopy(c) ==
    /\ At(c, "publish")
    /\ objects[got[c]] # "corrupt"
    /\ objects' = [objects EXCEPT ![got[c]] = "partial"]
    /\ Goto(c, "write_index")
    /\ UNCHANGED <<lock, index, vms, upstream>>

\* An object that is there already is verified and kept.
Publish(c) ==
    /\ At(c, "publish")
    /\ \/ /\ objects[got[c]] # "corrupt"
          /\ objects' = [objects EXCEPT ![got[c]] = "good"]
          /\ Goto(c, "write_index")
          /\ UNCHANGED <<lock, index, vms, upstream>>
       \/ objects[got[c]] = "corrupt" /\ GiveUp(c)
       \/ Fail(c)

WriteIndex(c) ==
    /\ At(c, "write_index")
    /\ \/ /\ index' = [index EXCEPT ![from[c]] = got[c]]
          /\ Cached(c, got[c])
          /\ UNCHANGED <<objects, vms, upstream>>
       \/ Fail(c)

-----------------------------------------------------------------------------
(* create_cached_vm, create_cached_cloud_vm and create_custom_config.      *)

\* create_custom_config makes the data directory before it needs the cache.
\* Its input may also be a local file, which has nothing to do with the cache.
MakeDir(c) ==
    /\ At(c, "make_dir")
    /\ \/ /\ config[vm[c]] = NoConfig
          /\ vm[c] \notin dataDir
          /\ dataDir' = dataDir \cup {vm[c]}
          /\ Goto(c, IF op[c] = "create" THEN "provision" ELSE "lock")
          /\ UNCHANGED <<lock, store, config, halfGone, undone, unlocked, upstream>>
       \/ (config[vm[c]] # NoConfig \/ vm[c] \in dataDir) /\ GiveUp(c)
       \/ Fail(c)

\* cached_source: the object must be in the index, in the store and intact.
SelectSource(c) ==
    /\ At(c, "select")
    /\ IF got[c] \in Indexed /\ objects[got[c]] = "good"
       THEN Goto(c, "make_dir") /\ UNCHANGED <<lock, store, vms, upstream>>
       ELSE GiveUp(c)

\* An installer ISO is used where it is, and nobody looks whether it is there; a
\* linked disk is backed by the object; anything else is copied or converted
\* into the data directory.
Provision(c) ==
    /\ At(c, "provision")
    /\ \/ /\ Goto(c, "write_linked") \/ (got[c] \in Stored /\ Goto(c, "write_copied"))
          /\ UNCHANGED <<lock, store, vms, upstream>>
       \/ got[c] \notin Stored /\ GiveUp(c)
       \/ Fail(c)

Configure(c, reference) ==
    /\ config[vm[c]] = NoConfig
    /\ config' = [config EXCEPT ![vm[c]] = reference]
    /\ unlocked' = IF op[c] = "create" THEN unlocked \ {vm[c]} ELSE unlocked \cup {vm[c]}
    /\ UNCHANGED <<store, halfGone, upstream>>

\* write_new_config.  The ISO images of a Windows guest are appended afterwards.  A
\* file that can be neither written nor removed again stays, in part.
WriteConfig(c, label, reference) ==
    /\ At(c, label)
    /\ \/ /\ Configure(c, reference)
          /\ \/ Return(c)
             \/ op[c] = "create_config" /\ Goto(c, "append_iso") /\ UNCHANGED lock
          /\ UNCHANGED <<dataDir, undone>>
       \/ /\ "io_error" \in Faults
          /\ \E part \in {reference, NoContent} : Configure(c, part)
          /\ Return(c)
          /\ RemoveDir(vm[c])
          /\ undone' = undone \cup {vm[c]}
       \/ config[vm[c]] # NoConfig /\ GiveUp(c)
       \/ Fail(c)

WriteLinkedConfig(c) == WriteConfig(c, "write_linked", got[c])

WriteCopiedConfig(c) == WriteConfig(c, "write_copied", NoContent)

\* append_iso opens the configuration by its path: a delete-vm may have removed it.  When
\* it fails, the data directory goes before the configuration does.
AppendIso(c) ==
    /\ At(c, "append_iso")
    /\ \/ /\ config[vm[c]] # NoConfig
          /\ Return(c)
          /\ UNCHANGED vms
       \/ /\ config[vm[c]] = NoConfig \/ "io_error" \in Faults
          /\ Goto(c, "undo_config")
          /\ RemoveDir(vm[c])
          /\ undone' = undone \cup {vm[c]}
          /\ UNCHANGED <<lock, config, halfGone, unlocked>>
    /\ UNCHANGED <<store, upstream>>

\* Nobody looks whether the configuration could be removed, or whose it is by now.
UndoConfig(c) ==
    /\ At(c, "undo_config")
    /\ \/ /\ config' = [config EXCEPT ![vm[c]] = NoConfig]
          /\ unlocked' = unlocked \ {vm[c]}
       \/ "io_error" \in Faults /\ UNCHANGED <<config, unlocked>>
    /\ Return(c)
    /\ UNCHANGED <<store, dataDir, halfGone, undone, upstream>>

-----------------------------------------------------------------------------
(* cache prune --yes.                                                      *)

\* discover reads one configuration after the other; one that cannot be read
\* fails the command.
ReadConfig(c) ==
    /\ At(c, "scan")
    /\ \/ \E v \in todo[c] :
            /\ todo' = [todo EXCEPT ![c] = @ \ {v}]
            /\ refs' = [refs EXCEPT ![c] = @ \cup ({config[v]} \cap Contents)]
            /\ UNCHANGED <<pc, op, from, vm, got, victims, lock, store, vms, upstream>>
       \/ Fail(c)

\* Mutant: only the index decides what is needed.
PruneCandidates_ByIndex(c) ==
    /\ At(c, "scan")
    /\ todo[c] = {}
    /\ victims' = [victims EXCEPT ![c] = Stored \ Indexed]
    /\ pc' = [pc EXCEPT ![c] = "remove"]
    /\ UNCHANGED <<op, from, vm, got, todo, refs, lock, store, vms, upstream>>

\* cache_prune_candidates verifies every indexed object; without --yes, and
\* where there is nothing to remove, this is the end.
PruneCandidates(c) ==
    /\ At(c, "scan")
    /\ todo[c] = {}
    /\ \/ /\ \A o \in Indexed : objects[o] # "corrupt"
          /\ victims' = [victims EXCEPT ![c] = Stored \ refs[c]]
          /\ pc' = [pc EXCEPT ![c] = "remove"]
          /\ UNCHANGED <<op, from, vm, got, todo, refs, lock, store, vms, upstream>>
       \/ GiveUp(c)

\* Mutant: an object that cannot be removed is passed over.
RemoveObject_Skips(c) ==
    /\ At(c, "remove")
    /\ \/ \E o \in victims[c] \cap Stored :
            /\ objects' = [objects EXCEPT ![o] = "absent"]
            /\ UNCHANGED <<client, lock, index, vms, upstream>>
       \/ /\ Goto(c, "retain")
          /\ UNCHANGED <<lock, store, vms, upstream>>

RemoveObject(c) ==
    /\ At(c, "remove")
    /\ \/ \E o \in victims[c] \cap Stored :
            /\ objects' = [objects EXCEPT ![o] = "absent"]
            /\ UNCHANGED <<client, lock, index, vms, upstream>>
       \/ /\ victims[c] \cap Stored = {}
          /\ Goto(c, "retain")
          /\ UNCHANGED <<lock, store, vms, upstream>>
       \/ Fail(c)

\* The index entries of the removed objects go.
RetainIndex(c) ==
    /\ At(c, "retain")
    /\ \/ /\ index' = [u \in Urls |-> IF index[u] \in victims[c] THEN NoContent ELSE index[u]]
          /\ Return(c)
          /\ UNCHANGED <<objects, vms, upstream>>
       \/ Fail(c)

-----------------------------------------------------------------------------
(* delete-vm, which module VmLifecycle models under the VM's own lock.     *)

DeleteData(c) ==
    /\ At(c, "delete_data")
    /\ \/ /\ dataDir' = dataDir \ {vm[c]}
          /\ halfGone' = halfGone \cup {vm[c]}
          /\ Goto(c, "delete_config")
          /\ UNCHANGED <<lock, store, config, undone, unlocked, upstream>>
       \/ Fail(c)

DeleteConfig(c) ==
    /\ At(c, "delete_config")
    /\ \/ /\ config' = [config EXCEPT ![vm[c]] = NoConfig]
          /\ halfGone' = halfGone \ {vm[c]}
          /\ unlocked' = unlocked \ {vm[c]}
          /\ Return(c)
          /\ UNCHANGED <<store, dataDir, undone, upstream>>
       \/ Fail(c)

-----------------------------------------------------------------------------
(* The environment.                                                        *)

ClientCrash(c) ==
    /\ "client_crash" \in Faults
    /\ ~At(c, "idle")
    /\ Return(c)
    /\ UNCHANGED <<store, vms, upstream>>

Corrupt(o) ==
    /\ "corrupt" \in Faults
    /\ objects[o] = "good"
    /\ objects' = [objects EXCEPT ![o] = "corrupt"]
    /\ UNCHANGED <<client, lock, index, vms, upstream>>

\* The server replaces an image.
Republish(u) ==
    /\ \E o \in Contents : upstream' = [upstream EXCEPT ![u] = o]
    /\ UNCHANGED <<client, lock, store, vms>>

-----------------------------------------------------------------------------

ClientStep(c) ==
    \/ Begin(c) \/ AcquireCacheLock(c) \/ CacheLockBusy(c)
    \/ LookUp(c) \/ Download(c) \/ Publish(c) \/ WriteIndex(c)
    \/ MakeDir(c) \/ SelectSource(c) \/ Provision(c)
    \/ WriteLinkedConfig(c) \/ WriteCopiedConfig(c) \/ AppendIso(c) \/ UndoConfig(c)
    \/ ReadConfig(c) \/ PruneCandidates(c) \/ RemoveObject(c) \/ RetainIndex(c)
    \/ DeleteData(c) \/ DeleteConfig(c) \/ ClientCrash(c)

Next ==
    \/ \E c \in Clients : ClientStep(c)
    \/ \E o \in Contents : Corrupt(o)
    \/ \E u \in Urls : Republish(u)

Spec == Init /\ [][Next]_vars

-----------------------------------------------------------------------------
(* Properties.                                                             *)

\* The labels between acquire_cache_lock and the end of the command, or of
\* cache_request.
LockedLabels ==
    {"lookup", "download", "publish", "write_index", "select", "scan", "remove", "retain"}

CreateLabels == {"make_dir", "provision", "write_linked", "write_copied"}

Labels ==
    LockedLabels \cup CreateLabels \cup
    {"idle", "lock", "append_iso", "undo_config", "delete_data", "delete_config"}

TypeOK ==
    /\ pc \in [Clients -> Labels]
    /\ op \in [Clients -> Ops \cup {"none"}]
    /\ from \in [Clients -> Urls \cup {NoUrl}]
    /\ vm \in [Clients -> Vms \cup {NoVm}]
    /\ got \in [Clients -> Contents \cup {NoContent}]
    /\ todo \in [Clients -> SUBSET Vms]
    /\ refs \in [Clients -> SUBSET Contents]
    /\ victims \in [Clients -> SUBSET Contents]
    /\ lock \in Clients \cup {NoClient}
    /\ objects \in [Contents -> {"absent", "good", "corrupt"}]
    /\ index \in [Urls -> Contents \cup {NoContent}]
    /\ config \in [Vms -> Contents \cup {NoContent, NoConfig}]
    /\ dataDir \subseteq Vms
    /\ halfGone \subseteq Vms
    /\ undone \subseteq Vms
    /\ unlocked \subseteq Vms
    /\ upstream \in [Urls -> Contents]

Resolves(v) == config[v] \in Contents => config[v] \in Stored

\* The object that a configuration refers to, as installer ISO or as backing file
\* of its disk, is in the store: no prune takes it away.
ReferencesResolve == \A v \in Vms : Resolves(v)

\* So it is for every configuration that was written under the cache lock, whatever
\* commands run beside.
LockedReferencesResolve == \A v \in Vms \ unlocked : Resolves(v)

\* An object that a client has published but not yet put into the index, or has
\* chosen for a VM that has no configuration yet, is not pruned in the meantime; what
\* get --create-config has chosen may be (ReferencesResolve).
ObjectsInUseAreKept ==
    \A c \in Clients :
        \/ At(c, "write_index")
        \/ op[c] = "create" /\ pc[c] \in CreateLabels
        => got[c] \in Stored

\* When prune comes to rewrite the index, the store holds nothing but what the
\* configurations it read refer to: nobody has added to it since the scan.
PruneLeavesOnlyReferenced ==
    \A c \in Clients : At(c, "retain") => Stored \subseteq refs[c]

\* Every configured VM has its data directory, unless delete-vm has removed it, or a
\* get --create-config has failed on that name once it had written, or half written, its
\* configuration: that one undoes by path what may be another's by now, and its data first.
\* No create that fails before takes away what another one has made.
ConfiguredVmsHaveData ==
    \A v \in Vms \ undone : config[v] # NoConfig => v \in dataDir \cup halfGone

\* A refresh that has downloaded and verified an image puts a good copy of it in the
\* store, whatever has become of the copy that is there.
RefreshReplaces ==
    [][\A c \in Clients :
         At(c, "publish") /\ op[c] = "refresh" /\ pc'[c] # "publish" =>
            objects'[got[c]] = "good"]_vars

=============================================================================
