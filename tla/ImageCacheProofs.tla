--------------------------- MODULE ImageCacheProofs ---------------------------
(***************************************************************************)
(* No prune takes away an object that a VM needs, for any number of        *)
(* clients, images and VMs, unless `get --create-config` has configured    *)
(* that VM.  The argument: whoever adds an object, or makes any other      *)
(* configuration that refers to one, holds the cache lock from its check   *)
(* to its last write, so that what prune has read stays true until it is   *)
(* done; the other commands only take references away.  And a VM that is   *)
(* configured has its data directory, which is made before, and removed    *)
(* before that only by the command that has made it, or else by delete-vm, *)
(* or where a create that had written its configuration was undone.        *)
(***************************************************************************)
EXTENDS ImageCache, TLAPS

PruneLabels == {"scan", "remove", "retain"}

CacheLabels == LockedLabels \cup CreateLabels

\* get --create-config makes a VM without the lock.
Unlocked(c) == op[c] = "create_config" /\ pc[c] \in CreateLabels

\* Control: the labels of each command, the lock that goes with them, and the
\* arguments of the command.
CommandInv(c) ==
    /\ pc[c] # "idle" => op[c] \in Ops
    /\ op[c] = "create" => pc[c] \in {"lock", "select"} \cup CreateLabels
    /\ pc[c] = "select" => op[c] = "create"
    /\ pc[c] \in CreateLabels => op[c] \in {"create", "create_config"}
    /\ pc[c] = "lock" => op[c] # "delete"
    /\ pc[c] \in {"append_iso", "undo_config"} => op[c] = "create_config"
    /\ op[c] \in Downloads => from[c] \in Urls
    /\ pc[c] \in CreateLabels \cup {"delete_data", "delete_config"} => vm[c] \in Vms
    /\ op[c] \in {"create", "create_config"} => vm[c] \in Vms
    /\ op[c] = "create" \/ pc[c] \in CreateLabels \ {"make_dir"} => got[c] \in Contents
    /\ pc[c] \in {"lookup", "download", "publish", "write_index"} => op[c] \in Downloads
    /\ pc[c] \in {"publish", "write_index"} => got[c] \in Contents
    /\ pc[c] \in CacheLabels /\ ~Unlocked(c) => lock = c

\* The object a client works with is in the store.
ObjectInv(c) ==
    pc[c] \in {"write_index"} \cup CreateLabels /\ ~Unlocked(c) => got[c] \in Stored

\* What prune has read of the configurations, and made of it, still holds.
PruneInv(c) ==
    /\ pc[c] = "scan" =>
         \A v \in Vms \ (todo[c] \cup unlocked) : config[v] \in Contents => config[v] \in refs[c]
    /\ pc[c] \in {"remove", "retain"} =>
         /\ \A v \in Vms \ unlocked : config[v] \notin victims[c]
         /\ Stored \subseteq refs[c] \cup victims[c]
    /\ pc[c] = "retain" => victims[c] \cap Stored = {}

ClientInv(c) == CommandInv(c) /\ ObjectInv(c) /\ PruneInv(c)

CacheInv ==
    /\ TypeOK
    /\ \A c \in Clients : ClientInv(c)
    /\ LockedReferencesResolve

-----------------------------------------------------------------------------

Unmoved(d) ==
    /\ pc'[d] = pc[d] /\ op'[d] = op[d] /\ from'[d] = from[d] /\ vm'[d] = vm[d]
    /\ got'[d] = got[d] /\ todo'[d] = todo[d] /\ refs'[d] = refs[d]
    /\ victims'[d] = victims[d]

\* A step of one client moves no other, and takes the lock from nobody.
LEMMA OthersUnmoved ==
    ASSUME CacheAssumption, TypeOK, NEW c \in Clients, ClientStep(c), NEW d \in Clients, d # c
    PROVE  Unmoved(d) /\ (lock = d => lock' = d)
<1> USE DEF TypeOK, Unmoved
<1>0. lock = d => lock # NoClient
  BY DEF CacheAssumption
<1>1. CASE Return(c)
  BY <1>1 DEF Return, Unlock
<1>2. ASSUME NEW label, Goto(c, label), UNCHANGED lock
      PROVE  Unmoved(d) /\ (lock = d => lock' = d)
  BY <1>2 DEF Goto
<1>3. CASE Begin(c)
  BY <1>3 DEF Begin
<1>4. CASE AcquireCacheLock(c) \/ CacheLockBusy(c)
  BY <1>0, <1>1, <1>4 DEF AcquireCacheLock, CacheLockBusy, GiveUp
<1>5. ASSUME NEW x, Cached(c, x)
      PROVE  Unmoved(d) /\ (lock = d => lock' = d)
  BY <1>1, <1>5 DEF Cached, Unlock
<1>6. CASE LookUp(c)
  BY <1>1, <1>2, <1>5, <1>6 DEF LookUp, GiveUp
<1>7. CASE Download(c) \/ Publish(c) \/ WriteIndex(c)
  BY <1>1, <1>2, <1>5, <1>7 DEF Download, Publish, WriteIndex, Fail, GiveUp
<1>8. CASE MakeDir(c) \/ SelectSource(c) \/ Provision(c)
  BY <1>1, <1>2, <1>8 DEF MakeDir, SelectSource, Provision, Fail, GiveUp
<1>9. CASE WriteLinkedConfig(c) \/ WriteCopiedConfig(c) \/ AppendIso(c) \/ UndoConfig(c)
  BY <1>1, <1>2, <1>9 DEF WriteLinkedConfig, WriteCopiedConfig, WriteConfig, AppendIso,
     UndoConfig, Fail, GiveUp
<1>10. CASE ReadConfig(c) \/ PruneCandidates(c)
  BY <1>1, <1>10 DEF ReadConfig, PruneCandidates, Fail, GiveUp
<1>11. CASE RemoveObject(c) \/ RetainIndex(c)
  BY <1>1, <1>2, <1>11 DEF RemoveObject, RetainIndex, Fail, GiveUp, client
<1>12. CASE DeleteData(c) \/ DeleteConfig(c) \/ ClientCrash(c)
  BY <1>1, <1>2, <1>12 DEF DeleteData, DeleteConfig, ClientCrash, Fail, GiveUp
<1> QED
  BY <1>3, <1>4, <1>6, <1>7, <1>8, <1>9, <1>10, <1>11, <1>12 DEF ClientStep

\* A configuration that no prune has to mind does not become one that it has to.
NoNewReference(v) ==
    \/ v \in unlocked'
    \/ config'[v] = config[v] /\ v \notin unlocked
    \/ config'[v] \in {NoContent, NoConfig}

\* A client that does not move keeps its invariant while the store keeps its objects
\* and no configuration gains a reference.
LEMMA BystanderKeeps ==
    ASSUME CacheAssumption, CacheInv, NEW d \in Clients, Unmoved(d), lock = d => lock' = d,
           Stored' = Stored,
           \A v \in Vms : NoNewReference(v)
    PROVE  ClientInv(d)'
<1>1. NoContent \notin Contents /\ NoConfig \notin Contents
  BY DEF CacheAssumption
<1>2. victims[d] \subseteq Contents
  BY DEF CacheInv, TypeOK
<1>3. CommandInv(d)'
  BY DEF CacheInv, ClientInv, CommandInv, Unmoved, Unlocked
<1>4. ObjectInv(d)'
  BY DEF CacheInv, ClientInv, ObjectInv, Unmoved, Unlocked
<1>5. PruneInv(d)'
  BY <1>1, <1>2 DEF CacheInv, ClientInv, PruneInv, Unmoved, NoNewReference
<1> QED BY <1>3, <1>4, <1>5 DEF ClientInv

\* While a client holds the lock, nobody else is where the store matters to him.
LEMMA OutsiderKeeps ==
    ASSUME CacheInv, NEW c \in Clients, NEW d \in Clients, c # d, lock = c, Unmoved(d)
    PROVE  ClientInv(d)'
<1>1. pc[d] \notin CacheLabels \/ Unlocked(d)
  BY DEF CacheInv, ClientInv, CommandInv
<1> QED BY <1>1 DEF CacheInv, ClientInv, CommandInv, ObjectInv, PruneInv, Unmoved, Unlocked,
           CacheLabels, LockedLabels, CreateLabels

\* A step of one client that changes neither store nor references needs a look at that
\* client only.
LEMMA QuietStep ==
    ASSUME CacheAssumption, CacheInv, NEW c \in Clients, ClientStep(c),
           TypeOK', ClientInv(c)',
           Stored' = Stored,
           \A v \in Vms : NoNewReference(v)
    PROVE  CacheInv'
<1>1. \A d \in Clients : d # c => Unmoved(d) /\ (lock = d => lock' = d)
  BY OthersUnmoved DEF CacheInv
<1>2. \A d \in Clients : ClientInv(d)'
  BY <1>1, BystanderKeeps
<1>3. LockedReferencesResolve'
  BY DEF CacheInv, LockedReferencesResolve, Resolves, NoNewReference, CacheAssumption
<1> QED BY <1>2, <1>3 DEF CacheInv

\* Neither does one of the client that holds the lock, but for the references.
LEMMA LockedStep ==
    ASSUME CacheAssumption, CacheInv, NEW c \in Clients, ClientStep(c), lock = c,
           TypeOK', ClientInv(c)', LockedReferencesResolve'
    PROVE  CacheInv'
<1>1. \A d \in Clients : d # c => Unmoved(d)
  BY OthersUnmoved DEF CacheInv
<1>2. \A d \in Clients : ClientInv(d)'
  BY <1>1, OutsiderKeeps
<1> QED BY <1>2 DEF CacheInv

\* A command that ends adds no object and no reference.
LEMMA EndKeeps ==
    ASSUME CacheAssumption, CacheInv, NEW c \in Clients, ClientStep(c), Return(c),
           UNCHANGED <<objects, upstream>>,
           index' \in [Urls -> Contents \cup {NoContent}],
           config' \in [Vms -> Contents \cup {NoContent, NoConfig}],
           dataDir' \subseteq Vms, halfGone' \subseteq Vms, undone' \subseteq Vms,
           unlocked' \subseteq Vms,
           \A v \in Vms : NoNewReference(v)
    PROVE  CacheInv'
<1>1. TypeOK'
  BY DEF CacheInv, TypeOK, Return, Unlock, Labels
<1>2. pc'[c] = "idle" /\ op'[c] = "none"
  BY DEF CacheInv, TypeOK, Return
<1>3. ClientInv(c)'
  BY <1>2 DEF ClientInv, CommandInv, ObjectInv, PruneInv, Unlocked, CacheLabels, LockedLabels,
     CreateLabels, Downloads
<1>4. Stored' = Stored
  BY DEF Stored
<1> QED BY <1>1, <1>3, <1>4, QuietStep

\* Most leave the configurations as they are.
LEMMA PlainEndKeeps ==
    ASSUME CacheAssumption, CacheInv, NEW c \in Clients, ClientStep(c), Return(c),
           UNCHANGED <<objects, config, halfGone, undone, unlocked, upstream>>,
           index' \in [Urls -> Contents \cup {NoContent}],
           dataDir' \subseteq Vms
    PROVE  CacheInv'
<1>1. \A v \in Vms : NoNewReference(v)
  BY DEF NoNewReference
<1> QED BY <1>1, EndKeeps DEF CacheInv, TypeOK

\* So does a command that gives up and removes the data directory it made.
LEMMA GiveUpKeeps ==
    ASSUME CacheAssumption, CacheInv, NEW c \in Clients, ClientStep(c), GiveUp(c)
    PROVE  CacheInv'
  BY PlainEndKeeps DEF GiveUp, RemoveDir, store, CacheInv, TypeOK

-----------------------------------------------------------------------------
(* The commands, action by action.                                         *)

\* A command that begins, or takes the lock or finds it taken, keeps CacheInv.
LEMMA BeginKeeps ==
    ASSUME CacheAssumption, CacheInv, NEW c \in Clients, ClientStep(c),
           Begin(c) \/ AcquireCacheLock(c) \/ CacheLockBusy(c)
    PROVE  CacheInv'
<1> USE DEF CacheAssumption, CommandInv, ObjectInv, PruneInv, Unlocked, CacheLabels, LockedLabels, CreateLabels
<1>1. CASE Begin(c)
  <2>1. TypeOK'
    BY <1>1 DEF CacheInv, TypeOK, Begin, store, vms, Labels, Downloads
  <2>2. ClientInv(c)'
    BY <1>1 DEF CacheInv, TypeOK, Begin, ClientInv, store, vms, Downloads
  <2> QED BY <1>1, <2>1, <2>2, QuietStep DEF Begin, store, vms, Stored, NoNewReference
<1>2. CASE AcquireCacheLock(c)
  <2>1. op[c] \in {"get", "refresh", "create", "create_config", "prune"}
    BY <1>2 DEF AcquireCacheLock, At, CacheInv, ClientInv, AllOps
  <2>2. pc' = [pc EXCEPT ![c] = FirstStep[op[c]]] /\ FirstStep[op[c]] \in
          (IF op[c] \in Downloads THEN {"lookup"} ELSE
           IF op[c] = "create" THEN {"select"} ELSE {"scan"})
    BY <1>2, <2>1 DEF AcquireCacheLock, FirstStep, Downloads
  <2>3. TypeOK'
    BY <1>2, <2>2 DEF CacheInv, TypeOK, AcquireCacheLock, store, vms, Labels, Downloads
  <2>4. ClientInv(c)'
    BY <1>2, <2>1, <2>2 DEF CacheInv, TypeOK, AcquireCacheLock, ClientInv, At, store, vms, Downloads
  <2> QED BY <1>2, <2>3, <2>4, QuietStep DEF AcquireCacheLock, store, vms, Stored, NoNewReference
<1> QED BY <1>1, <1>2, GiveUpKeeps DEF CacheLockBusy

\* So does a cache_request that returns an object, to create_config without the lock.
LEMMA CachedKeeps ==
    ASSUME CacheAssumption, CacheInv, NEW c \in Clients, ClientStep(c), pc[c] # "idle",
           NEW x \in Contents, Cached(c, x), UNCHANGED <<objects, vms, upstream>>,
           index' \in [Urls -> Contents \cup {NoContent}]
    PROVE  CacheInv'
<1>1. CASE Return(c)
  BY <1>1, PlainEndKeeps DEF vms, CacheInv, TypeOK
<1>2. CASE ~Return(c)
  <2>1. /\ op[c] = "create_config"
        /\ pc' = [pc EXCEPT ![c] = "provision"]
        /\ got' = [got EXCEPT ![c] = x]
        /\ Unlock(c)
        /\ UNCHANGED <<op, from, vm, todo, refs, victims>>
    BY <1>2 DEF Cached
  <2>2. TypeOK'
    BY <2>1 DEF CacheInv, TypeOK, Unlock, vms, Labels, CreateLabels
  <2>3. ClientInv(c)'
    BY <2>1 DEF CacheInv, TypeOK, ClientInv, CommandInv, ObjectInv, PruneInv, Unlocked,
       CacheLabels, LockedLabels, CreateLabels, Downloads
  <2> QED BY <2>2, <2>3, QuietStep DEF vms, Stored, NoNewReference
<1> QED BY <1>1, <1>2

\* Every step of cache_request keeps CacheInv.
LEMMA RequestKeeps ==
    ASSUME CacheAssumption, CacheInv, NEW c \in Clients, ClientStep(c),
           LookUp(c) \/ Download(c) \/ Publish(c) \/ WriteIndex(c)
    PROVE  CacheInv'
<1> USE DEF CacheAssumption
<1> SUFFICES ASSUME ~GiveUp(c)
             PROVE  CacheInv'
  BY GiveUpKeeps
<1>1. op[c] \in Downloads /\ from[c] \in Urls /\ lock = c
  BY DEF LookUp, Download, Publish, WriteIndex, At, CacheInv, ClientInv, CommandInv, CacheLabels,
         LockedLabels, CreateLabels, Unlocked
<1>2. CASE LookUp(c)
  <2>1. CASE Entry(c) # NoContent
    <3>1. Entry(c) \in Contents
      BY <2>1 DEF Entry, Stored
    <3> QED BY <1>2, <2>1, <3>1, CachedKeeps DEF LookUp, At, store, CacheInv, TypeOK
  <2>2. CASE Entry(c) = NoContent
    <3>1. Goto(c, "download") /\ UNCHANGED <<lock, store, vms, upstream>>
      BY <1>2, <2>2 DEF LookUp
    <3>2. TypeOK'
      BY <3>1 DEF CacheInv, TypeOK, Goto, store, vms, Labels, LockedLabels
    <3>3. ClientInv(c)'
      BY <1>1, <3>1 DEF CacheInv, TypeOK, Goto, ClientInv, CommandInv, ObjectInv, PruneInv, Unlocked,
         CacheLabels, LockedLabels, CreateLabels, Downloads
    <3> QED BY <3>1, <3>2, <3>3, QuietStep DEF store, vms, Stored, NoNewReference
  <2> QED BY <2>1, <2>2
<1>3. CASE Download(c)
  <2>1. /\ pc' = [pc EXCEPT ![c] = "publish"]
        /\ got' = [got EXCEPT ![c] = upstream[from[c]]]
        /\ UNCHANGED <<op, from, vm, todo, refs, victims, lock, store, vms, upstream>>
    BY <1>3 DEF Download, Fail
  <2>2. upstream[from[c]] \in Contents
    BY <1>1 DEF CacheInv, TypeOK
  <2>3. TypeOK'
    BY <2>1, <2>2 DEF CacheInv, TypeOK, store, vms, Labels, LockedLabels
  <2>4. ClientInv(c)'
    BY <1>1, <2>1, <2>2 DEF CacheInv, TypeOK, ClientInv, CommandInv, ObjectInv, PruneInv, Unlocked,
       CacheLabels, LockedLabels, CreateLabels, Downloads
  <2> QED BY <2>1, <2>3, <2>4, QuietStep DEF store, vms, Stored, NoNewReference
<1>4. CASE Publish(c)
  <2>1. /\ objects' = [objects EXCEPT ![got[c]] = "good"]
        /\ Goto(c, "write_index")
        /\ UNCHANGED <<lock, index, vms, upstream>>
        /\ got[c] \in Contents
    BY <1>4 DEF Publish, Fail, At, CacheInv, ClientInv, CommandInv
  <2>2. TypeOK'
    BY <2>1 DEF CacheInv, TypeOK, Goto, vms, Labels, LockedLabels
  <2>3. got[c] \in Stored' /\ Stored \subseteq Stored'
    BY <2>1 DEF CacheInv, TypeOK, Stored
  <2>4. ClientInv(c)'
    BY <1>1, <2>1, <2>3 DEF CacheInv, TypeOK, Goto, ClientInv, CommandInv, ObjectInv, PruneInv, Unlocked,
       CacheLabels, LockedLabels, CreateLabels, Downloads
  <2>5. LockedReferencesResolve'
    BY <2>1, <2>3 DEF CacheInv, LockedReferencesResolve, Resolves, vms
  <2> QED BY <1>1, <2>2, <2>4, <2>5, LockedStep
<1>5. CASE WriteIndex(c)
  <2>1. index' = [index EXCEPT ![from[c]] = got[c]] /\ Cached(c, got[c]) /\ pc[c] # "idle"
        /\ UNCHANGED <<objects, vms, upstream>>
    BY <1>5 DEF WriteIndex, Fail, At
  <2>2. got[c] \in Contents
    BY <1>5 DEF WriteIndex, At, CacheInv, ClientInv, CommandInv
  <2> QED BY <2>1, <2>2, CachedKeeps DEF CacheInv, TypeOK
<1> QED BY <1>2, <1>3, <1>4, <1>5

\* create_custom_config is out of everybody's way once it has written its configuration.
LEMMA CreateConfigControl ==
    ASSUME CacheInv, NEW c \in Clients, op[c] = "create_config", NEW label, Goto(c, label),
           label \in {"append_iso", "undo_config"}
    PROVE  ClientInv(c)'
<1>1. pc'[c] = label /\ op'[c] = op[c] /\ vm'[c] = vm[c] /\ from'[c] = from[c]
  BY DEF CacheInv, TypeOK, Goto
<1>2. vm[c] \in Vms /\ from[c] \in Urls /\ op[c] \in Ops
  <2>1. CommandInv(c) /\ op[c] \in Ops \cup {"none"}
    BY DEF CacheInv, ClientInv, TypeOK
  <2> QED BY <2>1 DEF CommandInv, Downloads
<1>3. CommandInv(c)'
  BY <1>1, <1>2 DEF CommandInv, Unlocked, CacheLabels, LockedLabels, CreateLabels, Downloads
<1>4. ObjectInv(c)' /\ PruneInv(c)'
  BY <1>1 DEF ObjectInv, PruneInv, CreateLabels
<1> QED BY <1>3, <1>4 DEF ClientInv

\* So does every step of create_custom_config, create_cached_vm and create_cached_cloud_vm.
LEMMA CreateKeeps ==
    ASSUME CacheAssumption, CacheInv, NEW c \in Clients, ClientStep(c),
           \/ SelectSource(c) \/ MakeDir(c) \/ Provision(c)
           \/ WriteLinkedConfig(c) \/ WriteCopiedConfig(c)
    PROVE  CacheInv'
<1> USE DEF CacheAssumption
<1> SUFFICES ASSUME ~GiveUp(c)
             PROVE  CacheInv'
  BY GiveUpKeeps
<1>1. op[c] \in {"create", "create_config"} /\ vm[c] \in Vms /\ (op[c] = "create" => lock = c)
  BY DEF SelectSource, MakeDir, Provision, WriteLinkedConfig, WriteCopiedConfig, WriteConfig, At,
         CacheInv, ClientInv, CommandInv, CacheLabels, LockedLabels, CreateLabels, Unlocked
<1>2. CASE SelectSource(c) \/ MakeDir(c) \/ Provision(c)
  <2>1. PICK label \in CreateLabels \cup {"lock"} :
          /\ Goto(c, label)
          /\ UNCHANGED <<lock, store, config, halfGone, undone, unlocked, upstream>>
          /\ label = "lock" => op[c] = "create_config"
          /\ label \in CreateLabels \ {"make_dir"} => got[c] \in Contents
    BY <1>1, <1>2 DEF SelectSource, MakeDir, Provision, Fail, At, vms, CreateLabels, CacheInv,
       ClientInv, CommandInv
  <2>2. dataDir' \subseteq Vms
    BY <1>1, <1>2 DEF SelectSource, MakeDir, Provision, Fail, vms, CacheInv, TypeOK
  <2>3. TypeOK'
    BY <2>1, <2>2 DEF CacheInv, TypeOK, Goto, store, Labels
  <2>4. op[c] = "create" => got[c] \in Stored /\ got[c] \in Contents
    BY <1>1, <1>2 DEF SelectSource, MakeDir, Provision, Fail, At, CacheInv, ClientInv, CommandInv, ObjectInv,
       CreateLabels, Unlocked, Stored
  <2>5. ClientInv(c)'
    BY <1>1, <2>1, <2>4 DEF CacheInv, TypeOK, Goto, ClientInv, CommandInv, ObjectInv, PruneInv, Unlocked,
       CacheLabels, LockedLabels, CreateLabels, Stored, store, Downloads
  <2> QED BY <2>1, <2>3, <2>5, QuietStep DEF store, Stored, NoNewReference
<1>3. CASE WriteLinkedConfig(c) \/ WriteCopiedConfig(c)
  <2>1. PICK r \in {got[c], NoContent} :
          /\ config' = [config EXCEPT ![vm[c]] = r]
          /\ unlocked' = IF op[c] = "create" THEN unlocked \ {vm[c]} ELSE unlocked \cup {vm[c]}
          /\ UNCHANGED <<store, halfGone, upstream>>
    BY <1>3 DEF WriteLinkedConfig, WriteCopiedConfig, WriteConfig, Configure, Fail
  <2>2. \/ Return(c)
        \/ op[c] = "create_config" /\ Goto(c, "append_iso") /\ UNCHANGED lock
    BY <1>3 DEF WriteLinkedConfig, WriteCopiedConfig, WriteConfig, Fail
  <2>3. dataDir' \subseteq Vms /\ undone' \subseteq Vms
    BY <1>1, <1>3 DEF WriteLinkedConfig, WriteCopiedConfig, WriteConfig, RemoveDir, Fail,
       CacheInv, TypeOK
  <2>4. got[c] \in Contents /\ (op[c] = "create" => got[c] \in Stored)
    BY <1>3 DEF WriteLinkedConfig, WriteCopiedConfig, WriteConfig, At, CacheInv, ClientInv,
       CommandInv, ObjectInv, CreateLabels, Unlocked
  <2>5. /\ config' \in [Vms -> Contents \cup {NoContent, NoConfig}]
        /\ unlocked' \subseteq Vms
    BY <1>1, <2>1, <2>4 DEF CacheInv, TypeOK
  <2>6. TypeOK'
    <3>1. CASE Return(c)
      BY <2>1, <2>3, <2>5, <3>1 DEF CacheInv, TypeOK, Return, Unlock, store, Labels
    <3>2. CASE Goto(c, "append_iso") /\ UNCHANGED lock
      BY <2>1, <2>3, <2>5, <3>2 DEF CacheInv, TypeOK, Goto, store, Labels
    <3> QED BY <2>2, <3>1, <3>2
  <2>7. \/ pc'[c] = "idle" /\ op'[c] = "none"
        \/ pc'[c] = "append_iso" /\ Goto(c, "append_iso") /\ op[c] = "create_config"
    BY <2>2 DEF CacheInv, TypeOK, Return, Goto
  <2>8. ClientInv(c)'
    BY <1>1, <2>7, CreateConfigControl DEF ClientInv, CommandInv, ObjectInv, PruneInv, Unlocked,
       CacheLabels, LockedLabels, CreateLabels, Downloads
  <2>9. CASE op[c] = "create"
    <3>1. LockedReferencesResolve'
      BY <1>1, <2>1, <2>4, <2>9 DEF CacheInv, TypeOK, LockedReferencesResolve, Resolves, Stored,
         store
    <3> QED BY <1>1, <2>6, <2>8, <2>9, <3>1, LockedStep
  <2>10. CASE op[c] # "create"
    <3>1. \A v \in Vms : NoNewReference(v)
      BY <1>1, <2>1, <2>10 DEF CacheInv, TypeOK, NoNewReference
    <3> QED BY <2>1, <2>6, <2>8, <3>1, QuietStep DEF store, Stored
  <2> QED BY <2>9, <2>10
<1> QED BY <1>2, <1>3

\* So does the rest of create_custom_config for a Windows image, which takes a
\* configuration away if anything.
LEMMA AppendKeeps ==
    ASSUME CacheAssumption, CacheInv, NEW c \in Clients, ClientStep(c),
           AppendIso(c) \/ UndoConfig(c)
    PROVE  CacheInv'
<1> USE DEF CacheAssumption
<1>1. op[c] = "create_config" /\ vm[c] \in Vms
  BY DEF AppendIso, UndoConfig, At, CacheInv, ClientInv, CommandInv
<1>2. CASE AppendIso(c) /\ Return(c) /\ UNCHANGED vms
  BY <1>2, PlainEndKeeps DEF AppendIso, vms, store, CacheInv, TypeOK
<1>3. CASE /\ Goto(c, "undo_config") /\ RemoveDir(vm[c])
           /\ undone' = undone \cup {vm[c]}
           /\ UNCHANGED <<lock, config, halfGone, unlocked, store, upstream>>
  <2>1. TypeOK'
    BY <1>1, <1>3 DEF CacheInv, TypeOK, Goto, RemoveDir, store, Labels
  <2>2. pc'[c] = "undo_config"
    BY <1>3 DEF Goto, CacheInv, TypeOK
  <2>3. ClientInv(c)'
    BY <1>1, <1>3, <2>2, CreateConfigControl
  <2> QED BY <1>3, <2>1, <2>3, QuietStep DEF store, Stored, NoNewReference
<1>4. CASE UndoConfig(c)
  <2>1. /\ config' \in [Vms -> Contents \cup {NoContent, NoConfig}]
        /\ unlocked' \subseteq Vms
        /\ \A v \in Vms : NoNewReference(v)
    BY <1>1, <1>4 DEF UndoConfig, CacheInv, TypeOK, NoNewReference
  <2> QED BY <1>4, <2>1, EndKeeps DEF UndoConfig, store, CacheInv, TypeOK
<1> QED BY <1>2, <1>3, <1>4 DEF AppendIso

\* So does every step of prune_cache.
LEMMA PruneKeeps ==
    ASSUME CacheAssumption, CacheInv, NEW c \in Clients, ClientStep(c),
           ReadConfig(c) \/ PruneCandidates(c) \/ RemoveObject(c) \/ RetainIndex(c)
    PROVE  CacheInv'
<1> USE DEF CacheAssumption
<1> SUFFICES ASSUME ~GiveUp(c)
             PROVE  CacheInv'
  BY GiveUpKeeps
<1>1. lock = c /\ pc[c] \in PruneLabels
  BY DEF ReadConfig, PruneCandidates, RemoveObject, RetainIndex, At, CacheInv, ClientInv, CommandInv,
         CacheLabels, LockedLabels, CreateLabels, PruneLabels, Unlocked
<1>2. CASE ReadConfig(c)
  <2>1. PICK v \in todo[c] :
          /\ todo' = [todo EXCEPT ![c] = @ \ {v}]
          /\ refs' = [refs EXCEPT ![c] = @ \cup ({config[v]} \cap Contents)]
          /\ UNCHANGED <<pc, op, from, vm, got, victims, lock, store, vms, upstream>>
    BY <1>2 DEF ReadConfig, Fail
  <2>2. TypeOK'
    BY <2>1 DEF CacheInv, TypeOK, store, vms
  <2>3. ClientInv(c)'
    BY <1>1, <1>2, <2>1 DEF ReadConfig, At, CacheInv, TypeOK, ClientInv, CommandInv, ObjectInv,
       PruneInv, store, vms, CreateLabels
  <2> QED BY <2>1, <2>2, <2>3, QuietStep DEF store, vms, Stored, NoNewReference
<1>3. CASE PruneCandidates(c)
  <2>1. /\ pc[c] = "scan" /\ todo[c] = {}
        /\ victims' = [victims EXCEPT ![c] = Stored \ refs[c]]
        /\ pc' = [pc EXCEPT ![c] = "remove"]
        /\ UNCHANGED <<op, from, vm, got, todo, refs, lock, store, vms, upstream>>
    BY <1>3 DEF PruneCandidates, At
  <2>2. TypeOK'
    BY <2>1 DEF CacheInv, TypeOK, store, vms, Stored, Labels, LockedLabels
  <2>3. \A v \in Vms \ unlocked : config[v] \notin Stored \ refs[c]
    BY <2>1 DEF CacheInv, ClientInv, PruneInv, Stored
  <2>4. ClientInv(c)'
    BY <1>1, <2>1, <2>3 DEF CacheInv, TypeOK, ClientInv, CommandInv, ObjectInv,
       PruneInv, store, vms, CreateLabels, CacheLabels, LockedLabels, Stored
  <2> QED BY <2>1, <2>2, <2>4, QuietStep DEF store, vms, Stored, NoNewReference
<1>4. CASE RemoveObject(c)
  <2>1. CASE \E o \in victims[c] \cap Stored :
               /\ objects' = [objects EXCEPT ![o] = "absent"]
               /\ UNCHANGED <<client, lock, index, vms, upstream>>
    <3>1. PICK o \in victims[c] \cap Stored :
               /\ objects' = [objects EXCEPT ![o] = "absent"]
               /\ UNCHANGED <<client, lock, index, vms, upstream>>
      BY <2>1
    <3>2. TypeOK' /\ Stored' = Stored \ {o}
      BY <3>1 DEF CacheInv, TypeOK, client, vms, Stored
    <3>3. LockedReferencesResolve'
      BY <1>4, <3>1, <3>2 DEF RemoveObject, At, CacheInv, ClientInv, PruneInv, LockedReferencesResolve, Resolves, vms
    <3>4. ClientInv(c)'
      BY <1>1, <1>4, <3>1, <3>2 DEF RemoveObject, At, CacheInv, ClientInv, CommandInv, ObjectInv,
         PruneInv, client, vms, CreateLabels, PruneLabels
    <3> QED BY <1>1, <3>2, <3>3, <3>4, LockedStep
  <2>2. CASE victims[c] \cap Stored = {} /\ Goto(c, "retain") /\ UNCHANGED <<lock, store, vms, upstream>>
    <3>1. TypeOK'
      BY <2>2 DEF CacheInv, TypeOK, Goto, store, vms, Labels, LockedLabels
    <3>2. ClientInv(c)'
      BY <1>1, <1>4, <2>2 DEF RemoveObject, At, CacheInv, TypeOK, Goto, ClientInv, CommandInv,
         ObjectInv, PruneInv, Unlocked, store, vms, CacheLabels, LockedLabels, CreateLabels, Stored
    <3> QED BY <2>2, <3>1, <3>2, QuietStep DEF store, vms, Stored, NoNewReference
  <2> QED BY <1>4, <2>1, <2>2 DEF RemoveObject, Fail
<1>5. CASE RetainIndex(c)
  <2>1. Return(c) /\ UNCHANGED <<objects, vms, upstream>>
        /\ index' = [u \in Urls |-> IF index[u] \in victims[c] THEN NoContent ELSE index[u]]
    BY <1>5 DEF RetainIndex, Fail
  <2> QED BY <2>1, PlainEndKeeps DEF vms, CacheInv, TypeOK
<1> QED BY <1>2, <1>3, <1>4, <1>5

\* And so do delete-vm and a crash, which only take references and clients away.
LEMMA DeleteKeeps ==
    ASSUME CacheAssumption, CacheInv, NEW c \in Clients, ClientStep(c),
           DeleteData(c) \/ DeleteConfig(c) \/ ClientCrash(c)
    PROVE  CacheInv'
<1> USE DEF CacheAssumption
<1> SUFFICES ASSUME ~GiveUp(c)
             PROVE  CacheInv'
  BY GiveUpKeeps
<1>1. CASE DeleteData(c)
  <2>1. /\ pc[c] = "delete_data" /\ vm[c] \in Vms
        /\ dataDir' = dataDir \ {vm[c]}
        /\ halfGone' = halfGone \cup {vm[c]}
        /\ Goto(c, "delete_config")
        /\ UNCHANGED <<lock, store, config, undone, unlocked, upstream>>
    BY <1>1 DEF DeleteData, Fail, At, CacheInv, ClientInv, CommandInv
  <2>2. TypeOK'
    BY <2>1 DEF CacheInv, TypeOK, Goto, store, Labels
  <2>3. ClientInv(c)'
    BY <2>1 DEF CacheInv, TypeOK, Goto, ClientInv, CommandInv, ObjectInv, PruneInv, Unlocked,
       CacheLabels, LockedLabels, CreateLabels, Stored
  <2> QED BY <2>1, <2>2, <2>3, QuietStep DEF store, Stored, NoNewReference
<1>2. CASE DeleteConfig(c)
  <2>1. /\ vm[c] \in Vms
        /\ config' = [config EXCEPT ![vm[c]] = NoConfig]
        /\ halfGone' = halfGone \ {vm[c]}
        /\ unlocked' = unlocked \ {vm[c]}
        /\ Return(c)
        /\ UNCHANGED <<store, dataDir, undone, upstream>>
    BY <1>2 DEF DeleteConfig, Fail, At, CacheInv, ClientInv, CommandInv
  <2>2. config' \in [Vms -> Contents \cup {NoContent, NoConfig}]
    BY <2>1 DEF CacheInv, TypeOK
  <2>3. \A v \in Vms : NoNewReference(v)
    BY <2>1 DEF CacheInv, TypeOK, NoNewReference
  <2> QED BY <2>1, <2>2, <2>3, EndKeeps DEF store, CacheInv, TypeOK
<1>3. CASE ClientCrash(c)
  BY <1>3, PlainEndKeeps DEF ClientCrash, store, vms, CacheInv, TypeOK
<1> QED BY <1>1, <1>2, <1>3

\* Objects that go bad, and images that change upstream, do not matter here.
LEMMA EnvironmentKeeps ==
    ASSUME CacheAssumption, CacheInv,
           \/ \E o \in Contents : Corrupt(o)
           \/ \E u \in Urls : Republish(u)
           \/ UNCHANGED vars
    PROVE  CacheInv'
<1>1. UNCHANGED <<client, lock, index, vms>>
  BY DEF Corrupt, Republish, vars, store
<1>2. Stored' = Stored /\ TypeOK'
  BY DEF Corrupt, Republish, vars, store, Stored, CacheInv, TypeOK, client, vms
<1>3. \A d \in Clients : Unmoved(d) /\ lock' = lock
  BY <1>1 DEF Unmoved, client
<1>4. \A v \in Vms : NoNewReference(v)
  BY <1>1 DEF vms, NoNewReference
<1>5. \A d \in Clients : ClientInv(d)'
  BY <1>2, <1>3, <1>4, BystanderKeeps
<1>6. LockedReferencesResolve'
  BY <1>1, <1>2 DEF CacheInv, LockedReferencesResolve, Resolves, vms
<1> QED BY <1>2, <1>5, <1>6 DEF CacheInv

\* CacheInv is inductive.
THEOREM CacheInvariance ==
    ASSUME CacheAssumption
    PROVE  Spec => []CacheInv
<1>1. Init => CacheInv
  BY DEF CacheAssumption, Init, CacheInv, TypeOK, LockedReferencesResolve, Resolves, ClientInv, CommandInv,
         ObjectInv, PruneInv, Unlocked, Labels, CacheLabels, LockedLabels, CreateLabels, Downloads
<1>2. CacheInv /\ [Next]_vars => CacheInv'
  BY BeginKeeps, RequestKeeps, CreateKeeps, AppendKeeps, PruneKeeps, DeleteKeeps, EnvironmentKeeps
     DEF Next, ClientStep
<1> QED BY <1>1, <1>2, PTL DEF Spec

\* Prune never removes an object that a configuration refers to, unless that was
\* written by `get --create-config`.
THEOREM LockedReferencesResolveHolds ==
    ASSUME CacheAssumption
    PROVE  Spec => []LockedReferencesResolve
  BY CacheInvariance, PTL DEF CacheInv

\* Nor one that a command is about to use, whether it is in the index yet or not.
THEOREM ObjectsInUseAreKeptHolds ==
    ASSUME CacheAssumption
    PROVE  Spec => []ObjectsInUseAreKept
<1>1. CacheInv => ObjectsInUseAreKept
  BY DEF CacheInv, ClientInv, CommandInv, ObjectInv, ObjectsInUseAreKept, At, Unlocked, CreateLabels
<1> QED BY <1>1, CacheInvariance, PTL

\* And it leaves nothing but what is referred to.
THEOREM PruneLeavesOnlyReferencedHolds ==
    ASSUME CacheAssumption
    PROVE  Spec => []PruneLeavesOnlyReferenced
<1>1. CacheInv => PruneLeavesOnlyReferenced
  BY DEF CacheInv, ClientInv, PruneInv, PruneLeavesOnlyReferenced, At
<1> QED BY <1>1, CacheInvariance, PTL

\* Every client of the cache is at a step of a command, and the lock, the store, the
\* index and the configurations hold what they can hold.
THEOREM CacheTypeCorrect ==
    ASSUME CacheAssumption
    PROVE  Spec => []TypeOK
<1>1. CacheInv => TypeOK
  BY DEF CacheInv
<1> QED BY <1>1, CacheInvariance, PTL

-----------------------------------------------------------------------------
(* The data directories.  A VM is in the making while it has a directory    *)
(* and no configuration, and by one client at a time, as nobody makes a     *)
(* directory that is there; delete-vm is only for VMs that are configured.  *)
(* So no client that fails removes a directory that is not its own work,    *)
(* until a create that has written its configuration is undone: of such a   *)
(* name nothing is said from then on.                                       *)

Deletes(c) == op[c] = "delete"

MakerInv(c) ==
    /\ HasMadeDataDir(c) =>
         vm[c] \in Vms /\ (vm[c] \in undone \/ (vm[c] \in dataDir /\ config[vm[c]] = NoConfig))
    /\ Deletes(c) => vm[c] \in Vms /\ (vm[c] \in undone \/ config[vm[c]] # NoConfig)
    /\ pc[c] = "undo_config" => vm[c] \in undone
    /\ pc[c] = "idle" => op[c] = "none"
    /\ pc[c] \in {"delete_data", "delete_config"} => Deletes(c)

ApartInv(c, d) ==
    /\ HasMadeDataDir(c) /\ HasMadeDataDir(d) => vm[c] # vm[d] \/ vm[c] \in undone
    /\ Deletes(c) /\ Deletes(d) => vm[c] # vm[d]

DirInv ==
    /\ \A c \in Clients : MakerInv(c)
    /\ \A c, d \in Clients : c # d => ApartInv(c, d)
    /\ ConfiguredVmsHaveData

LEMMA InitDirs == Init => DirInv
  BY DEF Init, DirInv, MakerInv, ApartInv, Deletes, HasMadeDataDir, ConfiguredVmsHaveData

\* A client that does not move has made what it had made.
LEMMA UnmovedMakers ==
    ASSUME NEW d, Unmoved(d)
    PROVE  /\ HasMadeDataDir(d)' = HasMadeDataDir(d) /\ Deletes(d)' = Deletes(d)
           /\ vm'[d] = vm[d] /\ pc'[d] = pc[d] /\ op'[d] = op[d]
  BY DEF Unmoved, HasMadeDataDir, Deletes

\* One step of a client leaves every VM as it is, or is about that client's VM alone and
\* leaves the latter to it.
Keeps(v) == v \in undone' \/ (config'[v] = config[v] /\ (v \in dataDir => v \in dataDir'))

LEMMA DirStep ==
    ASSUME TypeOK, DirInv, NEW c \in Clients,
           \A d \in Clients \ {c} : Unmoved(d),
           undone \subseteq undone',
           \A v \in Vms : Keeps(v) \/ (v = vm[c] /\ (HasMadeDataDir(c) \/ Deletes(c))),
           MakerInv(c)',
           \A d \in Clients \ {c} : ApartInv(c, d)' /\ ApartInv(d, c)',
           ConfiguredVmsHaveData'
    PROVE  DirInv'
<1>1. ASSUME NEW d \in Clients \ {c}
      PROVE  MakerInv(d)'
  <2>1. /\ HasMadeDataDir(d)' = HasMadeDataDir(d) /\ Deletes(d)' = Deletes(d)
        /\ vm'[d] = vm[d] /\ pc'[d] = pc[d] /\ op'[d] = op[d]
    BY UnmovedMakers
  <2>2. MakerInv(d) /\ MakerInv(c) /\ ApartInv(c, d)
    BY DEF DirInv
  <2>3. ASSUME HasMadeDataDir(d) \/ Deletes(d)
        PROVE  vm[d] \in Vms /\ Keeps(vm[d])
    <3>1. vm[d] \in Vms
      BY <2>2, <2>3 DEF MakerInv
    <3>2. vm[d] = vm[c] /\ (HasMadeDataDir(c) \/ Deletes(c)) => vm[d] \in undone
      BY <2>2, <2>3 DEF MakerInv, ApartInv
    <3>3. vm[d] \in undone => Keeps(vm[d])
      BY DEF Keeps
    <3> QED BY <3>1, <3>2, <3>3
  <2>4. (HasMadeDataDir(d) =>
           vm[d] \in Vms /\ (vm[d] \in undone \/ (vm[d] \in dataDir /\ config[vm[d]] = NoConfig)))'
    BY <2>1, <2>2, <2>3 DEF MakerInv, Keeps
  <2>5. (Deletes(d) => vm[d] \in Vms /\ (vm[d] \in undone \/ config[vm[d]] # NoConfig))'
    BY <2>1, <2>2, <2>3 DEF MakerInv, Keeps
  <2> QED BY <2>1, <2>2, <2>4, <2>5 DEF MakerInv
<1>2. ASSUME NEW d \in Clients \ {c}, NEW e \in Clients \ {c}, d # e
      PROVE  ApartInv(d, e)'
  <2>1. ApartInv(d, e)
    BY <1>2 DEF DirInv
  <2> QED BY <2>1, UnmovedMakers DEF ApartInv
<1> QED BY <1>1, <1>2 DEF DirInv

\* A client on its way leaves the VMs alone.
LEMMA MoveKeepsDirs ==
    ASSUME TypeOK, DirInv, NEW c \in Clients, \A d \in Clients \ {c} : Unmoved(d),
           UNCHANGED <<config, dataDir, halfGone, undone>>,
           op'[c] = op[c], vm'[c] = vm[c], pc'[c] \notin {"idle", "undo_config"},
           pc'[c] \in {"delete_data", "delete_config"} => Deletes(c),
           HasMadeDataDir(c)' => HasMadeDataDir(c)
    PROVE  DirInv'
<1>1. MakerInv(c)'
  BY DEF DirInv, MakerInv, Deletes
<1>2. \A d \in Clients \ {c} : ApartInv(c, d)' /\ ApartInv(d, c)'
  BY UnmovedMakers DEF DirInv, ApartInv, Deletes
<1>3. ConfiguredVmsHaveData'
  BY DEF DirInv, ConfiguredVmsHaveData
<1> QED BY <1>1, <1>2, <1>3, DirStep DEF Keeps

\* A client that is done has nothing left of which it is the maker.
LEMMA DoneMakesNothing ==
    ASSUME TypeOK, NEW c \in Clients, \A d \in Clients \ {c} : Unmoved(d), Return(c)
    PROVE  /\ MakerInv(c)'
           /\ \A d \in Clients \ {c} : ApartInv(c, d)' /\ ApartInv(d, c)'
<1>1. pc'[c] = "idle" /\ op'[c] = "none"
  BY DEF TypeOK, Return
<1>2. ~HasMadeDataDir(c)' /\ ~Deletes(c)'
  BY <1>1 DEF HasMadeDataDir, Deletes
<1> QED BY <1>1, <1>2 DEF MakerInv, ApartInv

LEMMA ReturnKeepsDirs ==
    ASSUME TypeOK, DirInv, NEW c \in Clients, \A d \in Clients \ {c} : Unmoved(d), Return(c),
           UNCHANGED <<config, dataDir, halfGone, undone>>
    PROVE  DirInv'
<1>1. ConfiguredVmsHaveData'
  BY DEF DirInv, ConfiguredVmsHaveData
<1> QED BY <1>1, DoneMakesNothing, DirStep DEF Keeps

\* A client that gives up removes at most the directory it has made, of a VM that has no
\* configuration.
LEMMA GiveUpKeepsDirs ==
    ASSUME TypeOK, DirInv, NEW c \in Clients, \A d \in Clients \ {c} : Unmoved(d), GiveUp(c)
    PROVE  DirInv'
<1>1. /\ Return(c) /\ config' = config /\ halfGone' = halfGone /\ undone' = undone
      /\ \/ dataDir' = dataDir
         \/ HasMadeDataDir(c) /\ dataDir' = dataDir \ {vm[c]}
  BY DEF GiveUp, RemoveDir
<1>2. HasMadeDataDir(c) => vm[c] \in undone \/ config[vm[c]] = NoConfig
  BY DEF DirInv, MakerInv
<1>3. ConfiguredVmsHaveData'
  BY <1>1, <1>2 DEF DirInv, ConfiguredVmsHaveData
<1>4. \A v \in Vms : Keeps(v) \/ (v = vm[c] /\ HasMadeDataDir(c))
  BY <1>1 DEF Keeps
<1> QED BY <1>1, <1>3, <1>4, DoneMakesNothing, DirStep

LEMMA BeginKeepsDirs ==
    ASSUME TypeOK, DirInv, NEW c \in Clients, \A d \in Clients \ {c} : Unmoved(d), Begin(c)
    PROVE  DirInv'
<1>1. PICK o \in Ops :
        /\ op'[c] = o
        /\ pc'[c] = CASE o = "create_config" -> "make_dir"
                      [] o = "delete" -> "delete_data"
                      [] OTHER -> "lock"
        /\ o = "delete" => /\ vm'[c] \in Vms
                           /\ config[vm'[c]] # NoConfig
                           /\ \A d \in Clients : op[d] = "delete" => vm[d] # vm'[c]
  BY DEF Begin, TypeOK
<1>2. UNCHANGED <<config, dataDir, halfGone, undone>>
  BY DEF Begin, vms
<1>3. ~HasMadeDataDir(c)' /\ pc'[c] # "undo_config"
  BY <1>1 DEF HasMadeDataDir
<1>4. MakerInv(c)'
  BY <1>1, <1>2, <1>3 DEF MakerInv, Deletes
<1>5. \A d \in Clients \ {c} : ApartInv(c, d)' /\ ApartInv(d, c)'
  BY <1>1, <1>3, UnmovedMakers DEF ApartInv, Deletes
<1>6. ConfiguredVmsHaveData'
  BY <1>2 DEF DirInv, ConfiguredVmsHaveData
<1> QED BY <1>2, <1>4, <1>5, <1>6, DirStep DEF Keeps

\* The directory of a VM that has neither a directory nor a configuration is made by one.
LEMMA MakeDirKeepsDirs ==
    ASSUME TypeOK, DirInv, NEW c \in Clients, CommandInv(c),
           \A d \in Clients \ {c} : Unmoved(d), MakeDir(c)
    PROVE  DirInv'
<1>1. CASE GiveUp(c)
  BY <1>1, GiveUpKeepsDirs
<1>2. CASE ~GiveUp(c)
  <2>1. /\ pc[c] = "make_dir" /\ config[vm[c]] = NoConfig /\ vm[c] \notin dataDir
        /\ dataDir' = dataDir \cup {vm[c]}
        /\ config' = config /\ halfGone' = halfGone /\ undone' = undone
        /\ pc' = [pc EXCEPT ![c] = IF op[c] = "create" THEN "provision" ELSE "lock"]
        /\ op' = op /\ vm' = vm
    BY <1>2 DEF MakeDir, Fail, Goto, At
  <2>2. vm[c] \in Vms /\ op[c] \in {"create", "create_config"}
    BY <2>1 DEF CommandInv, CreateLabels
  <2>3. MakerInv(c)'
    BY <2>1, <2>2 DEF MakerInv, Deletes, HasMadeDataDir, TypeOK
  <2>4. \A d \in Clients \ {c} : HasMadeDataDir(d) => vm[d] # vm[c] \/ vm[c] \in undone
    BY <2>1 DEF DirInv, MakerInv
  <2>5. \A d \in Clients \ {c} : ApartInv(c, d)' /\ ApartInv(d, c)'
    BY <2>1, <2>2, <2>4, UnmovedMakers DEF ApartInv, Deletes
  <2>6. ConfiguredVmsHaveData'
    BY <2>1 DEF DirInv, ConfiguredVmsHaveData
  <2> QED BY <2>1, <2>3, <2>5, <2>6, DirStep DEF Keeps
<1> QED BY <1>1, <1>2

\* A step that may spoil the VM of a client, which counts as undone from then on.
LEMMA UndoneKeepsDirs ==
    ASSUME TypeOK, DirInv, NEW c \in Clients, \A d \in Clients \ {c} : Unmoved(d),
           vm[c] \in undone', undone \subseteq undone', halfGone' = halfGone,
           \A v \in Vms \ {vm[c]} :
             config'[v] = config[v] /\ (v \in dataDir <=> v \in dataDir'),
           \/ Return(c)
           \/ pc'[c] = "undo_config" /\ op'[c] = "create_config" /\ vm'[c] = vm[c]
    PROVE  DirInv'
<1>1. MakerInv(c)' /\ \A d \in Clients \ {c} : ApartInv(c, d)' /\ ApartInv(d, c)'
  <2>1. CASE Return(c)
    BY <2>1, DoneMakesNothing
  <2>2. CASE pc'[c] = "undo_config" /\ op'[c] = "create_config" /\ vm'[c] = vm[c]
    <3>1. ~HasMadeDataDir(c)' /\ ~Deletes(c)'
      BY <2>2 DEF HasMadeDataDir, Deletes
    <3> QED BY <2>2, <3>1 DEF MakerInv, ApartInv
  <2> QED BY <2>1, <2>2
<1>2. ConfiguredVmsHaveData'
  BY DEF DirInv, ConfiguredVmsHaveData
<1>3. \A v \in Vms : Keeps(v)
  BY DEF Keeps
<1> QED BY <1>1, <1>2, <1>3, DirStep

\* The configuration is written for the VM whose directory the client has made.
LEMMA WriteKeepsDirs ==
    ASSUME TypeOK, DirInv, NEW c \in Clients, CommandInv(c),
           \A d \in Clients \ {c} : Unmoved(d),
           WriteLinkedConfig(c) \/ WriteCopiedConfig(c)
    PROVE  DirInv'
<1>1. CASE GiveUp(c)
  BY <1>1, GiveUpKeepsDirs
<1>2. CASE ~GiveUp(c)
  <2>1. PICK r : config' = [config EXCEPT ![vm[c]] = r] /\ halfGone' = halfGone
    BY <1>2 DEF WriteLinkedConfig, WriteCopiedConfig, WriteConfig, Configure, Fail
  <2>2. \/ /\ UNCHANGED <<dataDir, undone>>
           /\ Return(c) \/ (op[c] = "create_config" /\ Goto(c, "append_iso"))
        \/ Return(c) /\ RemoveDir(vm[c]) /\ undone' = undone \cup {vm[c]}
    BY <1>2 DEF WriteLinkedConfig, WriteCopiedConfig, WriteConfig, Fail
  <2>3. pc[c] \in {"write_linked", "write_copied"}
    BY DEF WriteLinkedConfig, WriteCopiedConfig, WriteConfig, At
  <2>4. HasMadeDataDir(c)
    BY <2>3 DEF HasMadeDataDir, CommandInv, CreateLabels
  <2>5. vm[c] \in dataDir \cup undone
    BY <2>4 DEF DirInv, MakerInv
  <2>6. \A v \in Vms : config'[v] = config[v] \/ v = vm[c]
    BY <2>1 DEF TypeOK
  <2>7. CASE Return(c) /\ RemoveDir(vm[c]) /\ undone' = undone \cup {vm[c]}
    BY <2>1, <2>6, <2>7, UndoneKeepsDirs DEF RemoveDir
  <2>8. CASE /\ UNCHANGED <<dataDir, undone>>
             /\ Return(c) \/ (op[c] = "create_config" /\ Goto(c, "append_iso"))
    <3>1. ConfiguredVmsHaveData'
      BY <2>1, <2>5, <2>6, <2>8 DEF DirInv, ConfiguredVmsHaveData
    <3>2. \A v \in Vms : Keeps(v) \/ (v = vm[c] /\ HasMadeDataDir(c))
      BY <2>4, <2>6, <2>8 DEF Keeps
    <3>3. MakerInv(c)' /\ \A d \in Clients \ {c} : ApartInv(c, d)' /\ ApartInv(d, c)'
      <4>1. CASE Return(c)
        BY <4>1, DoneMakesNothing
      <4>2. CASE op[c] = "create_config" /\ Goto(c, "append_iso")
        <5>1. pc'[c] = "append_iso" /\ op'[c] = "create_config"
          BY <4>2 DEF TypeOK, Goto
        <5>2. ~HasMadeDataDir(c)' /\ ~Deletes(c)'
          BY <5>1 DEF HasMadeDataDir, Deletes
        <5> QED BY <5>1, <5>2 DEF MakerInv, ApartInv
      <4> QED BY <2>8, <4>1, <4>2
    <3> QED BY <2>8, <3>1, <3>2, <3>3, DirStep
  <2> QED BY <2>2, <2>7, <2>8
<1> QED BY <1>1, <1>2

\* What is appended matters to nobody, and what is undone counts as undone.
LEMMA AppendKeepsDirs ==
    ASSUME TypeOK, DirInv, NEW c \in Clients, CommandInv(c),
           \A d \in Clients \ {c} : Unmoved(d),
           AppendIso(c) \/ UndoConfig(c)
    PROVE  DirInv'
<1>1. CASE AppendIso(c) /\ Return(c) /\ UNCHANGED vms
  BY <1>1, ReturnKeepsDirs DEF vms
<1>2. CASE /\ AppendIso(c)
           /\ Goto(c, "undo_config") /\ RemoveDir(vm[c])
           /\ undone' = undone \cup {vm[c]}
           /\ UNCHANGED <<lock, config, halfGone, unlocked>>
  <2>1. op[c] = "create_config"
    BY <1>2 DEF AppendIso, At, CommandInv
  <2>2. pc'[c] = "undo_config" /\ op'[c] = "create_config" /\ vm'[c] = vm[c]
    BY <1>2, <2>1 DEF TypeOK, Goto
  <2> QED BY <1>2, <2>2, UndoneKeepsDirs DEF RemoveDir
<1>3. CASE UndoConfig(c)
  <2>1. vm[c] \in undone
    BY <1>3 DEF UndoConfig, At, DirInv, MakerInv
  <2>2. \A v \in Vms \ {vm[c]} : config'[v] = config[v]
    BY <1>3 DEF UndoConfig, TypeOK
  <2> QED BY <1>3, <2>1, <2>2, UndoneKeepsDirs DEF UndoConfig
<1> QED BY <1>1, <1>2, <1>3 DEF AppendIso

\* delete-vm removes what no other client makes or deletes.
LEMMA DeleteKeepsDirs ==
    ASSUME TypeOK, DirInv, NEW c \in Clients, \A d \in Clients \ {c} : Unmoved(d),
           DeleteData(c) \/ DeleteConfig(c)
    PROVE  DirInv'
<1>1. Deletes(c)
  BY DEF DeleteData, DeleteConfig, At, DirInv, MakerInv
<1>2. CASE GiveUp(c)
  BY <1>2, GiveUpKeepsDirs
<1>3. CASE DeleteData(c) /\ ~GiveUp(c)
  <2>1. /\ dataDir' = dataDir \ {vm[c]} /\ halfGone' = halfGone \cup {vm[c]}
        /\ config' = config /\ undone' = undone /\ op' = op /\ vm' = vm
        /\ pc' = [pc EXCEPT ![c] = "delete_config"]
    BY <1>3 DEF DeleteData, Fail, Goto
  <2>2. ~HasMadeDataDir(c)'
    BY <1>1, <2>1 DEF HasMadeDataDir, Deletes
  <2>3. MakerInv(c)'
    BY <1>1, <2>1, <2>2 DEF DirInv, MakerInv, Deletes, TypeOK
  <2>4. \A d \in Clients \ {c} : ApartInv(c, d)' /\ ApartInv(d, c)'
    BY <1>1, <2>1, <2>2, UnmovedMakers DEF DirInv, ApartInv, Deletes
  <2>5. ConfiguredVmsHaveData'
    BY <2>1 DEF DirInv, ConfiguredVmsHaveData
  <2>6. \A v \in Vms : Keeps(v) \/ v = vm[c]
    BY <2>1 DEF Keeps
  <2> QED BY <1>1, <2>1, <2>3, <2>4, <2>5, <2>6, DirStep
<1>4. CASE DeleteConfig(c) /\ ~GiveUp(c)
  <2>1. /\ config' = [config EXCEPT ![vm[c]] = NoConfig] /\ halfGone' = halfGone \ {vm[c]}
        /\ dataDir' = dataDir /\ undone' = undone /\ Return(c)
    BY <1>4 DEF DeleteConfig, Fail
  <2>2. vm[c] \in Vms
    BY <1>1 DEF DirInv, MakerInv
  <2>3. \A v \in Vms : config'[v] = IF v = vm[c] THEN NoConfig ELSE config[v]
    BY <2>1 DEF TypeOK
  <2>4. ConfiguredVmsHaveData'
    BY <2>1, <2>3 DEF DirInv, ConfiguredVmsHaveData
  <2>5. \A v \in Vms : Keeps(v) \/ v = vm[c]
    BY <2>1, <2>3 DEF Keeps
  <2> QED BY <1>1, <2>1, <2>4, <2>5, DoneMakesNothing, DirStep
<1> QED BY <1>2, <1>3, <1>4

\* The rest of what clients do is about the cache.
LEMMA CacheKeepsDirs ==
    ASSUME TypeOK, DirInv, NEW c \in Clients, CommandInv(c),
           \A d \in Clients \ {c} : Unmoved(d),
           \/ AcquireCacheLock(c) \/ LookUp(c) \/ Download(c) \/ Publish(c) \/ WriteIndex(c)
           \/ SelectSource(c) \/ Provision(c) \/ ReadConfig(c) \/ PruneCandidates(c)
           \/ RemoveObject(c) \/ RetainIndex(c),
           ~GiveUp(c)
    PROVE  DirInv'
<1>1. UNCHANGED <<config, dataDir, halfGone, undone>>
  BY DEF AcquireCacheLock, LookUp, Download, Publish, WriteIndex, SelectSource, Provision,
         ReadConfig, PruneCandidates, RemoveObject, RetainIndex, Fail, vms
<1>2. CASE Return(c)
  BY <1>1, <1>2, ReturnKeepsDirs
<1>3. CASE ~Return(c)
  <2>1. op' = op /\ vm' = vm
    BY <1>3 DEF AcquireCacheLock, LookUp, Download, Publish, WriteIndex, SelectSource, Provision,
       ReadConfig, PruneCandidates, RemoveObject, RetainIndex, Fail, Cached, Goto, client
  <2>2. /\ pc'[c] \notin {"idle", "undo_config", "delete_data", "delete_config"}
        /\ HasMadeDataDir(c)' => HasMadeDataDir(c)
    <3>1. CASE AcquireCacheLock(c)
      <4>1. pc[c] = "lock" /\ pc' = [pc EXCEPT ![c] = FirstStep[op[c]]]
        BY <3>1 DEF AcquireCacheLock, At
      <4>2. op[c] \in {"get", "refresh", "create", "create_config", "prune"}
        BY <4>1, CacheAssumption DEF CommandInv, AllOps
      <4>3. FirstStep[op[c]] \in {"lookup", "select", "scan"}
        BY <4>2 DEF FirstStep
      <4> QED BY <2>1, <4>1, <4>3 DEF TypeOK, HasMadeDataDir
    <3>2. CASE LookUp(c) \/ WriteIndex(c)
      <4>1. pc[c] \in {"lookup", "write_index"}
        BY <3>2 DEF LookUp, WriteIndex, At
      <4>2. op[c] # "create"
        BY <4>1 DEF CommandInv, Downloads
      <4> QED BY <1>3, <2>1, <3>2, <4>1, <4>2
              DEF LookUp, WriteIndex, Fail, Cached, Goto, TypeOK, HasMadeDataDir
    <3>3. CASE Download(c) \/ Publish(c)
      <4>1. pc[c] \in {"download", "publish"}
        BY <3>3 DEF Download, Publish, At
      <4> QED BY <2>1, <3>3, <4>1 DEF Download, Publish, Fail, Goto, TypeOK, HasMadeDataDir
    <3>4. CASE SelectSource(c) \/ Provision(c)
      <4>1. pc[c] \in {"select", "provision"} /\ (pc[c] = "select" => op[c] = "create")
        BY <3>4 DEF SelectSource, Provision, At, CommandInv
      <4> QED BY <2>1, <3>4, <4>1 DEF SelectSource, Provision, Fail, Goto, TypeOK,
              HasMadeDataDir, At
    <3>5. CASE ReadConfig(c) \/ PruneCandidates(c) \/ RemoveObject(c) \/ RetainIndex(c)
      <4>1. pc[c] \in {"scan", "remove", "retain"} /\ pc'[c] \in {"scan", "remove", "retain"}
        BY <1>3, <3>5 DEF ReadConfig, PruneCandidates, RemoveObject, RetainIndex, Fail, Goto, At,
           client, TypeOK
      <4> QED BY <2>1, <4>1 DEF HasMadeDataDir
    <3> QED BY <3>1, <3>2, <3>3, <3>4, <3>5
  <2> QED BY <1>1, <2>1, <2>2, MoveKeepsDirs
<1> QED BY <1>2, <1>3

LEMMA NextDirs ==
    ASSUME CacheAssumption, CacheInv, DirInv, [Next]_vars
    PROVE  DirInv'
<1>1. TypeOK /\ \A c \in Clients : CommandInv(c)
  BY DEF CacheInv, ClientInv
<1>2. ASSUME NEW c \in Clients, ClientStep(c)
      PROVE  DirInv'
  <2>1. \A d \in Clients \ {c} : Unmoved(d)
    BY <1>1, <1>2, OthersUnmoved
  <2>2. CASE GiveUp(c)
    BY <1>1, <2>1, <2>2, GiveUpKeepsDirs
  <2>3. CASE ClientCrash(c)
    BY <1>1, <2>1, <2>3, ReturnKeepsDirs DEF ClientCrash, vms
  <2> QED BY <1>1, <1>2, <2>1, <2>2, <2>3, BeginKeepsDirs, MakeDirKeepsDirs, WriteKeepsDirs,
          AppendKeepsDirs, DeleteKeepsDirs, CacheKeepsDirs DEF ClientStep, CacheLockBusy
<1>3. CASE (\E o \in Contents : Corrupt(o)) \/ (\E u \in Urls : Republish(u)) \/ UNCHANGED vars
  <2>1. UNCHANGED <<pc, op, vm, config, dataDir, halfGone, undone>>
    BY <1>3 DEF Corrupt, Republish, vars, client, vms
  <2> QED BY <2>1 DEF DirInv, MakerInv, ApartInv, Deletes, HasMadeDataDir, ConfiguredVmsHaveData
<1> QED BY <1>2, <1>3 DEF Next

\* Every configured VM has its data, unless delete-vm has taken it, or a create that had
\* written its configuration has been undone on that name: no other command that fails
\* removes the directory of a VM that another one has made, for any number of clients.
THEOREM ConfiguredVmsHaveDataHolds ==
    ASSUME CacheAssumption
    PROVE  Spec => []ConfiguredVmsHaveData
<1>1. DirInv => ConfiguredVmsHaveData
  BY DEF DirInv
<1> QED BY <1>1, CacheInvariance, InitDirs, NextDirs, PTL DEF Spec

=============================================================================
