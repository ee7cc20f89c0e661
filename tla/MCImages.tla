------------------------------ MODULE MCImages ------------------------------
(* The images that vmctl downloads, for TLC: the cache, and the files on   *)
(* their way to it or to the user's directory.  The parts share no state,  *)
(* so a behaviour uses one of them and the other rests, in one initial     *)
(* state; every action is a disjunct of its own.  The processes of both    *)
(* have the same names, so that they share the symmetry of the clients.    *)
(* The cache is explored three times: without refreshes, without           *)
(* get --create-config, in both with all the VMs, but no configuration     *)
(* undone or half written; and with these, but one VM at a time and what   *)
(* is done to VMs: what they lead to concerns the one name.                *)
EXTENDS MCImageCache, ImageDownloads

VARIABLE part   \* the one that is used

MCInit ==
    /\ Init
    /\ DownloadInit
    /\ part \in {"cache", "refresh", "undo", "files"}
    /\ part = "files" => upstream = [u \in Urls |-> CHOOSE o \in Contents : TRUE]

VmsInUse == {v \in Vms : config[v] # NoConfig \/ \E c \in Clients : vm[c] = v} \cup dataDir \cup undone

\* How far each part of the cache goes.
Bounded ==
    CASE part = "cache" ->
           undone' = {} /\ \A c \in Clients : op'[c] # "refresh" /\ pc'[c] # "append_iso"
      [] part = "refresh" ->
           undone' = {} /\ \A c \in Clients : op'[c] # "create_config"
      [] part = "undo" ->
           /\ Cardinality(VmsInUse') <= 1
           /\ \A c \in Clients : op'[c] \notin {"get", "refresh"}

Cache(Step) ==
    /\ part # "files"
    /\ Step
    /\ Bounded
    /\ UNCHANGED <<downloadVars, part>>

Files(Step) == part = "files" /\ Step /\ UNCHANGED <<vars, part>>

MCNext ==
    \/ \E c \in Clients : Cache(Begin(c))
    \/ \E c \in Clients : Cache(AcquireCacheLock(c))
    \/ \E c \in Clients : Cache(CacheLockBusy(c))
    \/ \E c \in Clients : Cache(LookUp(c))
    \/ \E c \in Clients : Cache(Download(c))
    \/ \E c \in Clients : Cache(Publish(c))
    \/ \E c \in Clients : Cache(WriteIndex(c))
    \/ \E c \in Clients : Cache(MakeDir(c))
    \/ \E c \in Clients : Cache(SelectSource(c))
    \/ \E c \in Clients : Cache(Provision(c))
    \/ \E c \in Clients : Cache(WriteLinkedConfig(c))
    \/ \E c \in Clients : Cache(WriteCopiedConfig(c))
    \/ \E c \in Clients : Cache(AppendIso(c))
    \/ \E c \in Clients : Cache(UndoConfig(c))
    \/ \E c \in Clients : Cache(ReadConfig(c))
    \/ \E c \in Clients : Cache(PruneCandidates(c))
    \/ \E c \in Clients : Cache(RemoveObject(c))
    \/ \E c \in Clients : Cache(RetainIndex(c))
    \/ \E c \in Clients : Cache(DeleteData(c))
    \/ \E c \in Clients : Cache(DeleteConfig(c))
    \/ \E c \in Clients : Cache(ClientCrash(c))
    \/ \E o \in Contents : Cache(Corrupt(o))
    \/ \E u \in Urls : Cache(Republish(u))
    \/ \E p \in DownloadPids, k \in {"image", "macos", "cache"} : Files(BeginDownload(p, k))
    \/ \E p \in DownloadPids : Files(StageFile(p))
    \/ \E p \in DownloadPids : Files(FetchFile(p))
    \/ \E p \in DownloadPids : Files(LinkFile(p))
    \/ \E p \in DownloadPids : Files(UnlinkTemp(p))
    \/ \E p \in DownloadPids : Files(VerifyFile(p))
    \/ \E p \in DownloadPids : Files(RejectFile(p))
    \/ \E p \in DownloadPids : Files(PublishFile(p))
    \/ \E p \in DownloadPids : Files(RemoveDmg(p))
    \/ \E p \in DownloadPids : Files(RemoveChunklist(p))
    \/ \E p \in DownloadPids : Files(DownloaderDies(p))
    \/ \E f \in Destinations \cup DownloadPids : Files(UserClears(f))

MCSpec == MCInit /\ [][MCNext]_<<vars, downloadVars, part>>

=============================================================================
