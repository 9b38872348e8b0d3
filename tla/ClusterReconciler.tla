------------------------- MODULE ClusterReconciler -------------------------
(***************************************************************************)
(* The AerospikeCluster reconciler (pkg/reconciler): MaybeReconcile, the   *)
(* signal* functions that record the progress of a version upgrade, and    *)
(* the pre-upgrade backup they wait for.  One action is one call to the    *)
(* Kubernetes API, because the operator may stop, and other actors may     *)
(* act, between any two calls.                                             *)
(*                                                                         *)
(* The work queue gives a cluster to one worker at a time, so each cluster *)
(* has one reconcile in progress at most; those of different clusters      *)
(* interleave.  ensurePods is kept to what an upgrade needs: which version *)
(* each pod runs and whether it is ready.                                  *)
(***************************************************************************)
EXTENDS Integers, FiniteSets

CONSTANTS
    Clusters,        \* AerospikeCluster resources of one Kubernetes namespace
    Namespaces,      \* names of Aerospike namespaces
    NamespacesOf,    \* [Clusters -> SUBSET Namespaces]: .spec.namespaces
    Versions,        \* values of .spec.version, numbered by release order
    Upgradable,      \* the changes of .spec.version that admission accepts
    BrokenVersions,  \* versions whose image cannot be pulled or started
    NoVersion,       \* .status.version = "", or no pod
    Nodes,           \* .spec.nodeCount
    MaxFaults,       \* bound: failed API calls and operator crashes
    Patience,        \* what users wait for before they ask for a version
    FreshReads,      \* a reconcile starts from an up-to-date informer cache
    PodsDisturbed    \* pods become unready, or are deleted, on their own

ASSUME ConstantsAssumption ==
    /\ Clusters # {}
    /\ NamespacesOf \in [Clusters -> SUBSET Namespaces]
    /\ Versions \subseteq Nat
    /\ NoVersion \notin Versions
    /\ Upgradable \subseteq Versions \X Versions
    /\ BrokenVersions \subseteq Versions
    /\ Nodes \in Nat \ {0}
    /\ MaxFaults \in Nat
    /\ Patience \in {"settled", "status", "none"}
    /\ FreshReads \in BOOLEAN
    /\ PodsDisturbed \in BOOLEAN

VARIABLES
    api,       \* the AerospikeCluster resources, as the API server stores them
    cache,     \* the copies the cluster informer holds
    pods,      \* pods[c][i]: the version pod i of cluster c runs
    ready,     \* ready[c]: the pods of c that are running and ready
    backups,   \* state of each AerospikeNamespaceBackup, by name
    backupOf,  \* .spec.target.cluster of each of them
    fresh,     \* history: backups made since .status.version of their cluster
               \* last changed
    pc,        \* pc[c]: where MaybeReconcile(c) is
    sig,       \* sig[c]: the signal or status update being written
    cl,        \* cl[c]: the local copy of the resource
    up,        \* up[c]: upgrade # nil
    idx,       \* idx[c]: the pod index of the loop in ensurePods
    todo,      \* todo[c]: the namespaces backupCluster has still to back up
    conflict,  \* clusters written by a user since the reconcile's last Patch
    faults     \* number of failed calls and crashes so far

resourceVars == <<api, cache, conflict>>
podVars == <<pods, ready>>
backupVars == <<backups, backupOf, fresh>>
localVars == <<pc, sig, cl, up, idx, todo>>
vars == <<resourceVars, podVars, backupVars, localVars, faults>>

-----------------------------------------------------------------------------

\* Variant: the loop over the pods runs once too often.
IndexOneTooMany == 0 .. Nodes

Index == 0 .. Nodes - 1
VersionOrNone == Versions \cup {NoVersion}

\* The value of the upgrade-status annotation; "none" when it is absent.
Annotation == {"none", "backup", "started", "failed"}

Condition == {"AutoBackupStarted", "AutoBackupFinished", "AutoBackupFailed",
              "UpgradeStarted", "UpgradeFinished", "UpgradeFailed"}

\* The fields of an AerospikeCluster that an upgrade reads or writes, and
\* what a local copy of them may hold.
Resource == [spec : Versions, ver : VersionOrNone,
             ann : Annotation, conds : SUBSET Condition]
LocalResource == [spec : VersionOrNone, ver : VersionOrNone,
                  ann : Annotation, conds : SUBSET Condition]

\* A cluster as its user creates it, and what a local copy holds between
\* reconciles.
NewResource(v) == [spec |-> v, ver |-> NoVersion, ann |-> "none", conds |-> {}]
NoResource == NewResource(NoVersion)

\* What the reconciler writes to the resource: six signals, and the status
\* update that ends a successful reconcile.
Signal == {"backupStarted", "backupFinished", "backupFailed",
           "upgradeStarted", "upgradeFailed", "upgradeFinished", "reconciled"}

\* The name of a pre-upgrade backup: it has no trace of the cluster's name.
GetBackupName(ns, source, target) == <<ns, source, target>>
BackupName == Namespaces \X Versions \X Versions

BackupState == {"absent", "running", "finished", "failed"}

\* upgrade # nil: a version has been recorded, and another one is wanted.
IsUpgrade(o) == o.ver # NoVersion /\ o.spec # o.ver

-----------------------------------------------------------------------------
(* The effect of a signal on the local copy of the resource.               *)

\* Variant: the end of an upgrade leaves the annotation in place.
NewAnnotationKept(s, o) ==
    CASE s = "backupStarted"  -> "backup"
      [] s = "upgradeStarted" -> "started"
      [] s = "upgradeFailed"  -> "failed"
      [] OTHER                -> o.ann

NewAnnotation(s, o) ==
    CASE s = "backupStarted"   -> "backup"
      [] s = "upgradeStarted"  -> "started"
      [] s = "upgradeFailed"   -> "failed"
      [] s = "upgradeFinished" -> "none"
      [] OTHER                 -> o.ann

NewConditions(s) ==
    CASE s = "backupStarted"   -> {"AutoBackupStarted"}
      [] s = "backupFinished"  -> {"AutoBackupFinished"}
      [] s = "backupFailed"    -> {"AutoBackupFailed"}
      [] s = "upgradeStarted"  -> {"UpgradeStarted"}
      [] s = "upgradeFailed"   -> {"UpgradeFailed"}
      [] s = "upgradeFinished" -> {"UpgradeFinished"}
      [] OTHER                 -> {}

\* Variant: the target version is recorded when the upgrade starts.
NewVersionTooEarly(s, o) ==
    IF s \in {"upgradeStarted", "reconciled"} THEN o.spec ELSE o.ver

\* updateStatus copies .spec.version to .status.version.
NewVersion(s, o) == IF s = "reconciled" THEN o.spec ELSE o.ver

Signalled(s, o) ==
    [spec |-> o.spec, ver |-> NewVersion(s, o), ann |-> NewAnnotation(s, o),
     conds |-> o.conds \cup NewConditions(s)]

-----------------------------------------------------------------------------

Init ==
    /\ api \in [Clusters -> {NewResource(v) : v \in Versions}]
    /\ cache = api
    /\ pods = [c \in Clusters |-> [i \in Index |-> NoVersion]]
    /\ ready = [c \in Clusters |-> {}]
    /\ backups = [b \in BackupName |-> "absent"]
    /\ backupOf = [b \in BackupName |-> CHOOSE c \in Clusters : TRUE]
    /\ fresh = {}
    /\ pc = [c \in Clusters |-> "idle"]
    /\ sig = [c \in Clusters |-> "reconciled"]
    /\ cl = [c \in Clusters |-> NoResource]
    /\ up = [c \in Clusters |-> FALSE]
    /\ idx = [c \in Clusters |-> 0]
    /\ todo = [c \in Clusters |-> {}]
    /\ conflict = {}
    /\ faults = 0

-----------------------------------------------------------------------------
(* Control flow of MaybeReconcile.                                         *)

\* Return from MaybeReconcile; its local state is dropped.
Return(c) ==
    /\ pc' = [pc EXCEPT ![c] = "idle"]
    /\ sig' = [sig EXCEPT ![c] = "reconciled"]
    /\ cl' = [cl EXCEPT ![c] = NoResource]
    /\ up' = [up EXCEPT ![c] = FALSE]
    /\ idx' = [idx EXCEPT ![c] = 0]
    /\ todo' = [todo EXCEPT ![c] = {}]

\* Go on with signal s, the local copy being o.
GotoSignal(c, s, o) ==
    /\ pc' = [pc EXCEPT ![c] = "patch"]
    /\ sig' = [sig EXCEPT ![c] = s]
    /\ cl' = [cl EXCEPT ![c] = o]
    /\ UNCHANGED <<up, idx, todo>>

\* Go on with the loop of ensurePods, the local copy being o.
GotoPods(c, o) ==
    /\ pc' = [pc EXCEPT ![c] = "ensurePods"]
    /\ sig' = [sig EXCEPT ![c] = "reconciled"]
    /\ cl' = [cl EXCEPT ![c] = o]
    /\ idx' = [idx EXCEPT ![c] = 0]
    /\ UNCHANGED <<up, todo>>

\* What MaybeReconcile does once the signal it was writing is written, o
\* being the local copy that the signal has changed.
AfterSignal(c, o) ==
    \/ /\ sig[c] = "backupStarted"
       /\ pc' = [pc EXCEPT ![c] = "backupCluster"]
       /\ cl' = [cl EXCEPT ![c] = o]
       /\ todo' = [todo EXCEPT ![c] = NamespacesOf[c]]
       /\ UNCHANGED <<sig, up, idx>>
    \/ sig[c] = "backupFinished" /\ GotoSignal(c, "upgradeStarted", o)
    \/ sig[c] = "backupFailed" /\ GotoSignal(c, "upgradeFailed", o)
    \/ sig[c] = "upgradeStarted" /\ GotoPods(c, o)
    \/ sig[c] = "reconciled" /\ up[c] /\ GotoSignal(c, "upgradeFinished", o)
    \/ sig[c] = "reconciled" /\ ~up[c] /\ Return(c)
    \/ sig[c] \in {"upgradeFailed", "upgradeFinished"} /\ Return(c)

-----------------------------------------------------------------------------
(* The start of MaybeReconcile: processQueueItem copies the resource out   *)
(* of the informer cache.  A cluster whose upgrade has failed is left      *)
(* alone.                                                                  *)

\* Variant: a failed upgrade is not left alone.
BeginAfterFailure(c, p, s) ==
    /\ pc[c] = "idle"
    /\ FreshReads => cache[c] = api[c]
    /\ pc' = [pc EXCEPT ![c] = p]
    /\ sig' = [sig EXCEPT ![c] = s]
    /\ cl' = [cl EXCEPT ![c] = cache[c]]
    /\ up' = [up EXCEPT ![c] = IsUpgrade(cache[c])]
    /\ UNCHANGED <<resourceVars, podVars, backupVars, idx, todo, faults>>

Begin(c, p, s) ==
    /\ pc[c] = "idle"
    /\ FreshReads => cache[c] = api[c]
    /\ cache[c].ann # "failed"
    /\ pc' = [pc EXCEPT ![c] = p]
    /\ sig' = [sig EXCEPT ![c] = s]
    /\ cl' = [cl EXCEPT ![c] = cache[c]]
    /\ up' = [up EXCEPT ![c] = IsUpgrade(cache[c])]
    /\ UNCHANGED <<resourceVars, podVars, backupVars, idx, todo, faults>>

\* No upgrade, or one that has started: go straight to the pods.
BeginPods(c) ==
    /\ IsUpgrade(cache[c]) => cache[c].ann \notin {"none", "backup"}
    /\ Begin(c, "ensurePods", "reconciled")

\* A new upgrade: announce its backup first.
BeginBackup(c) ==
    /\ IsUpgrade(cache[c]) /\ cache[c].ann = "none"
    /\ Begin(c, "patch", "backupStarted")

\* An upgrade that waits for its backup.
BeginCheck(c) ==
    /\ IsUpgrade(cache[c]) /\ cache[c].ann = "backup"
    /\ Begin(c, "checkBackups", "reconciled")

-----------------------------------------------------------------------------
(* patchCluster: a merge patch of the resource, which carries what differs *)
(* between the two local copies and leaves the status subresource alone,   *)
(* then an update of the status with the whole local status.               *)

Patched(c) ==
    LET new == Signalled(sig[c], cl[c])
    IN  IF new.ann = cl[c].ann THEN api[c] ELSE [api[c] EXCEPT !.ann = new.ann]

Patch(c) ==
    /\ pc[c] = "patch"
    /\ api' = [api EXCEPT ![c] = Patched(c)]
    /\ conflict' = conflict \ {c}
    /\ pc' = [pc EXCEPT ![c] = "updateStatus"]
    /\ UNCHANGED <<cache, podVars, backupVars, sig, cl, up, idx, todo, faults>>

\* The status is written if it differs from the one Patch returned.  Signals
\* append a condition, so theirs does; conditions are a set here, a list in
\* the code.
StatusDiffers(c) ==
    LET new == Signalled(sig[c], cl[c])
    IN  \/ sig[c] # "reconciled"
        \/ api[c].ver # new.ver \/ api[c].conds # new.conds

\* The history variable: a backup made under another .status.version no
\* longer counts for the cluster.
FreshAfter(c, v) ==
    IF v = api[c].ver THEN fresh ELSE {b \in fresh : backupOf[b] # c}

UpdateStatus(c) ==
    LET new == Signalled(sig[c], cl[c])
    IN  /\ pc[c] = "updateStatus"
        /\ StatusDiffers(c) => c \notin conflict
        /\ api' = [api EXCEPT ![c].ver = new.ver, ![c].conds = new.conds]
        /\ fresh' = FreshAfter(c, new.ver)
        /\ AfterSignal(c, new)
        /\ UNCHANGED <<cache, conflict, podVars, backups, backupOf, faults>>

\* A call of patchCluster returned an error.  Only the error of
\* signalBackupFailed is logged and ignored; any other ends the reconcile.
SignalError(c) ==
    \/ /\ sig[c] = "backupFailed"
       /\ GotoSignal(c, "upgradeFailed", Signalled(sig[c], cl[c]))
    \/ sig[c] # "backupFailed" /\ Return(c)

\* UpdateStatus carries the resource version that Patch returned, and the
\* resource has been written since.
UpdateStatusConflict(c) ==
    /\ pc[c] = "updateStatus"
    /\ StatusDiffers(c)
    /\ c \in conflict
    /\ SignalError(c)
    /\ UNCHANGED <<resourceVars, podVars, backupVars, faults>>

PatchClusterFails(c) ==
    /\ pc[c] \in {"patch", "updateStatus"}
    /\ faults < MaxFaults
    /\ SignalError(c)
    /\ faults' = faults + 1
    /\ UNCHANGED <<resourceVars, podVars, backupVars>>

-----------------------------------------------------------------------------
(* The pre-upgrade backup.  The order of .spec.namespaces is left open.    *)

\* createNamespaceBackup, for one of the namespaces.
CreateNamespaceBackup(c, ns) ==
    LET b == GetBackupName(ns, cl[c].ver, cl[c].spec)
    IN  /\ pc[c] = "backupCluster"
        /\ ns \in todo[c]
        /\ backups[b] = "absent"
        /\ backups' = [backups EXCEPT ![b] = "running"]
        /\ backupOf' = [backupOf EXCEPT ![b] = c]
        /\ fresh' = fresh \cup {b}
        /\ todo' = [todo EXCEPT ![c] = @ \ {ns}]
        /\ UNCHANGED <<resourceVars, podVars, pc, sig, cl, up, idx, faults>>

\* A backup of that name exists: Create answers AlreadyExists, and the error
\* ends the reconcile.
BackupAlreadyExists(c, ns) ==
    /\ pc[c] = "backupCluster"
    /\ ns \in todo[c]
    /\ backups[GetBackupName(ns, cl[c].ver, cl[c].spec)] # "absent"
    /\ Return(c)
    /\ UNCHANGED <<resourceVars, podVars, backupVars, faults>>

BackupsCreated(c) ==
    /\ pc[c] = "backupCluster"
    /\ todo[c] = {}
    /\ Return(c)
    /\ UNCHANGED <<resourceVars, podVars, backupVars, faults>>

\* isBackupCompleted reads the backup of that name, whoever made it.
StateOfBackup(c, ns) == backups[GetBackupName(ns, cl[c].ver, cl[c].spec)]

\* Variants: one finished backup is enough; a running backup is taken for a
\* finished one.
SomeBackupFinished(c) ==
    \E ns \in NamespacesOf[c] : StateOfBackup(c, ns) = "finished"
NoBackupFailed(c) ==
    \A ns \in NamespacesOf[c] : StateOfBackup(c, ns) \in {"running", "finished"}

IsClusterBackupFinished(c) ==
    \A ns \in NamespacesOf[c] : StateOfBackup(c, ns) = "finished"

BackupsFinished(c) ==
    /\ pc[c] = "checkBackups"
    /\ IsClusterBackupFinished(c)
    /\ GotoSignal(c, "backupFinished", cl[c])
    /\ UNCHANGED <<resourceVars, podVars, backupVars, faults>>

\* Variant: the failed backup itself is not reported.
BackupsFailedUnreported(c) ==
    /\ pc[c] = "checkBackups"
    /\ \E ns \in NamespacesOf[c] : StateOfBackup(c, ns) = "failed"
    /\ GotoSignal(c, "upgradeFailed", cl[c])
    /\ UNCHANGED <<resourceVars, podVars, backupVars, faults>>

BackupsFailed(c) ==
    /\ pc[c] = "checkBackups"
    /\ \E ns \in NamespacesOf[c] : StateOfBackup(c, ns) = "failed"
    /\ GotoSignal(c, "backupFailed", cl[c])
    /\ UNCHANGED <<resourceVars, podVars, backupVars, faults>>

\* A backup is still running, or the lister does not know it (an error).
\* The lister may lag, so this answer is possible for any finished backup
\* too; starting over then changes nothing.
BackupsPending(c) ==
    /\ pc[c] = "checkBackups"
    /\ \E ns \in NamespacesOf[c] : StateOfBackup(c, ns) \in {"absent", "running"}
    /\ Return(c)
    /\ UNCHANGED <<resourceVars, podVars, backupVars, faults>>

\* The backup controller and its job, seen from here.
BackupEnds(b, s) ==
    /\ backups[b] = "running"
    /\ backups' = [backups EXCEPT ![b] = s]
    /\ UNCHANGED <<resourceVars, podVars, backupOf, fresh, localVars, faults>>

-----------------------------------------------------------------------------
(* The loop of ensurePods over the pods 0 .. nodeCount - 1.                *)

Pod(c) == pods[c][idx[c]]
NeedsUpgrade(c) == up[c] /\ Pod(c) # cl[c].spec
InFailureState(v) == v \in BrokenVersions

NextPod(c) ==
    /\ pc' = [pc EXCEPT ![c] = "ensurePods"]
    /\ idx' = [idx EXCEPT ![c] = @ + 1]
    /\ UNCHANGED <<sig, cl, up, todo>>

\* listClusterRunningPods: the pods that are not in a failure state, ready
\* or not; and the number of nodes a ready pod can see.
RunningPods(c) ==
    {i \in Index : pods[c][i] # NoVersion /\ ~InFailureState(pods[c][i])}

GetClusterSize(c) == Cardinality(ready[c])

\* The reconciler asks pods for their version, their migrations and their
\* size of the cluster.  A ready pod answers; one that is not may answer (the
\* readiness probe runs every ten seconds) or not.

\* The pod needs nothing.  During an upgrade it is enough that it answers
\* with the target version; otherwise ensureClusterSize asks it for the size
\* of the cluster.
KeepPod(c) ==
    /\ pc[c] = "ensurePods" /\ idx[c] \in RunningPods(c)
    /\ ~NeedsUpgrade(c)
    /\ up[c] \/ GetClusterSize(c) >= Cardinality(RunningPods(c))
    /\ NextPod(c)
    /\ UNCHANGED <<resourceVars, podVars, backupVars, faults>>

\* The pod goes between the two times it is looked up, in ensurePods and in
\* maybeUpgradePodWithIndex: the loop moves on without it.
PodSkipped(c) ==
    /\ pc[c] = "ensurePods" /\ idx[c] \in Index
    /\ PodsDisturbed
    /\ up[c] /\ Pod(c) = NoVersion
    /\ NextPod(c)
    /\ UNCHANGED <<resourceVars, podVars, backupVars, faults>>

\* The pod does not answer: the error ends the reconcile.
PodUnreachable(c) ==
    /\ pc[c] = "ensurePods" /\ idx[c] \in RunningPods(c) \ ready[c]
    /\ Return(c)
    /\ UNCHANGED <<resourceVars, podVars, backupVars, faults>>

RemovePod(c) ==
    /\ pods' = [pods EXCEPT ![c][idx[c]] = NoVersion]
    /\ ready' = [ready EXCEPT ![c] = @ \ {idx[c]}]

\* The first half of safeRestartPodWithIndex: wait for migrations, delete.
DeleteOutdatedPod(c) ==
    /\ pc[c] = "ensurePods" /\ idx[c] \in RunningPods(c)
    /\ NeedsUpgrade(c)
    /\ RemovePod(c)
    /\ UNCHANGED <<resourceVars, backupVars, localVars, faults>>

\* ensureClusterSize sees a cluster that is too small for a minute: it
\* deletes the pod it asked, and the error ends the reconcile.
DeleteIsolatedPod(c) ==
    /\ pc[c] = "ensurePods" /\ ~up[c]
    /\ idx[c] \in RunningPods(c)
    /\ GetClusterSize(c) < Cardinality(RunningPods(c))
    /\ RemovePod(c)
    /\ Return(c)
    /\ UNCHANGED <<resourceVars, backupVars, faults>>

\* A pod in a failure state is deleted, to be created again.
DeleteFailedPod(c) ==
    /\ pc[c] = "ensurePods" /\ idx[c] \in Index
    /\ InFailureState(Pod(c))
    /\ RemovePod(c)
    /\ UNCHANGED <<resourceVars, backupVars, localVars, faults>>

\* createPodWithIndex, up to the creation of the pod.
CreatePod(c) ==
    /\ pc[c] = "ensurePods" /\ idx[c] \in Index
    /\ Pod(c) = NoVersion
    /\ pods' = [pods EXCEPT ![c][idx[c]] = cl[c].spec]
    /\ pc' = [pc EXCEPT ![c] = "waitPod"]
    /\ UNCHANGED <<resourceVars, ready, backupVars, sig, cl, up, idx, todo, faults>>

\* Variant: the new pod is not waited for.
PodNotAwaited(c) ==
    /\ pc[c] = "waitPod"
    /\ NextPod(c)
    /\ UNCHANGED <<resourceVars, podVars, backupVars, faults>>

\* ... and the wait for it to be ready.
PodIsReady(c) ==
    /\ pc[c] = "waitPod"
    /\ idx[c] \in ready[c]
    /\ NextPod(c)
    /\ UNCHANGED <<resourceVars, podVars, backupVars, faults>>

\* The pod fails while it is waited for: it is deleted, and the error, which
\* is never errors.PodUpgradeFailed, ends the reconcile.
PodFails(c) ==
    /\ pc[c] = "waitPod"
    /\ InFailureState(Pod(c))
    /\ RemovePod(c)
    /\ Return(c)
    /\ UNCHANGED <<resourceVars, backupVars, faults>>

\* The pod is deleted by someone else while it is waited for.
PodGone(c) ==
    /\ pc[c] = "waitPod"
    /\ Pod(c) = NoVersion
    /\ Return(c)
    /\ UNCHANGED <<resourceVars, podVars, backupVars, faults>>

\* Every pod is as wanted.  If the status says so already there is nothing
\* to write, and no upgrade to end.
PodsDone(c) ==
    /\ pc[c] = "ensurePods" /\ idx[c] = Nodes
    /\ \/ cl[c].ver # cl[c].spec /\ GotoSignal(c, "reconciled", cl[c])
       \/ cl[c].ver = cl[c].spec /\ Return(c)
    /\ UNCHANGED <<resourceVars, podVars, backupVars, faults>>

-----------------------------------------------------------------------------
(* The rest of the world.                                                  *)

\* The operator crashes and starts over, or another call of MaybeReconcile
\* fails: in both cases what was local is lost.
Abort(c) ==
    /\ pc[c] # "idle"
    /\ faults < MaxFaults
    /\ Return(c)
    /\ faults' = faults + 1
    /\ UNCHANGED <<resourceVars, podVars, backupVars>>

SyncCache(c) ==
    /\ cache[c] # api[c]
    /\ cache' = [cache EXCEPT ![c] = api[c]]
    /\ UNCHANGED <<api, conflict, podVars, backupVars, localVars, faults>>

\* A user asks for another version, and the admission webhook agrees.  The
\* webhook does not look at the status: how long users wait is up to them.
UserUpgrade(c, v) ==
    /\ <<api[c].spec, v>> \in Upgradable
    /\ Patience \in {"settled", "status"} => api[c].ver = api[c].spec
    /\ Patience = "settled" => api[c].ann = "none"
    /\ api' = [api EXCEPT ![c].spec = v]
    /\ conflict' = conflict \cup {c}
    /\ UNCHANGED <<cache, podVars, backupVars, localVars, faults>>

\* The kubelet reports a pod ready.
PodBecomesReady(c, i) ==
    /\ pods[c][i] # NoVersion /\ ~InFailureState(pods[c][i])
    /\ i \notin ready[c]
    /\ ready' = [ready EXCEPT ![c] = @ \cup {i}]
    /\ UNCHANGED <<resourceVars, pods, backupVars, localVars, faults>>

\* A pod is deleted by hand, or evicted.
PodVanishes(c, i) ==
    /\ PodsDisturbed
    /\ pods[c][i] # NoVersion
    /\ pods' = [pods EXCEPT ![c][i] = NoVersion]
    /\ ready' = [ready EXCEPT ![c] = @ \ {i}]
    /\ UNCHANGED <<resourceVars, backupVars, localVars, faults>>

\* A pod is not ready any more: its node is cut off, or a probe times out.
PodUnready(c, i) ==
    /\ PodsDisturbed
    /\ i \in ready[c]
    /\ ready' = [ready EXCEPT ![c] = @ \ {i}]
    /\ UNCHANGED <<resourceVars, pods, backupVars, localVars, faults>>

-----------------------------------------------------------------------------

Reconcile(c) ==
    \/ BeginPods(c) \/ BeginBackup(c) \/ BeginCheck(c)
    \/ Patch(c) \/ UpdateStatus(c) \/ UpdateStatusConflict(c)
    \/ \E ns \in NamespacesOf[c] :
         CreateNamespaceBackup(c, ns) \/ BackupAlreadyExists(c, ns)
    \/ BackupsCreated(c)
    \/ BackupsFinished(c) \/ BackupsFailed(c) \/ BackupsPending(c)
    \/ KeepPod(c) \/ PodSkipped(c) \/ PodUnreachable(c) \/ DeleteOutdatedPod(c)
    \/ DeleteIsolatedPod(c) \/ DeleteFailedPod(c) \/ CreatePod(c) \/ PodIsReady(c)
    \/ PodFails(c) \/ PodGone(c) \/ PodsDone(c)

Next ==
    \/ \E c \in Clusters :
         \/ Reconcile(c) \/ PatchClusterFails(c) \/ Abort(c) \/ SyncCache(c)
         \/ \E v \in Versions : UserUpgrade(c, v)
         \/ \E i \in Index : \/ PodBecomesReady(c, i)
                             \/ PodVanishes(c, i)
                             \/ PodUnready(c, i)
    \/ \E b \in BackupName, s \in {"finished", "failed"} : BackupEnds(b, s)

Spec == Init /\ [][Next]_vars

\* The work queue and the 30 s resync of the informers keep every reconcile
\* going, the informer delivers what it watches, backup jobs end, and the
\* kubelet starts what can be started.  Users and faults owe nothing.
Fairness ==
    /\ \A c \in Clusters : WF_vars(Reconcile(c)) /\ WF_vars(SyncCache(c))
    /\ \A c \in Clusters, i \in Index : WF_vars(PodBecomesReady(c, i))
    /\ \A b \in BackupName :
         WF_vars(\E s \in {"finished", "failed"} : BackupEnds(b, s))

FairSpec == Spec /\ Fairness

-----------------------------------------------------------------------------
(* Properties.                                                             *)

\* Every variable has its type.
TypeOK ==
    /\ api \in [Clusters -> Resource]
    /\ cache \in [Clusters -> Resource]
    /\ pods \in [Clusters -> [Index -> VersionOrNone]]
    /\ ready \in [Clusters -> SUBSET Index]
    /\ backups \in [BackupName -> BackupState]
    /\ backupOf \in [BackupName -> Clusters]
    /\ fresh \subseteq BackupName
    /\ pc \in [Clusters -> {"idle", "patch", "updateStatus", "backupCluster",
                            "checkBackups", "ensurePods", "waitPod"}]
    /\ sig \in [Clusters -> Signal]
    /\ cl \in [Clusters -> LocalResource]
    /\ up \in [Clusters -> BOOLEAN]
    /\ idx \in [Clusters -> 0 .. Nodes]
    /\ todo \in [Clusters -> SUBSET Namespaces]
    /\ conflict \subseteq Clusters
    /\ faults \in 0 .. MaxFaults

\* A backup of namespace ns of cluster c was completed since the cluster's
\* .status.version last changed.
BackedUp(c, ns) ==
    \E b \in fresh : b[1] = ns /\ backupOf[b] = c /\ backups[b] = "finished"

\* No pod runs another version than the recorded one before each namespace
\* of its cluster has been backed up (the annotation protocol of
\* MaybeReconcile, isClusterBackupFinished and GetBackupName).
BackupBeforeUpgrade ==
    \A c \in Clusters, i \in Index :
        /\ api[c].ver # NoVersion
        /\ pods[c][i] \notin {NoVersion, api[c].ver}
        => \A ns \in NamespacesOf[c] : BackedUp(c, ns)

\* .status.version tells the version of every pod, unless an upgrade is in
\* progress (updateStatus, and ensurePods with upgrade = nil).
StatusTellsVersion ==
    \A c \in Clusters, i \in Index :
        /\ api[c].ver # NoVersion
        /\ api[c].ann # "started" \/ api[c].ver = api[c].spec
        => pods[c][i] \in {NoVersion, api[c].ver}

\* A failed upgrade is final: nothing the operator does takes the "failed"
\* annotation away or moves a pod (the early return of MaybeReconcile).
FailureIsFinal ==
    [][\A c \in Clusters :
         api[c].ann = "failed" /\ pc[c] = "idle"
         => /\ api'[c].ann = "failed"
            /\ api'[c].ver = api[c].ver
            /\ pc'[c] = "idle"]_vars

\* With at most one failed call or crash, a failed upgrade is reported in
\* the conditions (the two signals of MaybeReconcile, the first of which may
\* fail on its own).
FailureIsReported ==
    \A c \in Clusters :
        faults <= 1 /\ api[c].ann = "failed" /\ pc[c] = "idle"
        => api[c].conds \cap {"AutoBackupFailed", "UpgradeFailed"} # {}

\* Pods are restarted one at a time: once the cluster has been created, at
\* most one of its pods is not ready (createPodWithIndex waits).
OneNodeAtATime ==
    \A c \in Clusters :
        api[c].ver # NoVersion => Cardinality(Index \ ready[c]) <= 1

\* An upgrade comes to an end: the wanted version is recorded and the
\* annotation gone, or the upgrade is marked as failed.
UpgradeEnds ==
    \A c \in Clusters :
        IsUpgrade(api[c])
        ~> \/ ~IsUpgrade(api[c]) /\ api[c].ann = "none"
           \/ api[c].ann = "failed"

=============================================================================
