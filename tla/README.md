# A TLA+ model of aerospike-operator

`aerospike-operator` is a Kubernetes operator: it watches `AerospikeCluster`,
`AerospikeNamespaceBackup` and `AerospikeNamespaceRestore` resources and brings
pods, persistent volume claims and jobs in line with them. Everything it does
is a sequence of calls to the Kubernetes API; it keeps nothing of its own, so
what it knows after a crash is what it has written to annotations, conditions
and `.status`. What is hard is the order of those writes: the operator may stop
between any two of them, it reads from informer caches that lag, and users, the
kubelet and its own controllers act in between.

Paths below are relative to `src/`.

## 1. The system

| Component | State | Operations | Interacts with |
|---|---|---|---|
| Cluster reconciler, upgrades (`pkg/reconciler/cluster.go`, `upgrades.go`, `status.go`, `backups.go`) | the upgrade-status annotation, the conditions and `.status` of an `AerospikeCluster` | `MaybeReconcile`; six `signal*` functions; `patchCluster`; `createNamespaceBackup`, `isClusterBackupFinished` | creates backups, waits for the backup handler, drives the pods |
| Cluster reconciler, pods (`pod.go`, `podutils.go`, `pkg/asutils`) | the pods `<cluster>-<index>` | `ensurePods`: create, delete, upgrade, restart, scale; `ensureClusterSize` | kubelet, the Aerospike nodes |
| Cluster reconciler, volumes (`pvc.go`) | the claims and their `last-unmounted-on` annotation | `getPersistentVolumeClaim`, `createPersistentVolumeClaim`, `signalMounted`, `signalUnmounted` | the garbage collector, through the annotation only |
| Derived resources (`service.go`, `configmap.go`, `networkpolicy.go`, `validation.go`) | services, config map with its hash, network policy | creation, replacement of the config map | pods carry the hash and read the map when they start |
| Versioning (`pkg/versioning`) | none | `IsValid`, `GetStrategy`, the comparisons | admission, reconciler |
| Garbage collector, claims (`pkg/garbagecollector/pvcs.go`) | none | `Handle`: read claim, read pod, delete claim | the reconciler |
| Garbage collector, backups (`asbackups.go`, `gcs.go`) | none | `Handle`: expire by age, delete data, delete resource | backup handler, reconciler |
| Backup and restore handler (`pkg/backuprestore`) | conditions of a backup or restore, its job, copies of secrets | `Handle`, `launchJob`, `maybeSetConditions`, `clearSecrets` | job controller, collector of backups |
| Backup tool (`cmd/backup`, `pkg/backuprestore/gcs`) | the objects of a backup in a bucket | `doBackup`, `doRestore`, and the transfers to and from the bucket | started by a job, again when it fails |
| Controllers and work queue (`pkg/controller`) | rate-limited queues, informers | `runWorker`, `processNextWorkItem`, `enqueue` | all handlers |
| Admission webhook (`pkg/admission`) | a certificate in a secret, the webhook's configuration | `Register`, `Run`, `WaitReady`; the rules on resources | users, other replicas |
| CRDs and conversion (`pkg/crd`) | CRDs, stored objects | `RegisterCRDs`, `ConvertResources` (from v1alpha1) | the webhook admits what is converted |
| Start-up, leader election (`cmd/operator`) | the lease | `main`, `run` | everything above, in order |
| Init tool (`cmd/asinit`) | none | writes `aerospike.conf` from the config map | every pod |

**Hard behaviours.** A crash between two writes of the upgrade protocol or of a
claim's annotation; a user who changes `.spec.version` at an unexpected moment;
reconciles of two clusters that meet in the name of a backup; the claim that
the collector is about to delete while the reconciler mounts it; a cached copy
that is older than the decision taken on it; a pod that never starts; a handler
whose error nobody retries; a stream that is cut and looks complete; replicas
that write one certificate and one configuration at once; a resource written
between its listing and its conversion; a pod deleted while its data is on the
move.

**What makes the components correct.** Upgrades: no pod changes its version
before the cluster is backed up, the status tells what runs, a failure is
reported and final, every upgrade ends, pods are restarted one at a time.
Volumes: a mounted claim is never collected, only expired claims are, a pod
finds its data again, the claims of different storage formats are kept apart,
unused claims go. Versioning: clusters only move forwards, backup names are not
used twice, volumes are replaced exactly when the storage format changes.
Backups: one job per request, whose outcome and no other is reported; a finished
backup is in the bucket; every request ends; expired backups go with their data;
no copy of a credential is left over. Start-up: resources are converted before
controllers run, the stored versions tell the truth, certificates agree,
controllers and webhook come up whatever happens. Scaling: the data stays
available, the status is earned, and the cluster becomes what was asked for.

## 2. Plan

The order follows the importance of the behaviour. Done:

1. `ClusterReconciler`: the upgrade protocol (with `UpgradeInvariant` and the
   proof modules).
2. `Versioning`: which upgrades there are, how they are named.
3. `PodVolumes`: claims between reconciler and garbage collector.
4. `BackupTool` and `BackupRestore`: the tool, the handler, the work queues and
   the collector of backups; `BackupRequest` is what they implement.
5. `ClusterScaling`: scaling by index, rolling restarts, `ensureClusterSize`
   under partitions, the derived objects.
6. `OperatorStart`: replicas, webhook, definitions, conversion.

7. The proofs, a module for each of them: every safety invariant, every action
   property and the refinement that a run checks is a theorem now (section 6).

To do:

8. Weaker assumptions where the code allows it: several resources under one name
   in `BackupRestore`, as long as the job of the last one is collected first;
   `OneNodeAtATime` with faults that do not hit a reconcile that waits for a pod.
9. The queues of the cluster controller, and the admission rules that compare
   two specs.

## 3. The modules

### ClusterReconciler

One action is one call to the API server (or one answer of it); `pc[c]` says
where `MaybeReconcile` for cluster `c` is, and `cl`, `up`, `idx`, `todo`, `sig`
are its local variables. `api` is the stored resource, `cache` the copy of the
informer.

| Model | Code |
|---|---|
| `BeginPods`, `BeginBackup`, `BeginCheck` | the copy from the lister and the branches on the annotation, `cluster.go:69-136` |
| `Signalled`, `NewAnnotation`, `NewConditions`, `NewVersion` | what the `signal*` functions and `updateStatus` do to the local copy |
| `Patch`, `UpdateStatus`, `UpdateStatusConflict`, `PatchClusterFails` | `patchCluster`: a merge patch (annotation), then `UpdateStatus` with the resource version the patch returned |
| `AfterSignal`, `SignalError` | what `MaybeReconcile` does after a signal, or its error: only that of `signalBackupFailed` is ignored |
| `CreateNamespaceBackup`, `BackupAlreadyExists`, `BackupsCreated` | `backupCluster` |
| `BackupsFinished`, `BackupsFailed`, `BackupsPending` | `isClusterBackupFinished` and the switch on its result |
| `KeepPod` ... `PodsDone` | one turn of the loop of `ensurePods`; `waitPod` is the wait in `createPodWithIndex` |
| `Abort` | a crash, or an error of a call that has no action of its own (validation, services, config map) |
| `UserUpgrade` | a change of `.spec.version` that the webhook admits |
| `PodBecomesReady`, `PodVanishes`, `PodUnready`, `BackupEnds` | kubelet, other users, the backup handler |

Abstractions. Conditions are a set (in the code a list that grows). A pod is
the version it runs; it is ready or not, and one that is not ready may or may
not answer the reconciler's questions, so both outcomes are actions. A pod is
in a failure state when its version is one of `BrokenVersions` (image errors, a
container that ends at once; `RestartPolicy: Never`). Which namespace is backed
up first is left open. Scaling and configuration changes do not occur in this
module. `fresh` is a history variable: the backups made since `.status.version`
of their cluster last changed.

Three constants say what the surroundings do, so that properties which need
good surroundings can be told from those that do not:

* `Patience`: users ask for a version when the last upgrade has settled
  (`"settled"`: status and spec agree, no annotation), when the status has
  caught up (`"status"`), or at any time (`"none"`). The webhook compares
  specs, not the status, so it enforces none of the three.
* `FreshReads`: a reconcile starts from an up-to-date cached copy.
* `PodsDisturbed`: pods vanish or become unready on their own.

`UpgradeInvariant` holds the inductive invariant `BackupInv`, checked by TLC
and used by the proofs. `MCClusterReconciler` gives the constants values.

### Versioning

Versions are records of four numbers. `isDowngrade` ... `IsValid` and
`RecreatePersistentVolumeClaims` (`GetStrategy`) are the Go functions, the
comparison of the target's revision with itself included. `WithoutDots` models
what `strings.Replace(version, ".", "", -1)` does to the decimal notation: the
number that is left. `ChangeVersion` is an admitted change of `.spec.version`.
Parsing of version strings is left out. `MCVersioning` has the fifteen supported
versions of `versions.go`, and four others for users to ask for.

### PodVolumes

The claims of one pod of a cluster with one namespace (the limit the webhook
sets), by order of creation. `age` is the time since `last-unmounted-on` in
ticks, `-1` without the annotation. `Start*` is the branch `ensurePods` takes
for the pod, `Unmount`/`DeletePod` are `deletePod`, `GetClaim`/`Mount`/
`CreateClaim`/`CreatePod`/`WaitEnds`/`PodFails` are `createPodWithIndex`;
`GCBegin`/`GCGetPod`/`GCDelete` are the three steps of `PVCsHandler.Handle`. A
claim that is deleted while a pod mounts it stays, being deleted, until the pod
goes (the finalizer of Kubernetes). `Events` selects what may happen; `"slow"`
lets the clock tick between the choice of a claim and the creation of the pod,
`"lag"` lets the informer be behind when it is read.

### BackupTool, BackupRestore, BackupRequest

`BackupTool` is the Kubernetes job and what its pods run. A pod is at `"meta"`
(before the metadata is written or read), `"data"` (before the transfer),
`"exit"` or `"dead"` (`asbackup` or `asrestore` has ended badly, which
`cmd.Wait` will tell); a failed pod is replaced until the backoff limit.
`Losses` selects what goes wrong. The stream of an `asbackup` that dies ends
like a complete one: the object is there, and only partly so (`TransferCut`).

`BackupRestore` composes it with two controllers and the garbage collector, for
the resources of one name: a request is `<<kind, n>>`, the n-th resource of that
kind under the name. `res` and `job` are what the API server has, `seen` and
`seenJob` the informers' copies, `queue` the keys, `pc[c]` where the worker of
controller `c` is and `obj[c]` its copy of the resource.

| Model | Code |
|---|---|
| `ResourceEvent`, `JobEvent`, `Resync` | the event handlers of `pkg/controller/backup.go`, `restore.go` and `garbagecollector.go` |
| `Get`, `Return` | `processNextWorkItem`; after an error the key is not added again |
| `HandleEnded`, `HandleRunning`, `HandleNothing` | the branches of `Handle` (`handler.go:65-125`) up to its first write |
| `GetSecret`, `CreateJob`, `JobAlreadyExists`, `UpdateStatus`, `UpdateStatusConflict`, `ClearSecrets` | the calls that follow, one action each |
| `BeginCollect`, `CollectNothing`, `DeleteBackupData`, `DeleteBackup` | `Handle` of `asbackups.go` |
| `CallFails`, `DataNotDeleted`, `Crash` | failed calls and a crash of the operator |
| `Panic` | the nil `backupSpec` at `handler.go:98` and `asbackups.go:99`, which ends the process |
| `Create`, `EditCluster`, `UserDeletes` | users, as far as the webhook admits them |

`panicked` is a history variable: a panic is no fault that is counted, but
properties about calls that all went through must exclude it.

The target's cluster is its `backupSpec`, or `Gone`. A TTL has passed or not
(`Expire`). Data is none, partial or full.

`BackupRequest` is the promise: one operation per resource, started once while
the resource exists, whose own outcome is reported, for good. The refinement
mapping reads the report off the conditions (`ReportOf`) and takes `ran`, the
history of the jobs, for the operation.

### ClusterScaling

One cluster without upgrades. `pod[i]` has a state, the hash it was created with
and the configuration it has read; `Absent` is no pod. `ScaleDown` to
`ScaledDown`, and `DeleteFailedPod` to `PodIsReady`, are the two loops of
`ensurePods`; `Deletable` is what `safeDeletePodWithIndex` waits for. The
data is one record: `view[i]` is the cluster as node `i` knows it, the first
`ReplicationFactor` nodes of a view by `rank` own the record, and `Migrate`
brings it to an owner that lacks it. A restarted pod finds its copy again (that
it does is `DataIsKept` of `PodVolumes`); the copy of a pod that was scaled down
is given up. The nodes' part is external: how Aerospike behaves is read off
what the operator asks of it (`podHasMigrationsInProgress`, `GetClusterSize`).

`Calm`: users change the spec when the cluster is as they asked for, and no pod
is lost while one is to be removed. `Prompt`: Aerospike notices that a node is
gone before the operator asks for migrations, and a pod that can start does so
within the minute that `ensureClusterSize` waits. `Bypass`: users scale past the
webhook. The runs assume the first two and not the third; section 5 shows what
each costs.

### OperatorStart

Each replica goes through `pc[r]`: `Register` (`EnsureTLSSecret`,
`CreateWebhookConfig`, `UpdateWebhookConfig`), the election (`Acquire`), then
`run`: `CreateCRD`/`UpdateCRD`/`AwaitCRD` per definition, `WaitReady`,
`ListObjects`/`ConvertObject`/`DropStoredVersion` per definition, and the
controllers (`"running"`). `hook[r]` is its webhook, which starts beside that.
A certificate is named after the replica that has made it. `got` and the pairs
in `todo` hold resource versions: a write of a stale copy is refused, and every
error that the code returns ends the process (`Exit`). Errors that it does not
return are in `Failures`. The election is that of client-go, by its promise,
without its clocks: a leader that is late may go on beside its successor.

## 4. What is checked

| Run | Instance | Shows |
|---|---|---|
| `UpgradeSafety` | 1 cluster, 2 namespaces, 2 nodes, 3 versions (one broken), 2 faults, disturbed pods, settled users | `TypeOK`, `BackupInv`, `BackupBeforeUpgrade`, `StatusTellsVersion`, `FailureIsReported` (after one fault at most), `FailureIsFinal` |
| `RollingUpgrade` | 3 nodes, 3 versions, no faults, users who wait for the status only | under fairness `UpgradeEnds` |
| `StaleReads` | 3 nodes, 3 versions (one broken), an informer cache that lags arbitrarily, users who do not wait | `OneNodeAtATime` |
| `VersionChanges` | all supported versions, up to 4 upgrades in a row | `TypeOK`, `NamesAreUnique`, `NeverBackwards`, `RecreatesAcross42` |
| `VolumeSafety` | time to live of 2 ticks, 3 claims, 3 requests, 1 failing pod | `TypeOK`, `MountedIsKept`, `DeletesExpiredOnly`, `DataIsKept`; under fairness `UnusedGoes` |
| `VolumeFaults` | every event, 2 faults, lagging informer, clock that ticks at any time | `LeaksBounded`: a fault costs one claim at most |
| `BackupSafety` | 1 backup, 1 bucket, a backoff limit of 1, an `asbackup` that dies, 1 change of `backupSpec`, 1 fault | `TypeOK`, `FinishedIsUploaded`, `StartedIsKept`, `DataGoesWithBackup`; under fairness `ExpiredGoes` |
| `RestoreEnds` | 1 restore with 2 names for temporary secrets, pods that are lost or cut, a user who deletes it, 1 change of `backupSpec`, 1 fault | `SecretIsMounted`, the refinement `OneJobPerRequest`; under fairness `EveryRequestEnds`, `SecretsGo` |
| `OperatorStart` | 2 replicas, 2 definitions with a resource each, 1 write, 1 fault (a crash, a shutdown, a late leader or a webhook that cannot listen) | `TypeOK`, `StoredVersionsTell`, `CertificatesMatch`, `ConvertedFirst`; under fairness `ControllersRun`, `WebhookServes` |
| `Scaling` | 2 or 3 nodes, replication factor 2, 2 configurations, 1 change, 1 fault, 1 lost pod or partition | `TypeOK`, `DataStaysAvailable`, `StatusIsEarned`; under fairness `Converges`; no deadlock |
| `StaleAnnotation` | 3 versions, 1 crash, users who wait for the status only | violation of `BackupBeforeUpgrade` |
| `ScaleUpAfterUpgrade` | scale down, upgrade, scale up | violation of `FormatsApart` |

**Bounds.** Three versions are the fewest with two upgrades in a row, which
stale annotations and reused backup names need; two nodes the fewest with a
mixed cluster, three the fewest where two pods could be down and one not. Two
namespaces make "all backups" differ from "a backup". Two faults let a crash
hit the recovery from a crash. Three claims are one more than an upgrade uses;
a time to live of two ticks has an age that is neither fresh nor expired.

A backoff limit of one has a pod that is replaced and one that is not. One
resource under a name is what the refinement can promise (section 5 has what a
second one does). With two buckets the backup's invariants and
`DataGoesWithBackup` hold as well; that instance is not kept as a run because
its several million states take too long together with fairness. Two replicas are
the fewest that race, two definitions the fewest with a "next" one, and one
write is enough to come between any two steps of a converter. Three nodes with
two copies have a node without one, so that migrations and their direction
matter; `rank` takes every order.

**Fairness** (`Fairness` or `FairSpec` of each module). Weak fairness of the
reconcile of each cluster, or of each worker: a worker takes a key again after
every event and after every 30 s resync of the informers. In `BackupRestore`
nothing else is assumed of retries: the queue, the events and the resync are
modelled, and only the resync brings a key back after an error. Weak fairness
of informers, kubelet, job controller, Kubernetes' own collector, migrations and
clock, for what they can do. In `OperatorStart` Kubernetes restarts processes
that have ended and kills those it has told to stop, and a webhook that is about
to listen again and again comes to do so (strong fairness of `Serve`: the
restarts of a process that fails early are delayed more and more, so that it is
not always too late). No fairness for users and faults. Deadlock is checked in
`Scaling`, where the reconciler never rests; elsewhere a system with nothing
left to do may stop.

## 5. Where the code and its documents disagree

The runs above that end in a violation, each quoted in `PROJECT.json`:

* *StaleAnnotation.* The new version is recorded in `.status` before
  `signalUpgradeFinished` removes the annotation. A crash in between leaves
  `started` behind; the next upgrade finds it and moves pods without a backup.
* *ScaleUpAfterUpgrade.* A missing pod is created without the upgrade, and so
  without its strategy: it reuses a claim of the old storage format.

Relaxing a constant of a passing run shows why it has the value it has:

| Change | Property that no longer holds | Because |
|---|---|---|
| `UpgradeSafety`: `Patience = "none"` | `StatusTellsVersion` | while `.status.version` is empty a change of version is not an upgrade (`cluster.go:88`) |
| `UpgradeSafety`: `FreshReads = FALSE` | `FailureIsFinal`, `BackupBeforeUpgrade` | annotation and versions are looked for in a cached copy (`cluster.go:75`) |
| `UpgradeSafety`: two clusters, `SharedNames = TRUE` | `BackupBeforeUpgrade` | the name of a pre-upgrade backup has no trace of the cluster (`backups.go:123`): the second gets `AlreadyExists` and takes the backup of the first for its own |
| `StaleReads`: `MaxFaults = 1` | `OneNodeAtATime` | a pod that answers with the target version counts as upgraded (`upgrades.go:53`); only the reconcile that created it waits for it to be ready |
| `RollingUpgrade`: `BrokenVersions = {2}` | `UpgradeEnds` | no function returns `errors.PodUpgradeFailed` (`cluster.go:176`): an upgrade whose pods cannot start is tried again for ever, though `docs/usage/40-upgrading-clusters.adoc:272` promises a condition |
| `RollingUpgrade`: `MaxFaults = 1` | `UpgradeEnds` | a crash between `signalBackupStarted` and the creation of the backup (`cluster.go:109`): nobody creates it any more |
| `VolumeSafety`: with `"slow"` | `MountedIsKept` | expiration is checked before the claim is mounted, and the collector may check it after that (`pvc.go:102`) |
| `VolumeSafety`: with `"abort"` | `DataIsKept`, `DeletesExpiredOnly` | a crash between `signalMounted` and the creation of the pod, or between `signalUnmounted` and its deletion, leaves the annotation wrong |
| `VolumeSafety`: with `"vanish"` | `DataIsKept`, `UnusedGoes` | only `deletePod` sets the annotation |
| `BackupSafety`: `Losses` with `"close"` | `FinishedIsUploaded` | `defer w.Close()` (`gcs.go:103`) drops the error with which an upload fails, and the job succeeds; `docs/usage/20-backing-up-namespaces.adoc:146` says that `BackupFinished` means uploaded |
| `RestoreEnds`: `MaxUids = 2`, `MaxResources = 2` | `OneJobPerRequest` | the job is looked up by name (`handler.go:106`): a request that takes the name of a deleted one reports the outcome of that one's job |
| `OperatorStart`: `Failures = {"create"}`, 2 faults | `StoredVersionsTell` | `createCRD` returns no error when it cannot fetch the definition (`registry.go:94`), so a late leader and its successor may disagree on the storage version |
| `OperatorStart`: `Failures = {"convert"}` | `ConvertedFirst` | a converter that cannot list resources returns no error (`converters/v1alpha2/cluster.go:59`) |
| `OperatorStart`: 2 faults | `WebhookServes` | a webhook that cannot listen is only logged (`webhook.go:164`): when both fail, no resource can be written |
| `Scaling`: `Calm = FALSE` | `Converges` | a failed pod above the wanted size ends every reconcile (`pod.go:82`), and one missing below it leaves the largest index over (`pod.go:77`) |
| `Scaling`: `Prompt = FALSE` | `DataStaysAvailable` | migrations are asked for once (`pod.go:635`), perhaps before the mesh has noticed the deletion before; and `ensureClusterSize` expects pods in the mesh that have only been created |
| `Scaling`: `MaxFaults = 2`, without the bound on faults in the property | `DataStaysAvailable` | a pod that a crash has left pending cannot start when the config map is deleted; `ensureClusterSize` (`pod.go:748`) then takes the last pod with a copy for an isolated one and deletes it |
| `Scaling`: `ReplicationFactor = 1` | `DataStaysAvailable` | a restarted pod takes the only copy with it until it is back |
| `Scaling`: `Bypass = TRUE` | `Converges` | a node count below the replication factor ends the reconcile without an error (`validation.go:40`) |

The collector looks at the age of a backup and not at its conditions
(`asbackups.go:95`), so it also deletes backups whose job still runs;
`docs/design/architecture.adoc:101` has it look for "completed backup jobs".
`DataGoesWithBackup` is therefore about backups that had ended.

`isDowngrade` (`upgrade.go:34`) compares the target's revision with itself; the
rules on upgrades do not depend on it there, and `NeverBackwards` holds, as is
proved.

## 6. What is proved

All proofs are for every value of the constants that satisfies the named
assumption of each module (`ConstantsAssumption`, `VersioningAssumption`,
`VolumesAssumption`, `ToolAssumption`, `HandlerAssumption`, `StartAssumption`,
`ScalingAssumption`): any number of clusters, nodes, versions, claims, buckets,
replicas, resources, changes and faults. Where a theorem needs more, it says so,
and the run that checks the property has the same premise; section 5 tells for
most of these premises how the code breaks a property without them.

| Theorem | Property | Needs |
|---|---|---|
| `ClusterReconcilerProofs!TypeCorrect` | `TypeOK` | |
| `ClusterReconcilerProofs!FailureStays` | `FailureIsFinal` | `FreshReads` |
| `UpgradeProofs!UpgradeInvariantHolds`, `UpgradeIsSafe`, `StatusIsTrue` | `BackupInv`, `BackupBeforeUpgrade`, `StatusTellsVersion` | `Assumed` |
| `RolloutProofs!OneAtATime` | `OneNodeAtATime` | no faults, pods that do not go on their own; any users, any reads, any broken versions |
| `RolloutProofs!FailuresAreReported` | `FailureIsReported` | fresh reads, users who wait for the status |
| `VersioningProofs!AlwaysSupported`, `ForwardsOnly`, `VolumesRecreatedAcross42` | `TypeOK`, `NeverBackwards`, `RecreatesAcross42` | |
| `VersioningProofs!NamesStayUnique` | `NamesAreUnique` | `ShortVersions`: numbers of one digit, the revision of one or two, as all the supported ones have |
| `PodVolumesProofs!TypeCorrect`, `LeaksAreBounded` | `TypeOK`, `LeaksBounded` | |
| `PodVolumesProofs!MountedIsAlwaysKept`, `OnlyExpiredIsDeleted` | `MountedIsKept`, `DeletesExpiredOnly` | no `"abort"`, `"slow"`, `"lag"` in `Events` |
| `PodVolumesProofs!DataIsAlwaysKept` | `DataIsKept` | nor `"vanish"` |
| `BackupRestoreProofs!TypeCorrect` | `TypeOK` | |
| `BackupRestoreProofs!HandlerImplementsRequests`, `SecretsStayMounted`, `StartedStays` | `OneJobPerRequest` (the refinement), `SecretIsMounted`, `StartedIsKept` | a name that is used once (`MaxUids = 1`) |
| `BackupRestoreProofs!FinishedStaysUploaded`, `DataGoes` | `FinishedIsUploaded`, `DataGoesWithBackup` | also no `"close"` in `Losses`; `DataGoes` also that there are backups |
| `OperatorStartProofs!TypeCorrect`, `CertificatesAlwaysMatch` | `TypeOK`, `CertificatesMatch` | |
| `OperatorStartProofs!StoredVersionsAlwaysTell` | `StoredVersionsTell` | no `"create"` in `Failures` |
| `OperatorStartProofs!ConversionComesFirst` | `ConvertedFirst` | nor `"convert"` |
| `ClusterScalingProofs!TypeCorrect` | `TypeOK` | |
| `ClusterScalingProofs!StatusEarned` | `StatusIsEarned` | `Calm` |
| `ClusterScalingProofs!DataStays` | `DataStaysAvailable` | `Calm`, `Prompt`, no `Bypass`, `ReplicationFactor # 1` |

`Assumed` has four parts: settled users, fresh reads, `ForwardOnly` (upgrades go
to later versions: `ForwardsOnly` of `VersioningProofs` discharges it for the
webhook), and `DistinctNames` (no two clusters of a Kubernetes namespace have an
Aerospike namespace of one name).

None of the properties is inductive. The invariants that are, each checked by
TLC before it was proved:

**Upgrades.** `BackupBeforeUpgrade` says nothing of a reconcile that is about to
create a pod. `BackupInv` adds what each point of `MaybeReconcile` relies on.
`BackupsBelong` ties a backup to the cluster that made it and says that one made
from the recorded version is fresh; here `ForwardOnly` is needed, because a name
that came back would bring an old backup with it. `ResourceOK` says what
annotation and status tell of the pods: pods of two versions occur only under
`started`, and then the backups of that very upgrade are finished. `SignalOK`
says for each of the two calls of `patchCluster` which annotation is stored and
which one the local copy has, and `LoopOK` that the pods before the loop index
have the target version. There is a lemma per action for the cluster that acts,
and one (`Frame`) for the others: they notice nothing but that backups, once
finished, stay so.

**Rollouts.** `OneNodeInv` holds at any staleness because it is about what the
loop of `ensurePods` has seen itself: a pod that exists is ready unless it is
the one that is waited for (`PodsUp`), the loop leaves only ready pods behind,
and an upgrade that has come past pod 0 is to a version that runs
(`LoopInOrder`). So, once a version is recorded, which no stale copy undoes
(`Recorded`), the only pod that is not ready is the one at the index, or pod 0,
with which an upgrade to a broken version ends (`OneDown`). For
`FailureIsReported`, `ReportInv` follows the two signals of a failed backup: the
second one carries the condition of the first again, so that it takes two faults
to lose both (`Reporting`); no reconcile works on a failed upgrade but the one
that marks it (`LeavesFailed`); and nobody changes the resource between its
calls (`Undisturbed`), which is where users who wait for the status are needed.

**Versions.** The name of a backup is made of the digits of two versions without
the dots. With one digit each, major, minor and patch number give three digits,
and a revision of one or two digits makes numbers of different lengths, so the
version can be read off (`DotsAreRedundant`). Every backup so far was made of an
earlier version than the current one (`EarlierInv`), hence has another name.

**Volumes.** `MountInv` relates the steps of the reconciler and of the
collector: the claim that is about to be mounted is bound, marked and not
expired, the claim of a pod has no mark unless the pod is being deleted, and the
claim that the collector handles has expired, so that it is neither of the two.
`DataInv` says that earlier claims are older (`OrderInv`) and that the claim of
the last pod is the last one (`LastInv`), so that the maximum that
`getPersistentVolumeClaim` takes is the claim with the data or, when that one
has expired, there is none. `LeakInv` counts the claims without mark at every
step of the reconciler and not only at rest.

**Backups.** `RequestInv` ties the resource, its job, the history of the job and
every copy: nothing is known of a resource before its creation (`Unborn`); while
it exists its job does (`LaunchInv`), what a copy tells is true (`TellInv`), and
a copy of the current version has all the conditions of the resource
(`FollowInv`), so that a write takes none away. A step changes one kind of
resources and is quiet for the other (`OneKindChanges`). The refinement is by
cases of that step (`ChangeSimulates`). `SecretInv`, `StartedInv`, `UploadInv`,
`StorageInv` and `TidyInv` are on top of it, and use lemmas that say which steps
write which variable (`Frames`). `TidyInv` is why the order of the two writes of
the tool matters to the collector: there is no data without metadata, until the
collector has deleted both, when a job that has ended writes no more.

**Start-up.** `CertificateInv` says that every certificate in use is the one of
the secret, and that the configuration has been written before a webhook starts.
`VersionInv` says that a leader has made every definition new before it converts
(`Progress`), after which nothing is written as v1alpha1, and that the list of a
converter holds, as they are now, all resources of its kind that are still
stored as v1alpha1 (`Listed`): for each of several leaders at once.
`ConvertedInv` adds that the converters before the current one have left none.

**Scaling.** `ScalingInv` is about states in which no pod has been lost.
`NoGaps` says that pods above the wanted size come with all those below, so that
their number tells the largest index, on which `ensurePods` relies; `StaleIsIdle`
that a reconcile with an outdated copy of the spec finds nothing to do, because
users have waited; `PodsInOrder` that the loop leaves ready pods with the wanted
configuration behind. For the data, `DataInv` adds that pod 0 is not alone when
its turn comes (`FirstIsNotAlone`), and `FaultsCounted`, that it takes two
faults for a pod to be left pending and the config map to be lost. With two
nodes and a factor of two there are two owners (`TwoOwners`), so a pod without
migrations is not the only one with a copy (`AnotherCopy`).

Proving changed the models in four places. `ReportOf` was a `CASE` with
overlapping guards. `StartedIsKept` and `DataGoesWithBackup` did not exclude a
panic between two calls. In `ClusterScaling` a pending pod that cannot start, as
its config map is gone, kept `ensureClusterSize` from deleting the pod at hand,
which the code does after its minute; with two faults that was a deadlock of the
model. With it corrected, `DataStaysAvailable` holds after one fault at most.

**Only model-checked.** Liveness, which is beyond this prover: `UpgradeEnds`,
`UnusedGoes`, `EveryRequestEnds`, `SecretsGo`, `ExpiredGoes`, `ControllersRun`,
`WebhookServes`, `Converges`. Among the safety properties none is left, except
that the theorems about `BackupRestore` are for a name that is used once (the
runs have no more, either).

## 7. What is not modelled

* The delays of the rate limiter, and the queues of the cluster controller and
  of the collector of claims: what `BackupRestore` shows of the one generic
  controller is assumed of them.
* Admission rules that compare two specs field by field (names, sizes, immutable
  fields), the existence of storage classes, parsing of version strings.
* Contents: `aerospike.conf`, the schemas of the definitions, sizes and classes
  of volumes, labels, events, metrics, logging.
* A backup under an upgrade: `ClusterReconciler` takes only its outcome from the
  handler (`BackupEnds`), which is what `BackupRequest` promises.
* API types, generated clients and deep copies: declarations.
