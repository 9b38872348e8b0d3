--------------------------- MODULE UpgradeProofs ---------------------------
(***************************************************************************)
(* Backup before upgrade, for every number of clusters, nodes, versions    *)
(* and faults: the invariant of UpgradeInvariant is inductive, and implies *)
(* the two safety properties of an upgrade.                                *)
(***************************************************************************)
EXTENDS ClusterReconcilerProofs, UpgradeInvariant

\* The pods of d stay, or go.
NoNewPods(d) == \A i \in Index : pods'[d][i] \in {pods[d][i], NoVersion}

\* The step leaves cluster d and its reconcile alone, but for pods that go.
Alone(d) ==
    /\ api'[d] = api[d] /\ NoNewPods(d)
    /\ pc'[d] = pc[d] /\ sig'[d] = sig[d] /\ cl'[d] = cl[d]
    /\ up'[d] = up[d] /\ idx'[d] = idx[d]

\* A finished backup stays finished.
Monotone ==
    \A b \in BackupName : backups[b] = "finished" => backups'[b] = "finished"

\* The versions of a resource.
LEMMA ApiVersions ==
    ASSUME TypeOK, NEW d \in Clusters
    PROVE  /\ api[d] \in Resource
           /\ api[d].spec \in Versions
           /\ api[d].ver \in Versions \cup {NoVersion}
           /\ cl[d] \in LocalResource
<1>1. api[d] \in Resource /\ cl[d] \in LocalResource
  BY DEF TypeOK
<1>2. QED
  BY <1>1 DEF Resource, VersionOrNone

\* An upgrade that has its backups keeps them.
LEMMA CoveredStays ==
    ASSUME Monotone, NEW d \in Clusters, NEW f \in Versions, NEW t \in Versions,
           Covered(d, f, t)
    PROVE  Covered(d, f, t)'
<1>1. \A ns \in NamespacesOf[d] : <<ns, f, t>> \in BackupName
  BY ConstantsAssumption DEF BackupName
<1>2. QED
  BY <1>1 DEF Covered, Monotone

\* What a resource says of its pods stays true when pods go and backups end.
LEMMA ResourceStays ==
    ASSUME TypeOK, NEW d \in Clusters, ResourceOK(d),
           api'[d] = api[d], NoNewPods(d), Monotone
    PROVE  ResourceOK(d)'
<1>1. ASSUME Covered(d, api[d].ver, api[d].spec), api[d].ver # NoVersion
      PROVE  Covered(d, api[d].ver, api[d].spec)'
  BY <1>1, ApiVersions, CoveredStays
<1>2. QED
  BY <1>1 DEF ResourceOK, PodsAmong, NoNewPods

\* A step that leaves a cluster and its reconcile alone, and no backup
\* unfinished that was finished, keeps the invariant of that cluster.
LEMMA Frame ==
    ASSUME TypeOK, NEW d \in Clusters, ResourceOK(d), LocalOK(d),
           Alone(d), Monotone
    PROVE  ResourceOK(d)' /\ LocalOK(d)'
<1>1. ResourceOK(d)'
  BY ResourceStays DEF Alone
<1>2. SignalOK(d) => SignalOK(d)'
  BY ApiVersions, CoveredStays
     DEF Alone, NoNewPods, SignalOK, Upgrading, SameVersions, PodsAmong, NewAnnotation
<1>3. LoopOK(d) => LoopOK(d)'
  BY DEF Alone, NoNewPods, LoopOK, Upgrading, SameVersions
<1>4. QED
  BY <1>1, <1>2, <1>3 DEF Alone, LocalOK, Upgrading, SameVersions

-----------------------------------------------------------------------------
(* The steps of the reconcile of one cluster.                              *)

\* The start of MaybeReconcile: an up-to-date copy is what SignalOK, LoopOK
\* and the check of the backups rely on.
LEMMA BeginSafe ==
    ASSUME Assumed, TypeOK, NEW c \in Clusters, ResourceOK(c), LocalOK(c),
           BeginPods(c) \/ BeginBackup(c) \/ BeginCheck(c)
    PROVE  ResourceOK(c)' /\ LocalOK(c)'
<1> USE DEF resourceVars, podVars, backupVars
<1>1. PICK p \in {"ensurePods", "patch", "checkBackups"}, s \in Signal : Begin(c, p, s)
  BY DEF BeginPods, BeginBackup, BeginCheck, Signal
<1>2. ResourceOK(c)'
  BY <1>1, ResourceStays DEF Begin, NoNewPods, Monotone
<1>3. cache[c] = api[c] /\ api[c].ann # "failed"
  BY <1>1 DEF Begin, Assumed
<1>4. cl'[c] = api[c] /\ api'[c] = api[c] /\ up'[c] = IsUpgrade(api[c])
  BY <1>1, <1>3 DEF Begin, TypeOK
<1>5. api[c].spec # NoVersion /\ api[c].ann \in Annotation
  BY ApiVersions, ConstantsAssumption DEF Resource
<1>6. CASE BeginPods(c)
  <2>1. pc'[c] = "ensurePods" /\ idx'[c] = 0 /\ pods' = pods
    BY <1>6 DEF BeginPods, Begin, TypeOK, LocalOK
  <2>2. IsUpgrade(api[c]) => api[c].ann = "started"
    BY <1>3, <1>5, <1>6 DEF BeginPods, Annotation
  <2>3. \A i \in Index : ~(i < 0)
    BY DEF Index
  <2>4. ASSUME IsUpgrade(api[c]) PROVE LoopOK(c)'
    <3>1. up'[c] = TRUE
      BY <1>4, <2>4
    <3>2. Upgrading(c, "started")'
      BY <1>4, <2>2, <2>4, <3>1 DEF Upgrading, SameVersions, IsUpgrade
    <3>3. QED
      BY <1>4, <1>5, <2>1, <2>2, <2>3, <2>4, <3>1, <3>2 DEF LoopOK
  <2>5. ASSUME ~IsUpgrade(api[c]) PROVE LoopOK(c)'
    <3>1. up'[c] = FALSE
      BY <1>4, <2>5
    <3>2. QED
      BY <1>4, <1>5, <2>1, <2>5, <3>1 DEF LoopOK, SameVersions, IsUpgrade, ResourceOK
  <2>6. LoopOK(c)'
    BY <2>4, <2>5
  <2>7. QED
    BY <1>2, <2>1, <2>6 DEF LocalOK
<1>7. CASE BeginBackup(c)
  <2>1. pc'[c] = "patch" /\ sig'[c] = "backupStarted"
    BY <1>7 DEF BeginBackup, Begin, TypeOK
  <2>2. IsUpgrade(api[c]) /\ api[c].ann = "none"
    BY <1>3, <1>7 DEF BeginBackup
  <2>3. SignalOK(c)'
    BY <1>4, <2>1, <2>2 DEF SignalOK, Upgrading, SameVersions, IsUpgrade
  <2>4. QED
    BY <1>2, <2>1, <2>3 DEF LocalOK
<1>8. CASE BeginCheck(c)
  <2>1. pc'[c] = "checkBackups"
    BY <1>8 DEF BeginCheck, Begin, TypeOK
  <2>2. IsUpgrade(api[c]) /\ api[c].ann = "backup"
    BY <1>3, <1>8 DEF BeginCheck
  <2>3. QED
    BY <1>2, <1>4, <2>1, <2>2 DEF LocalOK, Upgrading, SameVersions, IsUpgrade
<1>9. QED
  BY <1>6, <1>7, <1>8

\* The end of a reconcile leaves nothing to rely on.
LEMMA ReturnSafe ==
    ASSUME TypeOK, NEW c \in Clusters, ResourceOK(c), Return(c),
           api'[c] = api[c], NoNewPods(c), Monotone
    PROVE  ResourceOK(c)' /\ LocalOK(c)'
<1>1. ResourceOK(c)'
  BY ResourceStays
<1>2. pc'[c] = "idle" /\ idx'[c] = 0
  BY DEF Return, TypeOK
<1>3. QED
  BY <1>1, <1>2 DEF LocalOK

\* The merge patch changes the annotation, and only as the signal says.
LEMMA PatchSafe ==
    ASSUME TypeOK, NEW c \in Clusters, ResourceOK(c), LocalOK(c), Patch(c)
    PROVE  ResourceOK(c)' /\ LocalOK(c)'
<1> USE DEF resourceVars, podVars, backupVars
<1> DEFINE a == NewAnnotation(sig[c], cl[c])
<1>1. pc[c] = "patch" /\ pc'[c] = "updateStatus" /\ SignalOK(c)
  BY DEF Patch, LocalOK, TypeOK
<1>2. sig' = sig /\ cl' = cl /\ up' = up /\ pods' = pods /\ backups' = backups
  BY DEF Patch
<1>3. /\ api'[c] = IF a = cl[c].ann THEN api[c] ELSE [api[c] EXCEPT !.ann = a]
      /\ a \in Annotation
  BY ApiVersions DEF Patch, Patched, Signalled, TypeOK, NewAnnotation, LocalResource, Annotation
<1>4. api[c].ann = cl[c].ann
  <2>1. CASE sig[c] # "reconciled"
    BY <1>1, <2>1 DEF SignalOK, Upgrading, TypeOK, Signal
  <2>2. CASE sig[c] = "reconciled" /\ up[c]
    BY <1>1, <2>2 DEF SignalOK, Upgrading
  <2>3. CASE sig[c] = "reconciled" /\ ~up[c]
    BY <1>1, <2>3 DEF SignalOK, ResourceOK
  <2>4. QED
    BY <2>1, <2>2, <2>3
<1>5. /\ api'[c].spec = api[c].spec
      /\ api'[c].ver = api[c].ver
      /\ api'[c].ann = a
  <2> HIDE DEF a
  <2>1. QED
    BY <1>3, <1>4, ApiVersions DEF Resource
<1>6. SignalOK(c)'
  BY <1>1, <1>2, <1>5 DEF SignalOK, Upgrading, SameVersions, Covered, PodsAmong, NewAnnotation
<1>7. ResourceOK(c)'
  BY <1>1, <1>2, <1>4, <1>5, ApiVersions
     DEF SignalOK, ResourceOK, Upgrading, SameVersions, Covered, PodsAmong, NewAnnotation,
         TypeOK, Signal
<1>8. QED
  BY <1>1, <1>6, <1>7 DEF LocalOK

\* An error of patchCluster ends the reconcile, or makes it go on from the
\* failed backup to the failed upgrade.
LEMMA SignalErrorSafe ==
    ASSUME TypeOK, NEW c \in Clusters, ResourceOK(c), LocalOK(c),
           UpdateStatusConflict(c) \/ PatchClusterFails(c)
    PROVE  ResourceOK(c)' /\ LocalOK(c)'
<1> USE DEF resourceVars, podVars, backupVars
<1>1. SignalError(c) /\ api' = api /\ pods' = pods /\ backups' = backups
  BY DEF UpdateStatusConflict, PatchClusterFails
<1>2. NoNewPods(c) /\ Monotone
  BY <1>1 DEF NoNewPods, Monotone
<1>3. CASE Return(c)
  BY <1>1, <1>2, <1>3, ReturnSafe
<1>4. CASE sig[c] = "backupFailed" /\ GotoSignal(c, "upgradeFailed", Signalled(sig[c], cl[c]))
  <2>1. SignalOK(c)
    BY DEF UpdateStatusConflict, PatchClusterFails, LocalOK
  <2>2. Upgrading(c, "backup") /\ cl[c].ann = "backup"
    BY <1>4, <2>1 DEF SignalOK, NewAnnotation
  <2>3. /\ Signalled(sig[c], cl[c]).spec = cl[c].spec
        /\ Signalled(sig[c], cl[c]).ver = cl[c].ver
        /\ Signalled(sig[c], cl[c]).ann = cl[c].ann
    BY <1>4 DEF Signalled, NewVersion, NewAnnotation
  <2>4. /\ pc'[c] = "patch" /\ sig'[c] = "upgradeFailed" /\ up' = up
        /\ cl'[c] = Signalled(sig[c], cl[c])
    BY <1>4 DEF GotoSignal, TypeOK
  <2>5. SignalOK(c)'
    BY <1>1, <2>2, <2>3, <2>4 DEF SignalOK, Upgrading, SameVersions
  <2>6. QED
    BY <1>1, <1>2, <2>4, <2>5, ResourceStays DEF LocalOK
<1>5. QED
  BY <1>1, <1>3, <1>4 DEF SignalError

\* backupCluster and the check of the backups: the upgrade goes on when each
\* of its backups is finished.
LEMMA BackupStepsSafe ==
    ASSUME TypeOK, NEW c \in Clusters, ResourceOK(c), LocalOK(c),
           BackupsFinished(c) \/ BackupsFailed(c)
    PROVE  ResourceOK(c)' /\ LocalOK(c)'
<1> USE DEF resourceVars, podVars, backupVars
<1>1. /\ api' = api /\ pods' = pods /\ backups' = backups
      /\ NoNewPods(c) /\ Monotone
  BY DEF BackupsFinished, BackupsFailed, NoNewPods, Monotone
<1>2. Upgrading(c, "backup") /\ cl[c].ann = "backup"
  BY DEF BackupsFinished, BackupsFailed, LocalOK
<1>3. pc'[c] = "patch" /\ cl'[c] = cl[c] /\ up' = up
  BY DEF BackupsFinished, BackupsFailed, GotoSignal, TypeOK
<1>4. \/ sig'[c] = "backupFailed"
      \/ sig'[c] = "backupFinished" /\ Covered(c, cl[c].ver, cl[c].spec)
  BY DEF BackupsFinished, BackupsFailed, GotoSignal, TypeOK, Covered,
         IsClusterBackupFinished, StateOfBackup, GetBackupName
<1>5. Upgrading(c, "backup")'
  BY <1>1, <1>2, <1>3 DEF Upgrading, SameVersions
<1>6. Covered(c, cl[c].ver, cl[c].spec) => Covered(c, cl[c].ver, cl[c].spec)'
  BY <1>1, <1>3 DEF Covered
<1>7. SignalOK(c)'
  BY <1>2, <1>3, <1>4, <1>5, <1>6 DEF SignalOK
<1>8. QED
  BY <1>1, <1>3, <1>7, ResourceStays DEF LocalOK

\* The status update records the wanted version when every pod runs it, and
\* leaves .status.version as it is otherwise.
LEMMA UpdateStatusSafe ==
    ASSUME TypeOK, NEW c \in Clusters, ResourceOK(c), LocalOK(c), UpdateStatus(c)
    PROVE  ResourceOK(c)' /\ LocalOK(c)'
<1> USE DEF resourceVars, podVars, backupVars
<1> DEFINE new == Signalled(sig[c], cl[c])
<1>1. SignalOK(c) /\ pc[c] = "updateStatus"
  BY DEF UpdateStatus, LocalOK
<1>2. /\ AfterSignal(c, new) /\ pods' = pods /\ backups' = backups
      /\ NoNewPods(c) /\ Monotone
  BY DEF UpdateStatus, NoNewPods, Monotone
<1>3. /\ new.spec = cl[c].spec /\ new.ver = NewVersion(sig[c], cl[c])
      /\ new.ann = NewAnnotation(sig[c], cl[c])
  BY DEF Signalled
<1>4. /\ api'[c].spec = api[c].spec /\ api'[c].ann = api[c].ann
      /\ api'[c].ver = new.ver
  BY ApiVersions DEF UpdateStatus, TypeOK, Resource
<1> HIDE DEF new
<1>5. CASE sig[c] = "reconciled"
  <2>1. /\ SameVersions(c) /\ api[c].ver # api[c].spec /\ PodsAmong(c, {api[c].spec})
        /\ api'[c].ver = api[c].spec
    BY <1>1, <1>3, <1>4, <1>5 DEF SignalOK, SameVersions, NewVersion
  <2>2. ResourceOK(c)'
    <3>1. PodsAmong(c, {api[c].spec})'
      BY <1>2, <1>4, <2>1 DEF PodsAmong
    <3>2. api'[c].ver = api'[c].spec /\ api'[c].spec \in Versions
      BY <1>4, <2>1, ApiVersions
    <3>3. api'[c].ver # NoVersion /\ api'[c].ver <= api'[c].spec
      BY <3>2, ConstantsAssumption
    <3>4. QED
      BY <3>1, <3>2, <3>3 DEF ResourceOK
  <2>3. CASE up[c]
    <3>1. api[c].ann = "started" /\ new.ann = "started"
      BY <1>1, <1>3, <1>5, <2>3 DEF SignalOK, Upgrading, NewAnnotation
    <3>2. GotoSignal(c, "upgradeFinished", new)
      BY <1>2, <1>5, <2>3 DEF AfterSignal
    <3>3. pc'[c] = "patch" /\ sig'[c] = "upgradeFinished" /\ cl'[c] = new
      BY <3>2 DEF GotoSignal, TypeOK
    <3>4. new.ver = new.spec /\ new.spec = api[c].spec /\ api[c].spec # NoVersion
      BY <1>3, <1>5, <2>1, ApiVersions, ConstantsAssumption DEF NewVersion, SameVersions
    <3>5. SignalOK(c)'
      BY <1>4, <3>1, <3>3, <3>4 DEF SignalOK
    <3>6. QED
      BY <2>2, <3>3, <3>5 DEF LocalOK
  <2>4. CASE ~up[c]
    <3>1. Return(c)
      BY <1>2, <1>5, <2>4 DEF AfterSignal
    <3>2. QED
      BY <2>2, <3>1 DEF Return, LocalOK, TypeOK
  <2>5. QED
    BY <2>3, <2>4
<1>6. CASE sig[c] # "reconciled"
  <2>1. new.ver = api[c].ver
    BY <1>1, <1>3, <1>6 DEF SignalOK, Upgrading, SameVersions, NewVersion, TypeOK, Signal
  <2>2. ResourceOK(c)'
    <3>1. Covered(c, api[c].ver, api[c].spec) => Covered(c, api[c].ver, api[c].spec)'
      BY <1>2, <1>4, <2>1 DEF Covered
    <3>2. QED
      BY <1>2, <1>4, <2>1, <3>1 DEF ResourceOK, PodsAmong
  <2>3. CASE sig[c] = "backupStarted"
    <3>1. Upgrading(c, "backup")
      BY <1>1, <2>3 DEF SignalOK, NewAnnotation
    <3>2. pc'[c] = "backupCluster" /\ cl'[c] = new /\ up' = up
      BY <1>2, <2>3 DEF AfterSignal, TypeOK
    <3>3. Upgrading(c, "backup")'
      BY <1>3, <1>4, <2>1, <3>1, <3>2 DEF Upgrading, SameVersions
    <3>4. QED
      BY <2>2, <3>2, <3>3 DEF LocalOK
  <2>4. CASE sig[c] = "backupFinished" \/ sig[c] = "backupFailed"
    <3>1. /\ Upgrading(c, "backup") /\ new.ann = "backup"
          /\ sig[c] = "backupFinished" => Covered(c, cl[c].ver, cl[c].spec)
      BY <1>1, <1>3, <2>4 DEF SignalOK, NewAnnotation
    <3>2. /\ pc'[c] = "patch" /\ cl'[c] = new /\ up' = up
          /\ \/ sig'[c] = "upgradeStarted" /\ sig[c] = "backupFinished"
             \/ sig'[c] = "upgradeFailed"
      BY <1>2, <2>4 DEF AfterSignal, GotoSignal, TypeOK
    <3>3. Upgrading(c, "backup")'
      BY <1>3, <1>4, <2>1, <3>1, <3>2 DEF Upgrading, SameVersions
    <3>4. cl'[c].ver = cl[c].ver /\ cl'[c].spec = cl[c].spec
      BY <1>3, <2>1, <3>1, <3>2 DEF Upgrading, SameVersions
    <3>5. sig'[c] = "upgradeStarted" => Covered(c, cl[c].ver, cl[c].spec)'
      BY <1>2, <3>1, <3>2, <3>4 DEF Covered
    <3>6. SignalOK(c)'
      BY <3>1, <3>2, <3>3, <3>5 DEF SignalOK
    <3>7. QED
      BY <2>2, <3>2, <3>6 DEF LocalOK
  <2>5. CASE sig[c] = "upgradeStarted"
    <3>1. Upgrading(c, "started") /\ new.ann = "started"
      BY <1>1, <1>3, <2>5 DEF SignalOK, NewAnnotation
    <3>2. pc'[c] = "ensurePods" /\ cl'[c] = new /\ up' = up /\ idx'[c] = 0
      BY <1>2, <2>5 DEF AfterSignal, GotoPods, TypeOK
    <3>3. Upgrading(c, "started")'
      BY <1>3, <1>4, <2>1, <3>1, <3>2 DEF Upgrading, SameVersions
    <3>4. \A i \in Index : ~(i < 0)
      BY DEF Index
    <3>5. new.spec # NoVersion
      BY <1>3, <3>1, ApiVersions, ConstantsAssumption DEF Upgrading, SameVersions
    <3>6. up'[c] = TRUE
      BY <3>1, <3>2 DEF Upgrading
    <3>7. LoopOK(c)'
      BY <3>1, <3>2, <3>3, <3>4, <3>5, <3>6 DEF LoopOK
    <3>8. QED
      BY <2>2, <3>2, <3>7 DEF LocalOK
  <2>6. CASE sig[c] \in {"upgradeFailed", "upgradeFinished"}
    <3>1. Return(c)
      BY <1>2, <2>6 DEF AfterSignal
    <3>2. QED
      BY <2>2, <3>1 DEF Return, LocalOK, TypeOK
  <2>7. QED
    BY <1>6, <2>3, <2>4, <2>5, <2>6 DEF TypeOK, Signal
<1>7. QED
  BY <1>5, <1>6

\* The loop of ensurePods goes to the next pod when this one runs the wanted
\* version.
LEMMA NextPodSafe ==
    ASSUME TypeOK, NEW c \in Clusters, ResourceOK(c), LocalOK(c),
           KeepPod(c) \/ PodSkipped(c) \/ PodIsReady(c)
    PROVE  ResourceOK(c)' /\ LocalOK(c)'
<1> USE DEF resourceVars, podVars, backupVars
<1>1. LoopOK(c) /\ NextPod(c)
  BY DEF KeepPod, PodSkipped, PodIsReady, LocalOK
<1>2. /\ api' = api /\ pods' = pods /\ backups' = backups
      /\ NoNewPods(c) /\ Monotone
  BY DEF KeepPod, PodSkipped, PodIsReady, NoNewPods, Monotone
<1>3. pc'[c] = "ensurePods" /\ cl' = cl /\ up' = up /\ idx'[c] = idx[c] + 1
  BY <1>1 DEF NextPod, TypeOK
<1>4. up[c] = TRUE => pods[c][idx[c]] \in {cl[c].spec, NoVersion}
  <2>1. CASE KeepPod(c) \/ PodSkipped(c)
    BY <2>1 DEF KeepPod, PodSkipped, NeedsUpgrade, Pod
  <2>2. CASE PodIsReady(c)
    <3>1. idx[c] \in Index
      BY <2>2 DEF PodIsReady, TypeOK
    <3>2. QED
      BY <1>1, <2>2, <3>1 DEF PodIsReady, LoopOK
  <2>3. QED
    BY <2>1, <2>2
<1>5. \A i \in Index : i < idx[c] + 1 => i < idx[c] \/ i = idx[c]
  BY ConstantsAssumption DEF TypeOK, Index
<1>6. LoopOK(c)'
  BY <1>1, <1>2, <1>3, <1>4, <1>5 DEF LoopOK, Upgrading, SameVersions
<1>7. QED
  BY <1>2, <1>3, <1>6, ResourceStays DEF LocalOK

\* createPodWithIndex uses the version of the local copy, which the resource
\* allows: an upgrade that has started, or no upgrade at all.
LEMMA CreatePodSafe ==
    ASSUME TypeOK, NEW c \in Clusters, ResourceOK(c), LocalOK(c), CreatePod(c)
    PROVE  ResourceOK(c)' /\ LocalOK(c)'
<1> USE DEF resourceVars, podVars, backupVars
<1>1. LoopOK(c) /\ idx[c] \in Index
  BY DEF CreatePod, LocalOK
<1>2. /\ api' = api /\ backups' = backups /\ cl' = cl /\ up' = up /\ idx' = idx
      /\ pc'[c] = "waitPod"
  BY DEF CreatePod, TypeOK
<1>3. \A i \in Index : pods'[c][i] = pods[c][i] \/ pods'[c][i] = cl[c].spec
  BY DEF CreatePod, TypeOK
<1>4. pods'[c][idx[c]] = cl[c].spec
  BY <1>1 DEF CreatePod, TypeOK
<1>5. LoopOK(c)'
  BY <1>1, <1>2, <1>3, <1>4 DEF LoopOK, Upgrading, SameVersions
<1>6. ResourceOK(c)'
  <2>1. CASE up[c]
    <3>1. Upgrading(c, "started")
      BY <1>1, <2>1 DEF LoopOK, TypeOK
    <3>2. PodsAmong(c, {api[c].ver, api[c].spec}) /\ Covered(c, api[c].ver, api[c].spec)
      BY <3>1 DEF ResourceOK, Upgrading
    <3>3. PodsAmong(c, {api[c].ver, api[c].spec})' /\ Covered(c, api[c].ver, api[c].spec)'
      BY <1>2, <1>3, <3>1, <3>2 DEF PodsAmong, Covered, Upgrading, SameVersions
    <3>4. QED
      BY <1>2, <3>1, <3>3 DEF ResourceOK, Upgrading
  <2>2. CASE ~up[c]
    <3>1. \/ SameVersions(c) /\ cl[c].ver = NoVersion
          \/ cl[c].spec = api[c].ver /\ cl[c].spec # NoVersion
      BY <1>1, <2>2 DEF LoopOK, TypeOK
    <3>2. CASE SameVersions(c) /\ cl[c].ver = NoVersion
      BY <1>2, <1>3, <3>2 DEF ResourceOK, PodsAmong, SameVersions
    <3>3. CASE cl[c].spec = api[c].ver /\ cl[c].spec # NoVersion
      <4>1. Covered(c, api[c].ver, api[c].spec) => Covered(c, api[c].ver, api[c].spec)'
        BY <1>2 DEF Covered
      <4>2. QED
        BY <1>2, <1>3, <3>3, <4>1 DEF ResourceOK, PodsAmong
    <3>4. QED
      BY <3>1, <3>2, <3>3
  <2>3. QED
    BY <2>1, <2>2
<1>7. QED
  BY <1>2, <1>5, <1>6 DEF LocalOK

\* The loop of ensurePods ends with every pod at the wanted version.
LEMMA PodsDoneSafe ==
    ASSUME TypeOK, NEW c \in Clusters, ResourceOK(c), LocalOK(c), PodsDone(c)
    PROVE  ResourceOK(c)' /\ LocalOK(c)'
<1> USE DEF resourceVars, podVars, backupVars
<1>1. LoopOK(c) /\ idx[c] = Nodes
  BY DEF PodsDone, LocalOK
<1>2. /\ api' = api /\ pods' = pods /\ backups' = backups
      /\ NoNewPods(c) /\ Monotone
  BY DEF PodsDone, NoNewPods, Monotone
<1>3. CASE Return(c)
  BY <1>2, <1>3, ReturnSafe
<1>4. CASE cl[c].ver # cl[c].spec /\ GotoSignal(c, "reconciled", cl[c])
  <2>1. /\ pc'[c] = "patch" /\ sig'[c] = "reconciled" /\ cl'[c] = cl[c] /\ up' = up
    BY <1>4 DEF GotoSignal, TypeOK
  <2>2. \A i \in Index : i < Nodes
    BY ConstantsAssumption DEF Index
  <2>3. CASE up[c]
    <3>1. /\ Upgrading(c, "started") /\ cl[c].ann = "started"
          /\ PodsAmong(c, {cl[c].spec})
      BY <1>1, <2>2, <2>3 DEF LoopOK, PodsAmong, TypeOK
    <3>2. Upgrading(c, "started")' /\ PodsAmong(c, {cl[c].spec})'
      BY <1>2, <2>1, <3>1 DEF Upgrading, SameVersions, PodsAmong
    <3>3. SignalOK(c)'
      BY <2>1, <2>3, <3>1, <3>2 DEF SignalOK, Upgrading
    <3>4. QED
      BY <1>2, <2>1, <3>3, ResourceStays DEF LocalOK
  <2>4. CASE ~up[c]
    <3>1. SameVersions(c) /\ cl[c].ver = NoVersion /\ cl[c].ann = "none"
      BY <1>1, <1>4, <2>4 DEF LoopOK, TypeOK
    <3>2. PodsAmong(c, {cl[c].spec}) /\ api[c].ver # api[c].spec
      BY <1>4, <3>1 DEF ResourceOK, SameVersions
    <3>3. SignalOK(c)'
      BY <1>2, <2>1, <2>4, <3>1, <3>2 DEF SignalOK, SameVersions, PodsAmong
    <3>4. QED
      BY <1>2, <2>1, <3>3, ResourceStays DEF LocalOK
  <2>5. QED
    BY <2>3, <2>4
<1>5. QED
  BY <1>3, <1>4 DEF PodsDone

\* A user who waits for an upgrade to settle disturbs no reconcile: the only
\* ones in progress then are ending, or look after the pods as they are.
LEMMA UserUpgradeSafe ==
    ASSUME Assumed, TypeOK, NEW c \in Clusters, NEW v \in Versions,
           ResourceOK(c), LocalOK(c), UserUpgrade(c, v)
    PROVE  ResourceOK(c)' /\ LocalOK(c)'
<1> USE DEF resourceVars, podVars, backupVars, localVars
<1>1. /\ api[c].ver = api[c].spec /\ api[c].ann = "none" /\ api[c].spec < v
      /\ api[c].ver # NoVersion
  BY ApiVersions, ConstantsAssumption DEF UserUpgrade, Assumed, ForwardOnly
<1>2. api'[c].spec = v /\ api'[c].ver = api[c].ver /\ api'[c].ann = api[c].ann
  BY ApiVersions DEF UserUpgrade, TypeOK, Resource
<1>3. /\ pods' = pods /\ backups' = backups
      /\ pc' = pc /\ sig' = sig /\ cl' = cl /\ up' = up /\ idx' = idx
  BY DEF UserUpgrade
<1>4. ResourceOK(c)'
  <2>1. api[c].ver \in Nat /\ v \in Nat
    BY <1>1, ApiVersions, ConstantsAssumption
  <2>2. api'[c].ver <= api'[c].spec
    BY <1>1, <1>2, <2>1
  <2>3. PodsAmong(c, {api[c].ver})'
    BY <1>1, <1>2, <1>3 DEF ResourceOK, PodsAmong
  <2>4. QED
    BY <1>1, <1>2, <2>2, <2>3 DEF ResourceOK
<1>5. ASSUME SignalOK(c), pc[c] \in {"patch", "updateStatus"}
      PROVE  SignalOK(c)'
  <2>1. sig[c] = "upgradeFinished" /\ pc[c] # "patch"
    BY <1>1, <1>5 DEF SignalOK, Upgrading, TypeOK, Signal
  <2>2. QED
    BY <1>1, <1>2, <1>3, <1>5, <2>1 DEF SignalOK
<1>6. ASSUME LoopOK(c)
      PROVE  LoopOK(c)'
  <2>1. up[c] = FALSE
    BY <1>1, <1>6 DEF LoopOK, Upgrading, TypeOK
  <2>2. cl[c].ver = cl[c].spec /\ api[c].ver = cl[c].ver
    BY <1>1, <1>6, <2>1 DEF LoopOK, SameVersions
  <2>3. QED
    BY <1>1, <1>2, <1>3, <1>6, <2>1, <2>2 DEF LoopOK
<1>7. QED
  BY <1>1, <1>3, <1>4, <1>5, <1>6 DEF LocalOK, Upgrading

-----------------------------------------------------------------------------
(* The other clusters, and the backups.                                    *)

\* Nothing that is done for one cluster touches the pods, the resource or the
\* reconcile of another.
LEMMA OthersAlone ==
    ASSUME TypeOK, NEW c \in Clusters, NEW d \in Clusters, c # d,
           \/ Reconcile(c) \/ PatchClusterFails(c) \/ Abort(c) \/ SyncCache(c)
           \/ \E v \in Versions : UserUpgrade(c, v)
           \/ \E i \in Index : \/ PodBecomesReady(c, i) \/ PodVanishes(c, i)
                               \/ PodUnready(c, i)
    PROVE  Alone(d)
<1> USE DEF resourceVars, podVars, backupVars, localVars, Alone, NoNewPods, TypeOK
<1>1. ASSUME Return(c) \/ NextPod(c) \/ (\E s, o : GotoSignal(c, s, o)) \/ \E o : GotoPods(c, o)
      PROVE  /\ pc'[d] = pc[d] /\ sig'[d] = sig[d] /\ cl'[d] = cl[d]
             /\ up'[d] = up[d] /\ idx'[d] = idx[d]
  BY <1>1 DEF Return, NextPod, GotoSignal, GotoPods
<1>2. CASE BeginPods(c) \/ BeginBackup(c) \/ BeginCheck(c)
  BY <1>2 DEF BeginPods, BeginBackup, BeginCheck, Begin
<1>3. CASE Patch(c)
  BY <1>3 DEF Patch
<1>4. CASE UpdateStatus(c)
  <2>1. api'[d] = api[d] /\ pods' = pods
    BY <1>4 DEF UpdateStatus
  <2>2. AfterSignal(c, Signalled(sig[c], cl[c]))
    BY <1>4 DEF UpdateStatus
  <2>3. CASE sig[c] = "backupStarted"
    BY <2>1, <2>2, <2>3 DEF AfterSignal
  <2>4. CASE sig[c] # "backupStarted"
    BY <1>1, <2>1, <2>2, <2>4 DEF AfterSignal
  <2>5. QED
    BY <2>3, <2>4
<1>5. CASE UpdateStatusConflict(c) \/ PatchClusterFails(c)
  BY <1>1, <1>5 DEF UpdateStatusConflict, PatchClusterFails, SignalError
<1>6. CASE \E ns \in NamespacesOf[c] : CreateNamespaceBackup(c, ns)
  BY <1>6 DEF CreateNamespaceBackup
<1>7. CASE \/ \E ns \in NamespacesOf[c] : BackupAlreadyExists(c, ns)
           \/ BackupsCreated(c) \/ BackupsPending(c) \/ PodUnreachable(c) \/ PodGone(c)
           \/ Abort(c)
  BY <1>1, <1>7 DEF BackupAlreadyExists, BackupsCreated, BackupsPending, PodUnreachable,
     PodGone, Abort
<1>8. CASE BackupsFinished(c) \/ BackupsFailed(c) \/ KeepPod(c) \/ PodSkipped(c) \/ PodIsReady(c) \/ PodsDone(c)
  BY <1>1, <1>8 DEF BackupsFinished, BackupsFailed, KeepPod, PodSkipped, PodIsReady, PodsDone
<1>9. CASE DeleteOutdatedPod(c) \/ DeleteFailedPod(c)
  BY <1>9 DEF DeleteOutdatedPod, DeleteFailedPod, RemovePod
<1>10. CASE DeleteIsolatedPod(c) \/ PodFails(c)
  BY <1>1, <1>10 DEF DeleteIsolatedPod, PodFails, RemovePod
<1>11. CASE CreatePod(c)
  BY <1>11 DEF CreatePod
<1>12. CASE SyncCache(c) \/ \E v \in Versions : UserUpgrade(c, v)
  BY <1>12 DEF SyncCache, UserUpgrade
<1>13. CASE \E i \in Index : \/ PodBecomesReady(c, i) \/ PodVanishes(c, i)
                            \/ PodUnready(c, i)
  BY <1>13 DEF PodBecomesReady, PodVanishes, PodUnready
<1>14. QED
  BY <1>2, <1>3, <1>4, <1>5, <1>6, <1>7, <1>8, <1>9, <1>10, <1>11, <1>12, <1>13
     DEF Reconcile

\* The backups stay, and so do the versions they were made from, when a step
\* writes neither backups nor .status.version.
LEMMA BackupsStay ==
    ASSUME TypeOK, BackupsBelong, UNCHANGED backupVars,
           \A d \in Clusters : api'[d].ver = api[d].ver
    PROVE  BackupsBelong' /\ Monotone
BY DEF BackupsBelong, Monotone, backupVars, TypeOK

\* A new backup is made from the version recorded now.
LEMMA CreateNamespaceBackupSafe ==
    ASSUME TypeOK, BackupsBelong, NEW c \in Clusters, LocalOK(c),
           NEW ns \in NamespacesOf[c], CreateNamespaceBackup(c, ns)
    PROVE  BackupsBelong' /\ Monotone
<1> USE DEF resourceVars
<1> DEFINE n == GetBackupName(ns, cl[c].ver, cl[c].spec)
<1>1. cl[c].ver = api[c].ver /\ api[c].ver \in Versions /\ cl[c].spec = api[c].spec
  BY ApiVersions DEF CreateNamespaceBackup, LocalOK, Upgrading, SameVersions
<1>2. n \in BackupName /\ n[1] = ns /\ n[2] = api[c].ver
  BY <1>1, ApiVersions, ConstantsAssumption DEF BackupName, GetBackupName
<1>3. /\ backups[n] = "absent"
      /\ backups' = [backups EXCEPT ![n] = "running"]
      /\ backupOf' = [backupOf EXCEPT ![n] = c]
      /\ fresh' = fresh \cup {n} /\ api' = api
  BY DEF CreateNamespaceBackup
<1> HIDE DEF n
<1>4. Monotone
  BY <1>3 DEF Monotone, TypeOK
<1>5. ASSUME NEW b \in BackupName, backups'[b] # "absent"
      PROVE  LET v == api'[backupOf'[b]].ver
             IN  /\ b[1] \in NamespacesOf[backupOf'[b]]
                 /\ v \in Versions
                 /\ b[2] <= v
                 /\ b[2] = v => b \in fresh'
  <2>1. CASE b = n
    <3>1. backupOf'[b] = c
      BY <1>2, <1>3, <2>1 DEF TypeOK
    <3>2. api[c].ver <= api[c].ver
      <4>1. api[c].ver \in Nat
        BY <1>1, ConstantsAssumption
      <4>2. QED
        BY <4>1
    <3>3. QED
      BY <1>1, <1>2, <1>3, <2>1, <3>1, <3>2
  <2>2. CASE b # n
    BY <1>3, <1>5, <2>2 DEF BackupsBelong, TypeOK
  <2>3. QED
    BY <2>1, <2>2
<1>6. QED
  BY <1>4, <1>5 DEF BackupsBelong

\* When .status.version moves on, it moves past the version of every backup
\* of the cluster, so that none of them is taken for a fresh one.
LEMMA UpdateStatusBackups ==
    ASSUME TypeOK, BackupsBelong, NEW c \in Clusters, ResourceOK(c), LocalOK(c),
           UpdateStatus(c)
    PROVE  BackupsBelong' /\ Monotone
<1> USE DEF podVars
<1> DEFINE new == Signalled(sig[c], cl[c])
<1>1. SignalOK(c)
  BY DEF UpdateStatus, LocalOK
<1>2. new.ver = NewVersion(sig[c], cl[c])
  BY DEF Signalled
<1>3. /\ api'[c].ver = new.ver /\ \A d \in Clusters : d # c => api'[d] = api[d]
      /\ backups' = backups /\ backupOf' = backupOf /\ fresh' = FreshAfter(c, new.ver)
  BY ApiVersions DEF UpdateStatus, TypeOK, Resource
<1> HIDE DEF new
<1>4. CASE sig[c] # "reconciled"
  <2>1. new.ver = api[c].ver
    BY <1>1, <1>2, <1>4 DEF SignalOK, Upgrading, SameVersions, NewVersion, TypeOK, Signal
  <2>2. UNCHANGED backupVars
    BY <1>3, <2>1 DEF FreshAfter, backupVars
  <2>3. QED
    BY <1>3, <2>1, <2>2, BackupsStay
<1>5. CASE sig[c] = "reconciled"
  <2>1. new.ver = api[c].spec /\ api[c].spec # api[c].ver
    BY <1>1, <1>2, <1>5 DEF SignalOK, SameVersions, NewVersion
  <2>2. fresh' = {b \in fresh : backupOf[b] # c}
    BY <1>3, <2>1 DEF FreshAfter
  <2>3. Monotone
    BY <1>3 DEF Monotone
  <2>4. ASSUME NEW b \in BackupName, backups'[b] # "absent"
        PROVE  LET v == api'[backupOf'[b]].ver
               IN  /\ b[1] \in NamespacesOf[backupOf'[b]]
                   /\ v \in Versions
                   /\ b[2] <= v
                   /\ b[2] = v => b \in fresh'
    <3>1. backupOf[b] \in Clusters
      BY DEF TypeOK
    <3>2. CASE backupOf[b] = c
      <4>1. /\ b[1] \in NamespacesOf[c] /\ api[c].ver \in Versions
            /\ b[2] <= api[c].ver
        BY <1>3, <2>4, <3>2 DEF BackupsBelong
      <4>2. api[c].ver <= api[c].spec
        BY <4>1, ConstantsAssumption DEF ResourceOK
      <4>3. b[2] \in Nat /\ api[c].ver \in Nat /\ api[c].spec \in Nat
        BY <4>1, ApiVersions, ConstantsAssumption DEF BackupName
      <4>4. b[2] <= api[c].spec /\ b[2] # api[c].spec
        BY <2>1, <4>1, <4>2, <4>3
      <4>5. QED
        BY <1>3, <2>1, <3>2, <4>1, <4>4, ApiVersions
    <3>3. CASE backupOf[b] # c
      BY <1>3, <2>2, <2>4, <3>1, <3>3 DEF BackupsBelong
    <3>4. QED
      BY <3>2, <3>3
  <2>5. QED
    BY <2>3, <2>4 DEF BackupsBelong
<1>6. QED
  BY <1>4, <1>5

-----------------------------------------------------------------------------
(* The invariant is inductive.                                             *)

\* A cluster as its user creates it has no pods and no upgrade.
LEMMA InitBackupInv == Init => BackupInv
<1> SUFFICES ASSUME Init PROVE BackupInv
  OBVIOUS
<1>1. ASSUME NEW c \in Clusters
      PROVE  /\ api[c].ver = NoVersion /\ api[c].ann = "none"
             /\ \A i \in Index : pods[c][i] = NoVersion
             /\ pc[c] = "idle" /\ idx[c] = 0
  BY DEF Init, NewResource
<1>2. BackupsBelong
  BY DEF Init, BackupsBelong
<1>3. ASSUME NEW c \in Clusters
      PROVE  ResourceOK(c) /\ LocalOK(c)
  BY <1>1 DEF ResourceOK, PodsAmong, LocalOK
<1>4. QED
  BY <1>2, <1>3 DEF BackupInv

\* A step of the reconcile of a cluster keeps what its resource and its
\* local state say.
LEMMA ReconcileSafe ==
    ASSUME Assumed, TypeOK, NEW c \in Clusters, ResourceOK(c), LocalOK(c), Reconcile(c)
    PROVE  ResourceOK(c)' /\ LocalOK(c)'
<1> USE DEF resourceVars, podVars, backupVars, localVars
<1>1. CASE \E ns \in NamespacesOf[c] : CreateNamespaceBackup(c, ns)
  <2>1. PICK ns \in NamespacesOf[c] : CreateNamespaceBackup(c, ns)
    BY <1>1
  <2>2. Alone(c) /\ Monotone
    BY <2>1 DEF CreateNamespaceBackup, Alone, NoNewPods, Monotone, TypeOK
  <2>3. QED
    BY <2>2, Frame
<1>2. CASE \/ \E ns \in NamespacesOf[c] : BackupAlreadyExists(c, ns)
           \/ BackupsCreated(c) \/ BackupsPending(c) \/ PodUnreachable(c) \/ PodGone(c)
  <2>1. Return(c) /\ api' = api /\ NoNewPods(c) /\ Monotone
    BY <1>2 DEF BackupAlreadyExists, BackupsCreated, BackupsPending, PodUnreachable,
       PodGone, NoNewPods, Monotone
  <2>2. QED
    BY <2>1, ReturnSafe
<1>3. CASE DeleteIsolatedPod(c) \/ PodFails(c)
  <2>1. Return(c) /\ api' = api /\ NoNewPods(c) /\ Monotone
    BY <1>3 DEF DeleteIsolatedPod, PodFails, RemovePod, NoNewPods, Monotone, TypeOK
  <2>2. QED
    BY <2>1, ReturnSafe
<1>4. CASE DeleteOutdatedPod(c) \/ DeleteFailedPod(c)
  <2>1. Alone(c) /\ Monotone
    BY <1>4 DEF DeleteOutdatedPod, DeleteFailedPod, RemovePod, Alone, NoNewPods, Monotone,
       TypeOK
  <2>2. QED
    BY <2>1, Frame
<1>5. QED
  BY <1>1, <1>2, <1>3, <1>4, BeginSafe, PatchSafe, UpdateStatusSafe, SignalErrorSafe,
     BackupStepsSafe, NextPodSafe, CreatePodSafe, PodsDoneSafe
     DEF Reconcile

\* Backups that belong to their clusters go on doing so.
LEMMA ReconcileBackups ==
    ASSUME TypeOK, BackupsBelong, NEW c \in Clusters, ResourceOK(c), LocalOK(c),
           Reconcile(c)
    PROVE  BackupsBelong' /\ Monotone
<1> USE DEF resourceVars, podVars, localVars
<1>1. CASE \E ns \in NamespacesOf[c] : CreateNamespaceBackup(c, ns)
  BY <1>1, CreateNamespaceBackupSafe
<1>2. CASE UpdateStatus(c)
  BY <1>2, UpdateStatusBackups
<1>3. CASE Patch(c)
  <2>1. Patched(c).ver = api[c].ver
    BY ApiVersions DEF Patched, Resource
  <2>2. \A d \in Clusters : api'[d].ver = api[d].ver
    BY <1>3, <2>1 DEF Patch, TypeOK
  <2>3. QED
    BY <1>3, <2>2, BackupsStay DEF Patch
<1>4. CASE \/ BeginPods(c) \/ BeginBackup(c) \/ BeginCheck(c) \/ UpdateStatusConflict(c)
           \/ \E ns \in NamespacesOf[c] : BackupAlreadyExists(c, ns)
           \/ BackupsCreated(c) \/ BackupsFinished(c) \/ BackupsFailed(c)
           \/ BackupsPending(c)
  <2>1. api' = api /\ UNCHANGED backupVars
    BY <1>4 DEF BeginPods, BeginBackup, BeginCheck, Begin, UpdateStatusConflict,
       BackupAlreadyExists, BackupsCreated, BackupsFinished, BackupsFailed, BackupsPending
  <2>2. QED
    BY <2>1, BackupsStay
<1>5. CASE \/ KeepPod(c) \/ PodSkipped(c) \/ PodUnreachable(c) \/ DeleteOutdatedPod(c)
           \/ DeleteIsolatedPod(c) \/ DeleteFailedPod(c) \/ CreatePod(c) \/ PodIsReady(c)
           \/ PodFails(c) \/ PodGone(c) \/ PodsDone(c)
  <2>1. api' = api /\ UNCHANGED backupVars
    BY <1>5 DEF KeepPod, PodSkipped, PodUnreachable, DeleteOutdatedPod, DeleteIsolatedPod,
       DeleteFailedPod, CreatePod, PodIsReady, PodFails, PodGone, PodsDone
  <2>2. QED
    BY <2>1, BackupsStay
<1>6. QED
  BY <1>1, <1>2, <1>3, <1>4, <1>5 DEF Reconcile

\* No step breaks the invariant, under the three assumptions.
LEMMA NextBackupInv ==
    Assumed /\ TypeOK /\ BackupInv /\ [Next]_vars => BackupInv'
<1> SUFFICES ASSUME Assumed, TypeOK, BackupInv, [Next]_vars PROVE BackupInv'
  OBVIOUS
<1> USE DEF resourceVars, podVars, backupVars, localVars
<1>0. BackupsBelong /\ \A c \in Clusters : ResourceOK(c) /\ LocalOK(c)
  BY DEF BackupInv
<1>1. ASSUME \A d \in Clusters : Alone(d), UNCHANGED backupVars
      PROVE  BackupInv'
  <2>1. BackupsBelong' /\ Monotone
    BY <1>0, <1>1, BackupsStay DEF Alone
  <2>2. QED
    BY <1>0, <1>1, <2>1, Frame DEF BackupInv
<1>2. ASSUME NEW c \in Clusters, \A d \in Clusters : d # c => Alone(d),
             BackupsBelong', Monotone, ResourceOK(c)' /\ LocalOK(c)'
      PROVE  BackupInv'
  <2>1. ASSUME NEW d \in Clusters PROVE ResourceOK(d)' /\ LocalOK(d)'
    BY <1>0, <1>2, Frame
  <2>2. QED
    BY <1>2, <2>1 DEF BackupInv
<1>3. CASE UNCHANGED vars
  BY <1>1, <1>3 DEF vars, Alone, NoNewPods
<1>4. ASSUME NEW c \in Clusters, Reconcile(c) PROVE BackupInv'
  <2>1. \A d \in Clusters : d # c => Alone(d)
    BY <1>4, OthersAlone
  <2>2. BackupsBelong' /\ Monotone
    BY <1>0, <1>4, ReconcileBackups
  <2>3. ResourceOK(c)' /\ LocalOK(c)'
    BY <1>0, <1>4, ReconcileSafe
  <2>4. QED
    BY <1>2, <2>1, <2>2, <2>3
<1>5. ASSUME NEW c \in Clusters, PatchClusterFails(c) \/ Abort(c) PROVE BackupInv'
  <2>1. \A d \in Clusters : d # c => Alone(d)
    BY <1>5, OthersAlone
  <2>2. api' = api /\ pods' = pods /\ UNCHANGED backupVars
    BY <1>5 DEF PatchClusterFails, Abort
  <2>3. BackupsBelong' /\ Monotone
    BY <1>0, <2>2, BackupsStay
  <2>4. ResourceOK(c)' /\ LocalOK(c)'
    <3>1. CASE PatchClusterFails(c)
      BY <1>0, <3>1, SignalErrorSafe
    <3>2. CASE Abort(c)
      <4>1. Return(c) /\ NoNewPods(c)
        BY <2>2, <3>2 DEF Abort, NoNewPods
      <4>2. QED
        BY <1>0, <2>2, <2>3, <4>1, ReturnSafe
    <3>3. QED
      BY <1>5, <3>1, <3>2
  <2>5. QED
    BY <1>2, <2>1, <2>3, <2>4
<1>6. ASSUME NEW c \in Clusters, NEW v \in Versions, UserUpgrade(c, v) PROVE BackupInv'
  <2>1. \A d \in Clusters : d # c => Alone(d)
    BY <1>6, OthersAlone
  <2>2. api'[c].ver = api[c].ver
    BY <1>6, ApiVersions DEF UserUpgrade, TypeOK, Resource
  <2>3. BackupsBelong' /\ Monotone
    <3>1. UNCHANGED backupVars
      BY <1>6 DEF UserUpgrade
    <3>2. \A d \in Clusters : api'[d].ver = api[d].ver
      BY <2>1, <2>2 DEF Alone
    <3>3. QED
      BY <1>0, <3>1, <3>2, BackupsStay
  <2>4. ResourceOK(c)' /\ LocalOK(c)'
    BY <1>0, <1>6, UserUpgradeSafe
  <2>5. QED
    BY <1>2, <2>1, <2>3, <2>4
<1>7. ASSUME NEW c \in Clusters, SyncCache(c) PROVE BackupInv'
  BY <1>1, <1>7 DEF SyncCache, Alone, NoNewPods
<1>8. ASSUME NEW c \in Clusters, NEW i \in Index,
             PodBecomesReady(c, i) \/ PodVanishes(c, i) \/ PodUnready(c, i)
      PROVE  BackupInv'
  <2>1. UNCHANGED backupVars
    BY <1>8 DEF PodBecomesReady, PodVanishes, PodUnready
  <2>2. \A d \in Clusters : Alone(d)
    BY <1>8 DEF PodBecomesReady, PodVanishes, PodUnready, Alone, NoNewPods, TypeOK
  <2>3. QED
    BY <1>1, <2>1, <2>2
<1>9. ASSUME NEW b \in BackupName, NEW s \in {"finished", "failed"}, BackupEnds(b, s)
      PROVE  BackupInv'
  <2>1. \A d \in Clusters : Alone(d)
    BY <1>9 DEF BackupEnds, Alone, NoNewPods
  <2>2. Monotone
    BY <1>9 DEF BackupEnds, Monotone, TypeOK
  <2>3. BackupsBelong'
    BY <1>0, <1>9 DEF BackupEnds, BackupsBelong, TypeOK
  <2>4. QED
    BY <1>0, <2>1, <2>2, <2>3, Frame DEF BackupInv
<1>10. QED
  BY <1>3, <1>4, <1>5, <1>6, <1>7, <1>8, <1>9 DEF Next

\* An upgrade that has its backups has fresh ones, of its own cluster: this is
\* where distinct names are needed.
LEMMA CoveredIsBackedUp ==
    ASSUME Assumed, TypeOK, BackupsBelong, NEW c \in Clusters,
           api[c].ver \in Versions, Covered(c, api[c].ver, api[c].spec)
    PROVE  \A ns \in NamespacesOf[c] : BackedUp(c, ns)
<1> TAKE ns \in NamespacesOf[c]
<1> DEFINE b == <<ns, api[c].ver, api[c].spec>>
<1>1. b \in BackupName
  BY ApiVersions, ConstantsAssumption DEF BackupName
<1>2. backups[b] = "finished"
  BY DEF Covered
<1>3. backupOf[b] \in Clusters
  BY <1>1 DEF TypeOK
<1>4. ns \in NamespacesOf[backupOf[b]]
  BY <1>1, <1>2 DEF BackupsBelong
<1>5. backupOf[b] = c
  BY <1>3, <1>4 DEF Assumed, DistinctNames
<1>6. b \in fresh
  BY <1>1, <1>2, <1>5 DEF BackupsBelong
<1>7. QED
  BY <1>2, <1>5, <1>6 DEF BackedUp

\* The invariant implies the two safety properties of an upgrade.
LEMMA BackupInvImplies ==
    Assumed /\ TypeOK /\ BackupInv => BackupBeforeUpgrade /\ StatusTellsVersion
<1> SUFFICES ASSUME Assumed, TypeOK, BackupInv
             PROVE  BackupBeforeUpgrade /\ StatusTellsVersion
  OBVIOUS
<1>1. \A c \in Clusters : ResourceOK(c)
  BY DEF BackupInv
<1>2. StatusTellsVersion
  BY <1>1 DEF StatusTellsVersion, ResourceOK, PodsAmong
<1>3. BackupBeforeUpgrade
  <2>1. SUFFICES ASSUME NEW c \in Clusters, NEW i \in Index,
                        api[c].ver # NoVersion,
                        pods[c][i] \notin {NoVersion, api[c].ver}
                 PROVE  \A ns \in NamespacesOf[c] : BackedUp(c, ns)
    BY DEF BackupBeforeUpgrade
  <2>2. Covered(c, api[c].ver, api[c].spec)
    BY <1>1, <2>1 DEF ResourceOK, PodsAmong
  <2>3. api[c].ver \in Versions
    BY <2>1, ApiVersions
  <2>4. QED
    BY <2>2, <2>3, CoveredIsBackedUp DEF BackupInv
<1>4. QED
  BY <1>2, <1>3

\* The invariant of an upgrade holds, whatever calls fail, whenever the operator
\* crashes and whichever pods are lost, for any number of clusters: among other
\* things, a cluster whose annotation says that the upgrade has started has a
\* finished backup of each of its namespaces.
THEOREM UpgradeInvariantHolds ==
    Assumed /\ Spec => [](Assumed /\ TypeOK /\ BackupLocals /\ BackupInv)
<1>1. Assumed /\ Init => Assumed /\ TypeOK /\ BackupLocals /\ BackupInv
  BY InitType, InitBackupLocals, InitBackupInv
<1>2. /\ Assumed /\ TypeOK /\ BackupLocals /\ BackupInv
      /\ [Next]_vars
      => (Assumed /\ TypeOK /\ BackupLocals /\ BackupInv)'
  <2>1. Assumed => Assumed'
    BY DEF Assumed, ForwardOnly, DistinctNames
  <2>2. QED
    BY <2>1, NextType, NextBackupLocals, NextBackupInv
<1>3. QED
  BY <1>1, <1>2, PTL DEF Spec

\* No pod runs another version than the recorded one before its cluster has
\* been backed up.
THEOREM UpgradeIsSafe == Assumed /\ Spec => []BackupBeforeUpgrade
<1>1. Assumed /\ TypeOK /\ BackupInv => BackupBeforeUpgrade
  BY BackupInvImplies
<1>2. QED
  BY <1>1, UpgradeInvariantHolds, PTL

\* .status.version tells the version of every pod, unless an upgrade is in
\* progress.
THEOREM StatusIsTrue == Assumed /\ Spec => []StatusTellsVersion
<1>1. Assumed /\ TypeOK /\ BackupInv => StatusTellsVersion
  BY BackupInvImplies
<1>2. QED
  BY <1>1, UpgradeInvariantHolds, PTL

=============================================================================
