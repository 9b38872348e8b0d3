--------------------------- MODULE RolloutProofs ---------------------------
(***************************************************************************)
(* How a new version is rolled out, for every number of clusters, nodes    *)
(* and versions: pods are restarted one at a time, even from stale copies  *)
(* of the resource, and an upgrade that fails is reported, even if one     *)
(* call fails with it.                                                     *)
(***************************************************************************)
EXTENDS ClusterReconcilerProofs, FiniteSetTheorems

-----------------------------------------------------------------------------
(* What a step may be, seen from one cluster.                              *)

\* The step is one of cluster c: of its reconcile, its users or its pods.
OwnStep(c) ==
    \/ Reconcile(c) \/ PatchClusterFails(c) \/ Abort(c) \/ SyncCache(c)
    \/ \E v \in Versions : UserUpgrade(c, v)
    \/ \E i \in Index : \/ PodBecomesReady(c, i) \/ PodVanishes(c, i)
                        \/ PodUnready(c, i)

\* Nothing of cluster d changes.
Same(d) ==
    /\ api'[d] = api[d] /\ cache'[d] = cache[d] /\ conflict' \cap {d} = conflict \cap {d}
    /\ pods'[d] = pods[d] /\ ready'[d] = ready[d]
    /\ pc'[d] = pc[d] /\ sig'[d] = sig[d] /\ cl'[d] = cl[d]
    /\ up'[d] = up[d] /\ idx'[d] = idx[d]

\* The step of a reconcile leaves resource and pods of cluster c alone.
Outside(c) ==
    /\ api'[c] = api[c] /\ cache'[c] = cache[c] /\ conflict' = conflict
    /\ pods'[c] = pods[c] /\ ready'[c] = ready[c]

\* What Return, GotoSignal, GotoPods, NextPod and RemovePod do to the cluster
\* they are about.
LEMMA LocalEffects ==
    ASSUME TypeOK, NEW c \in Clusters
    PROVE  /\ Return(c) => /\ pc'[c] = "idle" /\ sig'[c] = "reconciled"
                           /\ cl'[c] = NoResource /\ up'[c] = FALSE /\ idx'[c] = 0
           /\ \A s, o : GotoSignal(c, s, o)
                        => /\ pc'[c] = "patch" /\ sig'[c] = s /\ cl'[c] = o
                           /\ up'[c] = up[c] /\ idx'[c] = idx[c]
           /\ \A o : GotoPods(c, o)
                     => /\ pc'[c] = "ensurePods" /\ sig'[c] = "reconciled"
                        /\ cl'[c] = o /\ up'[c] = up[c] /\ idx'[c] = 0
           /\ NextPod(c) => /\ pc'[c] = "ensurePods" /\ idx'[c] = idx[c] + 1
                            /\ sig'[c] = sig[c] /\ cl'[c] = cl[c] /\ up'[c] = up[c]
           /\ RemovePod(c) /\ idx[c] \in Index
              => /\ pods'[c] = [pods[c] EXCEPT ![idx[c]] = NoVersion]
                 /\ ready'[c] = ready[c] \ {idx[c]}
BY DEF TypeOK, Return, GotoSignal, GotoPods, NextPod, RemovePod

\* Nothing that is done for one cluster touches another.
LEMMA OthersSame ==
    ASSUME TypeOK, NEW c \in Clusters, NEW d \in Clusters, c # d, OwnStep(c)
    PROVE  Same(d)
<1> USE DEF resourceVars, podVars, backupVars, localVars, Same, TypeOK
<1>1. ASSUME Return(c) \/ NextPod(c) \/ (\E s, o : GotoSignal(c, s, o)) \/ \E o : GotoPods(c, o)
      PROVE  /\ pc'[d] = pc[d] /\ sig'[d] = sig[d] /\ cl'[d] = cl[d]
             /\ up'[d] = up[d] /\ idx'[d] = idx[d]
  BY <1>1 DEF Return, NextPod, GotoSignal, GotoPods
<1>2. CASE BeginPods(c) \/ BeginBackup(c) \/ BeginCheck(c)
  BY <1>2 DEF BeginPods, BeginBackup, BeginCheck, Begin
<1>3. CASE Patch(c)
  BY <1>3 DEF Patch
<1>4. CASE UpdateStatus(c)
  <2>1. api'[d] = api[d] /\ pods' = pods /\ ready' = ready /\ cache' = cache /\ conflict' = conflict
    BY <1>4 DEF UpdateStatus
  <2>2. AfterSignal(c, Signalled(sig[c], cl[c]))
    BY <1>4 DEF UpdateStatus
  <2>3. CASE sig[c] = "backupStarted"
    BY <2>1, <2>2, <2>3 DEF AfterSignal
  <2>4. CASE sig[c] # "backupStarted"
    BY <1>1, <2>1, <2>2, <2>4 DEF AfterSignal
  <2>5. QED
    BY <2>3, <2>4
<1>5. CASE UpdateStatusConflict(c) \/ PatchClusterFails(c)
  BY <1>1, <1>5 DEF UpdateStatusConflict, PatchClusterFails, SignalError
<1>6. CASE \E ns \in NamespacesOf[c] : CreateNamespaceBackup(c, ns)
  BY <1>6 DEF CreateNamespaceBackup
<1>7. CASE \/ \E ns \in NamespacesOf[c] : BackupAlreadyExists(c, ns)
           \/ BackupsCreated(c) \/ BackupsPending(c) \/ PodUnreachable(c) \/ PodGone(c)
           \/ Abort(c)
  BY <1>1, <1>7 DEF BackupAlreadyExists, BackupsCreated, BackupsPending, PodUnreachable,
     PodGone, Abort
<1>8. CASE BackupsFinished(c) \/ BackupsFailed(c) \/ KeepPod(c) \/ PodSkipped(c) \/ PodIsReady(c) \/ PodsDone(c)
  BY <1>1, <1>8 DEF BackupsFinished, BackupsFailed, KeepPod, PodSkipped, PodIsReady, PodsDone
<1>9. CASE DeleteOutdatedPod(c) \/ DeleteFailedPod(c)
  BY <1>9 DEF DeleteOutdatedPod, DeleteFailedPod, RemovePod
<1>10. CASE DeleteIsolatedPod(c) \/ PodFails(c)
  BY <1>1, <1>10 DEF DeleteIsolatedPod, PodFails, RemovePod
<1>11. CASE CreatePod(c)
  BY <1>11 DEF CreatePod
<1>12. CASE SyncCache(c) \/ \E v \in Versions : UserUpgrade(c, v)
  BY <1>12 DEF SyncCache, UserUpgrade
<1>13. CASE \E i \in Index : \/ PodBecomesReady(c, i) \/ PodVanishes(c, i)
                            \/ PodUnready(c, i)
  BY <1>13 DEF PodBecomesReady, PodVanishes, PodUnready
<1>14. QED
  BY <1>2, <1>3, <1>4, <1>5, <1>6, <1>7, <1>8, <1>9, <1>10, <1>11, <1>12, <1>13
     DEF OwnStep, Reconcile

\* Seen from one cluster, a step is its own or changes nothing of it.
LEMMA OwnOrSame ==
    ASSUME TypeOK, [Next]_vars, NEW d \in Clusters
    PROVE  OwnStep(d) \/ Same(d)
<1> USE DEF resourceVars, podVars, backupVars, localVars
<1>1. CASE UNCHANGED vars
  BY <1>1 DEF vars, Same
<1>2. CASE \E c \in Clusters : OwnStep(c)
  BY <1>2, OthersSame
<1>3. CASE \E b \in BackupName, s \in {"finished", "failed"} : BackupEnds(b, s)
  BY <1>3 DEF BackupEnds, Same
<1>4. QED
  BY <1>1, <1>2, <1>3 DEF Next, OwnStep

\* Faults are only ever counted.
LEMMA FaultsGrow ==
    ASSUME TypeOK, [Next]_vars
    PROVE  faults' >= faults /\ faults \in Nat /\ faults' \in Nat
<1>1. faults \in Nat
  BY ConstantsAssumption DEF TypeOK
<1>2. faults' = faults \/ faults' = faults + 1
  BY DEF Next, Reconcile, vars, BeginPods, BeginBackup, BeginCheck, Begin, Patch, UpdateStatus,
     UpdateStatusConflict, CreateNamespaceBackup, BackupAlreadyExists, BackupsCreated,
     BackupsFinished, BackupsFailed, BackupsPending, KeepPod, PodSkipped, PodUnreachable,
     DeleteOutdatedPod, DeleteIsolatedPod, DeleteFailedPod, CreatePod, PodIsReady, PodFails,
     PodGone, PodsDone, PatchClusterFails, Abort, SyncCache, UserUpgrade, PodBecomesReady,
     PodVanishes, PodUnready, BackupEnds
<1>3. QED
  BY <1>1, <1>2

\* What the two calls of patchCluster do to a resource.
LEMMA PatchEffects ==
    ASSUME TypeOK, NEW c \in Clusters
    PROVE  /\ Patch(c)
              => /\ api'[c].spec = api[c].spec /\ api'[c].ver = api[c].ver
                 /\ api'[c].conds = api[c].conds
                 /\ \/ api'[c].ann = api[c].ann
                    \/ api'[c].ann = NewAnnotation(sig[c], cl[c])
                 /\ pc'[c] = "updateStatus"
                 /\ c \notin conflict'
           /\ UpdateStatus(c)
              => /\ api'[c].spec = api[c].spec /\ api'[c].ann = api[c].ann
                 /\ api'[c].ver = NewVersion(sig[c], cl[c])
                 /\ api'[c].conds = cl[c].conds \cup NewConditions(sig[c])
<1>1. api[c] \in Resource
  BY DEF TypeOK
<1>2. ASSUME Patch(c)
      PROVE  /\ api'[c].spec = api[c].spec /\ api'[c].ver = api[c].ver
             /\ api'[c].conds = api[c].conds
             /\ \/ api'[c].ann = api[c].ann
                \/ api'[c].ann = NewAnnotation(sig[c], cl[c])
             /\ pc'[c] = "updateStatus"
             /\ c \notin conflict'
  <2>1. api'[c] = Patched(c) /\ pc'[c] = "updateStatus" /\ c \notin conflict'
    BY <1>2 DEF Patch, TypeOK
  <2>2. \/ Patched(c) = api[c]
        \/ Patched(c) = [api[c] EXCEPT !.ann = NewAnnotation(sig[c], cl[c])]
    BY DEF Patched, Signalled
  <2>3. QED
    BY <1>1, <2>1, <2>2 DEF Resource
<1>3. ASSUME UpdateStatus(c)
      PROVE  /\ api'[c].spec = api[c].spec /\ api'[c].ann = api[c].ann
             /\ api'[c].ver = NewVersion(sig[c], cl[c])
             /\ api'[c].conds = cl[c].conds \cup NewConditions(sig[c])
  <2> DEFINE new == Signalled(sig[c], cl[c])
  <2>1. new.ver = NewVersion(sig[c], cl[c]) /\ new.conds = cl[c].conds \cup NewConditions(sig[c])
    BY DEF Signalled
  <2>2. api' = [api EXCEPT ![c].ver = new.ver, ![c].conds = new.conds]
    BY <1>3 DEF UpdateStatus
  <2> HIDE DEF new
  <2>3. api'[c] = [api[c] EXCEPT !.ver = new.ver, !.conds = new.conds]
    BY <2>2 DEF TypeOK
  <2>4. QED
    BY <1>1, <2>1, <2>3 DEF Resource
<1>4. QED
  BY <1>2, <1>3

-----------------------------------------------------------------------------
(* Pods are restarted one at a time.                                       *)

\* Nothing interrupts a reconcile, and pods stay as the operator left them.
Uninterrupted == MaxFaults = 0 /\ PodsDisturbed = FALSE

InLoop(c) == pc[c] \in {"ensurePods", "waitPod"}
Writing(c) == pc[c] \in {"patch", "updateStatus"}

\* A pod that is there is ready, but for the one that is waited for; and it
\* can only be ready if it can run.
PodsUp(c) ==
    /\ \A i \in Index :
         pods[c][i] # NoVersion => i \in ready[c] \/ (pc[c] = "waitPod" /\ i = idx[c])
    /\ ready[c] \subseteq RunningPods(c)
    /\ pc[c] = "waitPod" => pods[c][idx[c]] = cl[c].spec

\* Once a version is recorded, there always is one, however stale the copy
\* that a reconcile works on.
Recorded(c) ==
    /\ cache[c].ver # NoVersion => api[c].ver # NoVersion
    /\ cl[c].ver # NoVersion => api[c].ver # NoVersion
    /\ pc[c] = "idle" => idx[c] = 0 /\ up[c] = FALSE
    /\ pc[c] # "idle" => cl[c].spec # NoVersion
    /\ \/ up[c] = TRUE
       \/ Writing(c) /\ sig[c] # "reconciled"
       \/ pc[c] \in {"backupCluster", "checkBackups"}
       => cl[c].ver # NoVersion

\* The loop leaves no pod behind that is not ready, and the first pod it
\* recreates shows whether the version can run.
LoopInOrder(c) ==
    /\ InLoop(c) => \A i \in Index : i < idx[c] => i \in ready[c]
    /\ InLoop(c) /\ up[c] = TRUE /\ idx[c] > 0 => cl[c].spec \notin BrokenVersions
    /\ Writing(c) /\ sig[c] = "reconciled" => Index \subseteq ready[c]

\* At most one pod is not ready: the one the loop is at, or pod 0, with which
\* an upgrade to a version that cannot run ends.
OneDown(c) ==
    api[c].ver # NoVersion
    => /\ InLoop(c) => Index \ ready[c] \subseteq {idx[c]}
       /\ InLoop(c) /\ up[c] = FALSE /\ idx[c] > 0 => Index \subseteq ready[c]
       /\ ~InLoop(c) => Index \ ready[c] \subseteq {0}

RolloutOK(c) == PodsUp(c) /\ Recorded(c) /\ LoopInOrder(c) /\ OneDown(c)

\* The inductive invariant of OneNodeAtATime.
OneNodeInv == \A c \in Clusters : RolloutOK(c)


\* The types that the steps below need of one cluster.
LEMMA ClusterTypes ==
    ASSUME TypeOK, NEW c \in Clusters
    PROVE  /\ api[c] \in Resource /\ cache[c] \in Resource /\ cl[c] \in LocalResource
           /\ pods[c] \in [Index -> VersionOrNone] /\ ready[c] \subseteq Index
           /\ idx[c] \in 0 .. Nodes /\ up[c] \in BOOLEAN /\ sig[c] \in Signal
           /\ cache[c].spec # NoVersion /\ api[c].spec # NoVersion
           /\ NoResource.ver = NoVersion
<1>1. /\ api[c] \in Resource /\ cache[c] \in Resource /\ cl[c] \in LocalResource
      /\ pods[c] \in [Index -> VersionOrNone] /\ ready[c] \subseteq Index
      /\ idx[c] \in 0 .. Nodes /\ up[c] \in BOOLEAN /\ sig[c] \in Signal
  BY DEF TypeOK
<1>2. cache[c].spec # NoVersion /\ api[c].spec # NoVersion
  BY <1>1, ConstantsAssumption DEF Resource
<1>3. NoResource.ver = NoVersion
  BY DEF NoResource, NewResource
<1>4. QED
  BY <1>1, <1>2, <1>3

\* When the loop is not in the middle of a restart, the pods that are ready
\* are those that are running.
LEMMA ReadyIsRunning ==
    ASSUME TypeOK, NEW c \in Clusters, PodsUp(c), pc[c] # "waitPod"
    PROVE  /\ RunningPods(c) = ready[c]
           /\ ~(GetClusterSize(c) < Cardinality(RunningPods(c)))
<1>1. RunningPods(c) \subseteq ready[c]
  BY DEF PodsUp, RunningPods
<1>2. RunningPods(c) = ready[c]
  BY <1>1 DEF PodsUp
<1>3. Index \in SUBSET Index /\ IsFiniteSet(Index)
  BY ConstantsAssumption, FS_Interval DEF Index
<1>4. IsFiniteSet(ready[c])
  BY <1>3, ClusterTypes, FS_Subset
<1>5. Cardinality(ready[c]) \in Nat
  BY <1>4, FS_CardinalityType
<1>6. ~(Cardinality(ready[c]) < Cardinality(ready[c]))
  BY <1>5
<1>7. QED
  BY <1>2, <1>6 DEF GetClusterSize

\* A step between two points outside the loop of ensurePods that leaves the
\* pods alone, and records a version only if every pod is ready.
LEMMA OutsideLoop ==
    ASSUME TypeOK, NEW c \in Clusters, RolloutOK(c), ~InLoop(c),
           pods'[c] = pods[c], ready'[c] = ready[c],
           pc'[c] \notin {"ensurePods", "waitPod"},
           api'[c].ver # NoVersion => api[c].ver # NoVersion \/ Index \subseteq ready[c]
    PROVE  PodsUp(c)' /\ OneDown(c)'
<1>1. PodsUp(c)'
  BY DEF RolloutOK, PodsUp, InLoop, RunningPods
<1>2. OneDown(c)'
  BY DEF RolloutOK, OneDown, InLoop
<1>3. QED
  BY <1>1, <1>2

\* A reconcile begins, from a copy that may be stale.
LEMMA BeginRollout ==
    ASSUME TypeOK, NEW c \in Clusters, RolloutOK(c),
           BeginPods(c) \/ BeginBackup(c) \/ BeginCheck(c)
    PROVE  RolloutOK(c)'
<1>1. PICK p \in {"ensurePods", "patch", "checkBackups"}, s \in Signal :
        /\ Begin(c, p, s)
        /\ p # "ensurePods" => cache[c].ver # NoVersion
        /\ p = "patch" => s # "reconciled"
  BY DEF BeginPods, BeginBackup, BeginCheck, Signal, IsUpgrade
<1>2. /\ pc[c] = "idle" /\ pc'[c] = p /\ sig'[c] = s /\ cl'[c] = cache[c]
      /\ idx'[c] = 0 /\ Outside(c)
  BY <1>1 DEF Begin, TypeOK, RolloutOK, Recorded, Outside, resourceVars, podVars
<1>3. up'[c] = TRUE => cache[c].ver # NoVersion
  BY <1>1 DEF Begin, TypeOK, IsUpgrade
<1>4. PodsUp(c)'
  BY <1>2 DEF RolloutOK, PodsUp, RunningPods, Outside
<1>5. Recorded(c)'
  BY <1>1, <1>2, <1>3, ClusterTypes DEF RolloutOK, Recorded, Outside, Writing
<1>6. LoopInOrder(c)'
  <2>1. \A i \in Index : ~(i < 0)
    BY DEF Index
  <2>2. ~(0 > 0)
    OBVIOUS
  <2>3. QED
    BY <1>1, <1>2, <2>1, <2>2 DEF LoopInOrder, InLoop, Writing
<1>7. OneDown(c)'
  <2>1. ~(0 > 0)
    OBVIOUS
  <2>2. QED
    BY <1>2, <2>1 DEF RolloutOK, OneDown, InLoop, Outside
<1>8. QED
  BY <1>4, <1>5, <1>6, <1>7 DEF RolloutOK

\* A reconcile ends outside the loop of ensurePods.
LEMMA ReturnRollout ==
    ASSUME TypeOK, NEW c \in Clusters, RolloutOK(c), ~InLoop(c), Return(c),
           pods'[c] = pods[c], ready'[c] = ready[c], cache'[c] = cache[c],
           api[c].ver # NoVersion => api'[c].ver # NoVersion,
           api'[c].ver # NoVersion => api[c].ver # NoVersion \/ Index \subseteq ready[c]
    PROVE  RolloutOK(c)'
<1>1. pc'[c] = "idle" /\ cl'[c] = NoResource /\ up'[c] = FALSE /\ idx'[c] = 0
  BY LocalEffects
<1>2. PodsUp(c)' /\ OneDown(c)'
  BY <1>1, OutsideLoop
<1>3. Recorded(c)' /\ LoopInOrder(c)'
  BY <1>1, ClusterTypes DEF RolloutOK, Recorded, LoopInOrder, InLoop, Writing
<1>4. QED
  BY <1>2, <1>3 DEF RolloutOK

\* A reconcile goes on with a signal.
LEMMA SignalRollout ==
    ASSUME TypeOK, NEW c \in Clusters, RolloutOK(c), ~InLoop(c), NEW s, NEW o,
           GotoSignal(c, s, o), s # "reconciled",
           o.spec # NoVersion, o.ver # NoVersion, api'[c].ver # NoVersion,
           pods'[c] = pods[c], ready'[c] = ready[c], cache'[c] = cache[c],
           api[c].ver # NoVersion \/ Index \subseteq ready[c]
    PROVE  RolloutOK(c)'
<1>1. /\ pc'[c] = "patch" /\ sig'[c] = s /\ cl'[c] = o
      /\ up'[c] = up[c] /\ idx'[c] = idx[c]
  BY LocalEffects
<1>2. PodsUp(c)' /\ OneDown(c)'
  BY <1>1, OutsideLoop
<1>3. Recorded(c)' /\ LoopInOrder(c)'
  BY <1>1 DEF RolloutOK, Recorded, LoopInOrder, InLoop, Writing
<1>4. QED
  BY <1>2, <1>3 DEF RolloutOK

\* patchCluster: a version is recorded once every pod has been seen ready.
LEMMA PatchRollout ==
    ASSUME TypeOK, NEW c \in Clusters, RolloutOK(c), Patch(c)
    PROVE  RolloutOK(c)'
<1>1. /\ pc[c] = "patch" /\ pc'[c] = "updateStatus" /\ api'[c].ver = api[c].ver
      /\ pods' = pods /\ ready' = ready /\ cache' = cache
      /\ cl' = cl /\ sig' = sig /\ up' = up /\ idx' = idx
  BY PatchEffects DEF Patch, podVars
<1>2. PodsUp(c)' /\ OneDown(c)'
  BY <1>1, OutsideLoop DEF InLoop
<1>3. Recorded(c)' /\ LoopInOrder(c)'
  BY <1>1 DEF RolloutOK, Recorded, LoopInOrder, InLoop, Writing
<1>4. QED
  BY <1>2, <1>3 DEF RolloutOK

LEMMA UpdateStatusRollout ==
    ASSUME TypeOK, NEW c \in Clusters, RolloutOK(c), UpdateStatus(c)
    PROVE  RolloutOK(c)'
<1> DEFINE new == Signalled(sig[c], cl[c])
<1>1. /\ pc[c] = "updateStatus" /\ AfterSignal(c, new)
      /\ pods' = pods /\ ready' = ready /\ cache' = cache
  BY DEF UpdateStatus, podVars
<1>2. new.spec = cl[c].spec /\ new.ver = NewVersion(sig[c], cl[c])
  BY DEF Signalled
<1>3. api'[c].ver = new.ver
  BY <1>2, PatchEffects
<1> HIDE DEF new
<1>4. new.spec # NoVersion /\ new.ver # NoVersion
  BY <1>1, <1>2 DEF RolloutOK, Recorded, Writing, NewVersion
<1>5. api[c].ver # NoVersion \/ Index \subseteq ready[c]
  BY <1>1 DEF RolloutOK, Recorded, LoopInOrder, Writing
<1>6. ~InLoop(c)
  BY <1>1 DEF InLoop
<1>7. CASE sig[c] = "backupStarted"
  <2>1. /\ pc'[c] = "backupCluster" /\ cl'[c] = new
        /\ up'[c] = up[c] /\ idx'[c] = idx[c]
    BY <1>1, <1>7 DEF AfterSignal, TypeOK
  <2>2. PodsUp(c)' /\ OneDown(c)'
    BY <1>1, <1>5, <1>6, <2>1, OutsideLoop
  <2>3. Recorded(c)' /\ LoopInOrder(c)'
    BY <1>1, <1>3, <1>4, <2>1 DEF RolloutOK, Recorded, LoopInOrder, InLoop, Writing
  <2>4. QED
    BY <2>2, <2>3 DEF RolloutOK
<1>8. CASE Return(c)
  BY <1>1, <1>3, <1>4, <1>5, <1>6, <1>8, ReturnRollout
<1>9. CASE \E s \in {"upgradeStarted", "upgradeFailed", "upgradeFinished"} : GotoSignal(c, s, new)
  BY <1>1, <1>3, <1>4, <1>5, <1>6, <1>9, SignalRollout
<1>10. CASE sig[c] = "upgradeStarted" /\ GotoPods(c, new)
  <2>1. pc'[c] = "ensurePods" /\ cl'[c] = new /\ up'[c] = up[c] /\ idx'[c] = 0
    BY <1>10, LocalEffects
  <2>2. ~(0 > 0) /\ \A i \in Index : ~(i < 0)
    BY DEF Index
  <2>3. api[c].ver # NoVersion
    BY <1>1, <1>10 DEF RolloutOK, Recorded, Writing
  <2>4. PodsUp(c)'
    BY <1>1, <2>1 DEF RolloutOK, PodsUp, RunningPods
  <2>5. Recorded(c)'
    BY <1>1, <1>3, <1>4, <2>1 DEF RolloutOK, Recorded, Writing
  <2>6. LoopInOrder(c)'
    BY <2>1, <2>2 DEF LoopInOrder, InLoop, Writing
  <2>7. OneDown(c)'
    BY <1>1, <1>6, <2>1, <2>2, <2>3 DEF RolloutOK, OneDown, InLoop
  <2>8. QED
    BY <2>4, <2>5, <2>6, <2>7 DEF RolloutOK
<1>11. QED
  BY <1>1, <1>7, <1>8, <1>9, <1>10 DEF AfterSignal

\* The pre-upgrade backup: the pods are left alone.
LEMMA BackupRollout ==
    ASSUME TypeOK, NEW c \in Clusters, RolloutOK(c),
           \/ \E ns \in NamespacesOf[c] : CreateNamespaceBackup(c, ns) \/ BackupAlreadyExists(c, ns)
           \/ BackupsCreated(c) \/ BackupsFinished(c) \/ BackupsFailed(c) \/ BackupsPending(c)
    PROVE  RolloutOK(c)'
<1> USE DEF resourceVars, podVars, backupVars
<1>1. pc[c] \in {"backupCluster", "checkBackups"} /\ Outside(c)
  BY DEF CreateNamespaceBackup, BackupAlreadyExists, BackupsCreated, BackupsFinished,
     BackupsFailed, BackupsPending, Outside
<1>2. ~InLoop(c) /\ cl[c].ver # NoVersion /\ cl[c].spec # NoVersion /\ api[c].ver # NoVersion
  BY <1>1 DEF InLoop, RolloutOK, Recorded
<1>3. CASE \E ns \in NamespacesOf[c] : CreateNamespaceBackup(c, ns)
  <2>1. Same(c)
    BY <1>1, <1>3 DEF CreateNamespaceBackup, Same, Outside
  <2>2. QED
    BY <2>1 DEF RolloutOK, PodsUp, Recorded, LoopInOrder, OneDown, Same, InLoop, Writing,
       RunningPods
<1>4. CASE Return(c)
  BY <1>1, <1>2, <1>4, ReturnRollout DEF Outside
<1>5. CASE \E s \in {"backupFinished", "backupFailed"} : GotoSignal(c, s, cl[c])
  BY <1>1, <1>2, <1>5, SignalRollout DEF Outside
<1>6. QED
  BY <1>3, <1>4, <1>5
     DEF BackupAlreadyExists, BackupsCreated, BackupsFinished, BackupsFailed, BackupsPending

\* A write conflict ends the reconcile, or leads to the next signal.
LEMMA ConflictRollout ==
    ASSUME TypeOK, NEW c \in Clusters, RolloutOK(c), UpdateStatusConflict(c)
    PROVE  RolloutOK(c)'
<1> DEFINE new == Signalled(sig[c], cl[c])
<1>1. pc[c] = "updateStatus" /\ Outside(c) /\ SignalError(c)
  BY DEF UpdateStatusConflict, Outside, resourceVars, podVars
<1>2. ~InLoop(c) /\ cl[c].spec # NoVersion
  BY <1>1 DEF InLoop, RolloutOK, Recorded
<1>3. CASE Return(c)
  BY <1>1, <1>2, <1>3, ReturnRollout DEF Outside
<1>4. CASE sig[c] = "backupFailed" /\ GotoSignal(c, "upgradeFailed", new)
  <2>1. cl[c].ver # NoVersion /\ api[c].ver # NoVersion
    BY <1>1, <1>4 DEF RolloutOK, Recorded, Writing
  <2>2. new.spec # NoVersion /\ new.ver # NoVersion
    BY <1>2, <1>4, <2>1 DEF Signalled, NewVersion
  <2> HIDE DEF new
  <2>3. QED
    BY <1>1, <1>2, <1>4, <2>1, <2>2, SignalRollout DEF Outside
<1>5. QED
  BY <1>1, <1>3, <1>4 DEF SignalError

\* The loop moves on from a pod that is ready.
LEMMA NextPodRollout ==
    ASSUME Uninterrupted, TypeOK, NEW c \in Clusters, RolloutOK(c), KeepPod(c) \/ PodIsReady(c)
    PROVE  RolloutOK(c)'
<1>1. /\ InLoop(c) /\ NextPod(c) /\ Outside(c)
      /\ up[c] = TRUE => pods[c][idx[c]] = cl[c].spec
  BY DEF KeepPod, PodIsReady, InLoop, Outside, resourceVars, podVars, NeedsUpgrade, Pod,
     RolloutOK, PodsUp
<1>2. idx[c] \in ready[c] /\ idx[c] \in RunningPods(c)
  <2>1. CASE KeepPod(c)
    BY <2>1, ReadyIsRunning DEF KeepPod, RolloutOK
  <2>2. CASE PodIsReady(c)
    BY <2>2 DEF PodIsReady, RolloutOK, PodsUp
  <2>3. QED
    BY <2>1, <2>2
<1>3. /\ pc'[c] = "ensurePods" /\ idx'[c] = idx[c] + 1
      /\ sig'[c] = sig[c] /\ cl'[c] = cl[c] /\ up'[c] = up[c]
  BY <1>1, LocalEffects
<1>4. /\ \A i \in Index : i < idx[c] + 1 => i < idx[c] \/ i = idx[c]
      /\ idx[c] + 1 > 0
  BY ClusterTypes, ConstantsAssumption DEF Index
<1>5. PodsUp(c)'
  BY <1>1, <1>2, <1>3 DEF RolloutOK, PodsUp, RunningPods, Outside
<1>6. Recorded(c)'
  BY <1>1, <1>3 DEF RolloutOK, Recorded, Outside, InLoop, Writing
<1>7. LoopInOrder(c)'
  <2>1. up[c] = TRUE => cl[c].spec \notin BrokenVersions
    BY <1>1, <1>2 DEF RunningPods, InFailureState
  <2>2. \A i \in Index : i < idx[c] + 1 => i \in ready[c]
    BY <1>1, <1>2, <1>4 DEF RolloutOK, LoopInOrder
  <2>3. QED
    BY <1>1, <1>3, <2>1, <2>2 DEF LoopInOrder, InLoop, Outside, Writing
<1>8. OneDown(c)'
  BY <1>1, <1>2, <1>3 DEF RolloutOK, OneDown, InLoop, Outside
<1>9. QED
  BY <1>5, <1>6, <1>7, <1>8 DEF RolloutOK

\* A pod is deleted, to be created again: it is the one the loop is at.
LEMMA DeletePodRollout ==
    ASSUME Uninterrupted, TypeOK, NEW c \in Clusters, RolloutOK(c),
           DeleteOutdatedPod(c) \/ DeleteFailedPod(c)
    PROVE  RolloutOK(c)'
<1>1. DeleteOutdatedPod(c)
  <2>1. SUFFICES ASSUME DeleteFailedPod(c) PROVE FALSE
    OBVIOUS
  <2>2. /\ pc[c] = "ensurePods" /\ idx[c] \in Index
        /\ pods[c][idx[c]] \in BrokenVersions
    BY <2>1 DEF DeleteFailedPod, InFailureState, Pod
  <2>3. pods[c][idx[c]] # NoVersion
    BY <2>2, ConstantsAssumption
  <2>4. idx[c] \in RunningPods(c)
    BY <2>2, <2>3 DEF RolloutOK, PodsUp
  <2>5. QED
    BY <2>2, <2>4 DEF RunningPods, InFailureState
<1>2. /\ pc[c] = "ensurePods" /\ idx[c] \in Index /\ RemovePod(c) /\ up[c] = TRUE
      /\ api' = api /\ cache' = cache /\ pc' = pc /\ sig' = sig /\ cl' = cl
      /\ up' = up /\ idx' = idx
  BY <1>1, ClusterTypes
     DEF DeleteOutdatedPod, RunningPods, NeedsUpgrade, resourceVars, localVars
<1>3. /\ pods'[c] = [pods[c] EXCEPT ![idx[c]] = NoVersion]
      /\ ready'[c] = ready[c] \ {idx[c]}
  BY <1>2, LocalEffects
<1>4. PodsUp(c)'
  BY <1>2, <1>3, ClusterTypes DEF RolloutOK, PodsUp, RunningPods
<1>5. Recorded(c)'
  BY <1>2 DEF RolloutOK, Recorded, Writing
<1>6. LoopInOrder(c)'
  <2>1. ~(idx[c] < idx[c])
    BY <1>2 DEF Index
  <2>2. QED
    BY <1>2, <1>3, <2>1 DEF RolloutOK, LoopInOrder, InLoop, Writing
<1>7. OneDown(c)'
  BY <1>2, <1>3 DEF RolloutOK, OneDown, InLoop
<1>8. QED
  BY <1>4, <1>5, <1>6, <1>7 DEF RolloutOK

\* The pod the loop is at is created, and waited for.
LEMMA CreatePodRollout ==
    ASSUME TypeOK, NEW c \in Clusters, RolloutOK(c), CreatePod(c)
    PROVE  RolloutOK(c)'
<1>1. /\ pc[c] = "ensurePods" /\ idx[c] \in Index /\ pods[c][idx[c]] = NoVersion
      /\ pods'[c] = [pods[c] EXCEPT ![idx[c]] = cl[c].spec] /\ pc'[c] = "waitPod"
      /\ api' = api /\ cache' = cache /\ ready' = ready /\ sig' = sig /\ cl' = cl
      /\ up' = up /\ idx' = idx
  BY DEF CreatePod, Pod, TypeOK, resourceVars
<1>2. idx[c] \notin ready[c]
  BY <1>1 DEF RolloutOK, PodsUp, RunningPods
<1>3. PodsUp(c)'
  BY <1>1, <1>2, ClusterTypes DEF RolloutOK, PodsUp, RunningPods
<1>4. Recorded(c)' /\ LoopInOrder(c)' /\ OneDown(c)'
  BY <1>1 DEF RolloutOK, Recorded, LoopInOrder, OneDown, InLoop, Writing
<1>5. QED
  BY <1>3, <1>4 DEF RolloutOK

\* The pod that is waited for fails: it is pod 0, once a version is recorded.
LEMMA PodFailsRollout ==
    ASSUME TypeOK, NEW c \in Clusters, RolloutOK(c), PodFails(c)
    PROVE  RolloutOK(c)'
<1>1. /\ pc[c] = "waitPod" /\ pods[c][idx[c]] \in BrokenVersions /\ RemovePod(c) /\ Return(c)
      /\ api' = api /\ cache' = cache
  BY DEF PodFails, InFailureState, Pod, resourceVars
<1>2. cl[c].spec \in BrokenVersions /\ InLoop(c)
  BY <1>1 DEF RolloutOK, PodsUp, InLoop
<1>3. /\ pc'[c] = "idle" /\ cl'[c] = NoResource /\ up'[c] = FALSE /\ idx'[c] = 0
  BY <1>1, LocalEffects
<1>4. /\ \A i \in Index : pods'[c][i] \in {pods[c][i], NoVersion}
      /\ \A i \in Index : i # idx[c] => pods'[c][i] = pods[c][i]
      /\ idx[c] \in Index => pods'[c][idx[c]] = NoVersion
      /\ ready'[c] = ready[c] \ {idx[c]}
  BY <1>1, ClusterTypes DEF RemovePod, TypeOK
<1>5. PodsUp(c)'
  BY <1>1, <1>3, <1>4, ClusterTypes DEF RolloutOK, PodsUp, RunningPods
<1>6. Recorded(c)' /\ LoopInOrder(c)'
  BY <1>1, <1>3, ClusterTypes DEF RolloutOK, Recorded, LoopInOrder, InLoop, Writing
<1>7. OneDown(c)'
  <2>1. SUFFICES ASSUME api[c].ver # NoVersion
                 PROVE  Index \ ready'[c] \subseteq {0}
    BY <1>1, <1>3 DEF OneDown, InLoop
  <2>2. Index \ ready[c] \subseteq {idx[c]}
    BY <1>2, <2>1 DEF RolloutOK, OneDown
  <2>3. ~(idx[c] > 0) \/ idx[c] \notin Index
    <3>1. ASSUME idx[c] > 0, idx[c] \in Index PROVE FALSE
      <4>1. up[c] = FALSE
        BY <1>2, <3>1, ClusterTypes DEF RolloutOK, LoopInOrder
      <4>2. Index \subseteq ready[c]
        BY <1>2, <2>1, <3>1, <4>1 DEF RolloutOK, OneDown
      <4>3. idx[c] \in RunningPods(c)
        BY <3>1, <4>2 DEF RolloutOK, PodsUp
      <4>4. QED
        BY <1>1, <4>3 DEF RunningPods, InFailureState
    <3>2. QED
      BY <3>1
  <2>4. idx[c] \in Index => idx[c] = 0
    BY <2>3 DEF Index
  <2>5. QED
    BY <1>4, <2>2, <2>4
<1>8. QED
  BY <1>5, <1>6, <1>7 DEF RolloutOK

\* The loop ends with every pod ready.
LEMMA PodsDoneRollout ==
    ASSUME TypeOK, NEW c \in Clusters, RolloutOK(c), PodsDone(c)
    PROVE  RolloutOK(c)'
<1>1. pc[c] = "ensurePods" /\ idx[c] = Nodes /\ Outside(c)
  BY DEF PodsDone, Outside, resourceVars, podVars
<1>2. Index \subseteq ready[c]
  <2>1. \A i \in Index : i < Nodes
    BY ConstantsAssumption DEF Index
  <2>2. QED
    BY <1>1, <2>1 DEF RolloutOK, LoopInOrder, InLoop
<1>3. CASE Return(c)
  <2>1. pc'[c] = "idle" /\ cl'[c] = NoResource /\ up'[c] = FALSE /\ idx'[c] = 0
    BY <1>3, LocalEffects
  <2>2. QED
    BY <1>1, <1>2, <2>1, ClusterTypes DEF RolloutOK, PodsUp, Recorded, LoopInOrder, OneDown,
       InLoop, Writing, Outside, RunningPods
<1>4. CASE GotoSignal(c, "reconciled", cl[c])
  <2>1. /\ pc'[c] = "patch" /\ sig'[c] = "reconciled" /\ cl'[c] = cl[c]
        /\ up'[c] = up[c] /\ idx'[c] = idx[c]
    BY <1>4, LocalEffects
  <2>2. QED
    BY <1>1, <1>2, <2>1 DEF RolloutOK, PodsUp, Recorded, LoopInOrder, OneDown,
       InLoop, Writing, Outside, RunningPods
<1>5. QED
  BY <1>3, <1>4 DEF PodsDone

\* What cannot happen while nothing is disturbed: a pod that does not answer
\* or is gone, and a cluster that is too small.
LEMMA NoSurprises ==
    ASSUME Uninterrupted, TypeOK, NEW c \in Clusters, RolloutOK(c)
    PROVE  /\ ~PodSkipped(c) /\ ~PodUnreachable(c) /\ ~DeleteIsolatedPod(c) /\ ~PodGone(c)
           /\ ~PatchClusterFails(c) /\ ~Abort(c)
           /\ \A i \in Index : ~PodVanishes(c, i) /\ ~PodUnready(c, i)
<1>1. ~(faults < MaxFaults)
  BY DEF Uninterrupted, TypeOK
<1>2. ~PodSkipped(c) /\ \A i \in Index : ~PodVanishes(c, i) /\ ~PodUnready(c, i)
  BY DEF Uninterrupted, PodSkipped, PodVanishes, PodUnready
<1>3. ~PatchClusterFails(c) /\ ~Abort(c)
  BY <1>1 DEF PatchClusterFails, Abort
<1>4. ~PodUnreachable(c) /\ ~DeleteIsolatedPod(c)
  BY ReadyIsRunning DEF RolloutOK, PodUnreachable, DeleteIsolatedPod
<1>5. ~PodGone(c)
  BY DEF RolloutOK, PodGone, PodsUp, Recorded, Pod
<1>6. QED
  BY <1>2, <1>3, <1>4, <1>5

\* The informer, the users and the kubelet.
LEMMA OutsideRollout ==
    ASSUME TypeOK, NEW c \in Clusters, RolloutOK(c),
           \/ SyncCache(c) \/ \E v \in Versions : UserUpgrade(c, v)
           \/ \E i \in Index : PodBecomesReady(c, i)
    PROVE  RolloutOK(c)'
<1> USE DEF resourceVars, podVars, localVars
<1>1. CASE SyncCache(c)
  BY <1>1 DEF SyncCache, TypeOK, RolloutOK, PodsUp, Recorded, LoopInOrder, OneDown, InLoop,
     Writing, RunningPods
<1>2. CASE \E v \in Versions : UserUpgrade(c, v)
  <2>1. api'[c].ver = api[c].ver
    BY <1>2, ClusterTypes DEF UserUpgrade, TypeOK, Resource
  <2>2. QED
    BY <1>2, <2>1 DEF UserUpgrade, RolloutOK, PodsUp, Recorded, LoopInOrder, OneDown, InLoop,
       Writing, RunningPods
<1>3. CASE \E i \in Index : PodBecomesReady(c, i)
  <2>1. PICK i \in Index : PodBecomesReady(c, i)
    BY <1>3
  <2>2. /\ ready'[c] = ready[c] \cup {i} /\ i \in RunningPods(c)
        /\ pods' = pods /\ api' = api /\ cache' = cache /\ pc' = pc /\ sig' = sig
        /\ cl' = cl /\ up' = up /\ idx' = idx
    BY <2>1 DEF PodBecomesReady, TypeOK, RunningPods
  <2>3. QED
    BY <2>2 DEF RolloutOK, PodsUp, Recorded, LoopInOrder, OneDown, InLoop, Writing, RunningPods
<1>4. QED
  BY <1>1, <1>2, <1>3

\* The invariant of a rollout is inductive.
LEMMA NextOneNode ==
    Uninterrupted /\ TypeOK /\ OneNodeInv /\ [Next]_vars => OneNodeInv'
<1> SUFFICES ASSUME Uninterrupted, TypeOK, OneNodeInv, [Next]_vars, NEW c \in Clusters
             PROVE  RolloutOK(c)'
  BY DEF OneNodeInv
<1>1. RolloutOK(c)
  BY DEF OneNodeInv
<1>2. CASE Same(c)
  BY <1>1, <1>2 DEF RolloutOK, PodsUp, Recorded, LoopInOrder, OneDown, Same, InLoop, Writing,
     RunningPods
<1>3. CASE OwnStep(c)
  BY <1>1, <1>3, BeginRollout, PatchRollout, UpdateStatusRollout, ConflictRollout, BackupRollout,
     NextPodRollout, DeletePodRollout, CreatePodRollout, PodFailsRollout, PodsDoneRollout,
     NoSurprises, OutsideRollout
     DEF OwnStep, Reconcile
<1>4. QED
  BY <1>2, <1>3, OwnOrSame

\* At first there are no pods, and no reconcile is in progress.
LEMMA InitOneNode == Init => OneNodeInv
<1> SUFFICES ASSUME Init, NEW c \in Clusters PROVE RolloutOK(c)
  BY DEF OneNodeInv
<1>1. /\ api[c].ver = NoVersion /\ cache[c] = api[c] /\ pc[c] = "idle" /\ up[c] = FALSE
      /\ idx[c] = 0 /\ ready[c] = {} /\ cl[c].ver = NoVersion
      /\ \A i \in Index : pods[c][i] = NoVersion
  BY DEF Init, NewResource, NoResource
<1>2. QED
  BY <1>1 DEF RolloutOK, PodsUp, Recorded, LoopInOrder, OneDown, InLoop, Writing

\* Pods are restarted one at a time, however stale the copies are that
\* reconciles start from, whatever users ask for meanwhile, and even if the new
\* version cannot run: once the cluster has been created, at most one of its
\* pods is not ready.
THEOREM OneAtATime == Uninterrupted /\ Spec => []OneNodeAtATime
<1>1. TypeOK /\ OneNodeInv => OneNodeAtATime
  <2>1. SUFFICES ASSUME TypeOK, OneNodeInv, NEW c \in Clusters, api[c].ver # NoVersion
                 PROVE  Cardinality(Index \ ready[c]) <= 1
    BY DEF OneNodeAtATime
  <2>2. PICK j : Index \ ready[c] \subseteq {j}
    BY <2>1 DEF OneNodeInv, RolloutOK, OneDown
  <2>3. IsFiniteSet({j}) /\ Cardinality({j}) = 1
    BY FS_Singleton
  <2>4. Cardinality(Index \ ready[c]) <= Cardinality({j})
    BY <2>2, <2>3, FS_Subset
  <2>5. QED
    BY <2>3, <2>4
<1>2. Uninterrupted => Uninterrupted'
  BY DEF Uninterrupted
<1>3. Uninterrupted /\ Spec => []OneNodeInv
  BY <1>2, InitOneNode, NextOneNode, TypeCorrect, PTL DEF Spec
<1>4. QED
  BY <1>1, <1>3, TypeCorrect, PTL

-----------------------------------------------------------------------------
(* A failed upgrade is reported.                                           *)

\* Users change the version of a cluster only once it has the one they asked
\* for, and a reconcile starts from an up-to-date copy.
Orderly == FreshReads = TRUE /\ Patience \in {"settled", "status"}

Writes(c, s) == Writing(c) /\ sig[c] = s

\* The reconcile that finds a failed backup, up to its end.
Failing(c) ==
    pc[c] = "checkBackups" \/ Writes(c, "backupFailed") \/ Writes(c, "upgradeFailed")

\* No reconcile works on a failed upgrade but the one that marks it.
LeavesFailed(c) ==
    pc[c] # "idle"
    => /\ cl[c].ann # "failed"
       /\ api[c].ann = "failed" => pc[c] = "updateStatus" /\ sig[c] = "upgradeFailed"

\* No user gets in between the calls that mark an upgrade as failed.
Undisturbed(c) ==
    Failing(c)
    => /\ api[c].ver # api[c].spec /\ cl[c].ver = api[c].ver
       /\ pc[c] = "updateStatus" => c \notin conflict

Reports(o) == o.conds \cap {"AutoBackupFailed", "UpgradeFailed"} # {}

\* The first of the two signals has been written, unless a call has failed;
\* the second carries its condition again.
Reporting(c) ==
    /\ Writes(c, "upgradeFailed") => faults >= 1 \/ "AutoBackupFailed" \in api[c].conds
    /\ Writes(c, "upgradeFailed") => "AutoBackupFailed" \in cl[c].conds
    /\ api[c].ann = "failed"
       => \/ Reports(api[c]) \/ faults >= 2
          \/ pc[c] = "updateStatus" /\ sig[c] = "upgradeFailed"

\* The inductive invariant of FailureIsReported.
ReportOK(c) == LeavesFailed(c) /\ Undisturbed(c) /\ Reporting(c)
ReportInv == \A c \in Clusters : ReportOK(c)

\* A reconcile begins: not for a cluster whose upgrade has failed.
LEMMA BeginReport ==
    ASSUME Orderly, TypeOK, NEW c \in Clusters, ReportOK(c), faults' = faults,
           BeginPods(c) \/ BeginBackup(c) \/ BeginCheck(c)
    PROVE  ReportOK(c)'
<1>1. PICK p \in {"ensurePods", "patch", "checkBackups"}, s \in Signal :
        /\ Begin(c, p, s)
        /\ p = "checkBackups" => IsUpgrade(cache[c])
        /\ p = "patch" => s = "backupStarted"
  BY DEF BeginPods, BeginBackup, BeginCheck, Signal
<1>2. /\ pc[c] = "idle" /\ pc'[c] = p /\ sig'[c] = s /\ cl'[c] = api[c]
      /\ api' = api /\ api[c].ann # "failed" /\ cache[c] = api[c]
  BY <1>1 DEF Begin, Orderly, TypeOK, resourceVars
<1>3. LeavesFailed(c)' /\ Reporting(c)'
  BY <1>1, <1>2 DEF LeavesFailed, Reporting, Writes, Writing
<1>4. Undisturbed(c)'
  BY <1>1, <1>2 DEF Undisturbed, Failing, Writes, Writing, IsUpgrade
<1>5. QED
  BY <1>3, <1>4 DEF ReportOK

\* A reconcile ends with the failure reported, or without one.
LEMMA ReturnReport ==
    ASSUME TypeOK, NEW c \in Clusters, ReportOK(c), Return(c),
           api'[c].ann = "failed" => Reports(api'[c]) \/ faults' >= 2
    PROVE  ReportOK(c)'
<1>1. pc'[c] = "idle"
  BY LocalEffects
<1>2. QED
  BY <1>1 DEF ReportOK, LeavesFailed, Undisturbed, Reporting, Failing, Writes, Writing, Reports

\* A step of the reconcile that writes neither signal and leaves the resource
\* alone.
LEMMA QuietReport ==
    ASSUME TypeOK, NEW c \in Clusters, ReportOK(c), faults' = faults,
           pc[c] # "idle", ~Writing(c),
           api'[c] = api[c],
           \/ Return(c)
           \/ /\ cl'[c].ann = cl[c].ann
              /\ pc'[c] \notin {"checkBackups", "updateStatus"}
              /\ pc'[c] = "patch" => sig'[c] \notin {"backupFailed", "upgradeFailed"}
    PROVE  ReportOK(c)'
<1>1. api[c].ann # "failed"
  BY DEF ReportOK, LeavesFailed, Writing
<1>2. CASE Return(c)
  BY <1>1, <1>2, ReturnReport
<1>3. CASE ~Return(c)
  <2>1. LeavesFailed(c)' /\ Reporting(c)'
    BY <1>1, <1>3 DEF ReportOK, LeavesFailed, Reporting, Writes, Writing
  <2>2. Undisturbed(c)'
    BY <1>3 DEF Undisturbed, Failing, Writes, Writing
  <2>3. QED
    BY <2>1, <2>2 DEF ReportOK
<1>4. QED
  BY <1>2, <1>3

\* The check of the backups finds one that has failed, or goes on.
LEMMA CheckReport ==
    ASSUME TypeOK, NEW c \in Clusters, ReportOK(c), faults' = faults,
           BackupsFinished(c) \/ BackupsFailed(c)
    PROVE  ReportOK(c)'
<1>1. pc[c] = "checkBackups" /\ api' = api /\ conflict' = conflict
  BY DEF BackupsFinished, BackupsFailed, resourceVars
<1>2. PICK s \in {"backupFinished", "backupFailed"} : GotoSignal(c, s, cl[c])
  BY DEF BackupsFinished, BackupsFailed
<1>3. pc'[c] = "patch" /\ sig'[c] = s /\ cl'[c] = cl[c]
  BY <1>2, LocalEffects
<1>4. LeavesFailed(c)' /\ Reporting(c)'
  BY <1>1, <1>3 DEF ReportOK, LeavesFailed, Reporting, Writes, Writing
<1>5. Undisturbed(c)'
  BY <1>1, <1>3 DEF ReportOK, Undisturbed, Failing
<1>6. QED
  BY <1>4, <1>5 DEF ReportOK

\* The merge patch of a signal: only that of upgradeFailed sets the annotation
\* to "failed".
LEMMA PatchReport ==
    ASSUME TypeOK, NEW c \in Clusters, ReportOK(c), faults' = faults, Patch(c)
    PROVE  ReportOK(c)'
<1>1. /\ pc[c] = "patch" /\ pc'[c] = "updateStatus" /\ c \notin conflict'
      /\ sig'[c] = sig[c] /\ cl'[c] = cl[c]
      /\ api'[c].spec = api[c].spec /\ api'[c].ver = api[c].ver /\ api'[c].conds = api[c].conds
  BY PatchEffects DEF Patch
<1>2. api[c].ann # "failed" /\ cl[c].ann # "failed"
  BY <1>1 DEF ReportOK, LeavesFailed
<1>3. api'[c].ann = "failed" => sig[c] = "upgradeFailed"
  BY <1>2, PatchEffects DEF NewAnnotation
<1>4. LeavesFailed(c)' /\ Reporting(c)'
  BY <1>1, <1>2, <1>3 DEF ReportOK, LeavesFailed, Reporting, Writes, Writing
<1>5. Undisturbed(c)'
  BY <1>1 DEF ReportOK, Undisturbed, Failing, Writes, Writing
<1>6. QED
  BY <1>4, <1>5 DEF ReportOK

\* The update of the status writes the condition of the signal.
LEMMA UpdateStatusReport ==
    ASSUME TypeOK, NEW c \in Clusters, ReportOK(c), faults' = faults, UpdateStatus(c)
    PROVE  ReportOK(c)'
<1> DEFINE new == Signalled(sig[c], cl[c])
<1>1. /\ pc[c] = "updateStatus" /\ AfterSignal(c, new) /\ conflict' = conflict
      /\ api'[c].spec = api[c].spec /\ api'[c].ann = api[c].ann
      /\ api'[c].ver = NewVersion(sig[c], cl[c])
      /\ api'[c].conds = cl[c].conds \cup NewConditions(sig[c])
  BY PatchEffects DEF UpdateStatus
<1>2. /\ new.ann = NewAnnotation(sig[c], cl[c])
      /\ new.ver = NewVersion(sig[c], cl[c])
      /\ new.conds = cl[c].conds \cup NewConditions(sig[c])
  BY DEF Signalled
<1> HIDE DEF new
<1>3. cl[c].ann # "failed"
  BY <1>1 DEF ReportOK, LeavesFailed
<1>4. CASE sig[c] = "upgradeFailed"
  <2>1. Return(c)
    BY <1>1, <1>4 DEF AfterSignal
  <2>2. "UpgradeFailed" \in api'[c].conds
    BY <1>1, <1>4 DEF NewConditions
  <2>3. Reports(api'[c])
    BY <2>2 DEF Reports
  <2>4. QED
    BY <2>1, <2>3, ReturnReport
<1>5. CASE sig[c] # "upgradeFailed"
  <2>1. api'[c].ann # "failed"
    BY <1>1, <1>5 DEF ReportOK, LeavesFailed
  <2>2. CASE Return(c)
    BY <2>1, <2>2, ReturnReport
  <2>3. new.ann # "failed"
    BY <1>2, <1>3, <1>5 DEF NewAnnotation
  <2>4. CASE /\ cl'[c] = new
             /\ \/ pc'[c] \in {"backupCluster", "ensurePods"}
                \/ pc'[c] = "patch" /\ sig'[c] \in {"upgradeStarted", "upgradeFinished"}
    <3>1. LeavesFailed(c)' /\ Reporting(c)'
      BY <2>1, <2>3, <2>4 DEF LeavesFailed, Reporting, Writes, Writing
    <3>2. Undisturbed(c)'
      BY <2>4 DEF Undisturbed, Failing, Writes, Writing
    <3>3. QED
      BY <3>1, <3>2 DEF ReportOK
  <2>5. CASE sig[c] = "backupFailed"
    <3>1. pc'[c] = "patch" /\ sig'[c] = "upgradeFailed" /\ cl'[c] = new
      <4>1. GotoSignal(c, "upgradeFailed", new)
        BY <1>1, <2>5 DEF AfterSignal
      <4>2. QED
        BY <4>1 DEF GotoSignal, TypeOK
    <3>2. "AutoBackupFailed" \in new.conds /\ "AutoBackupFailed" \in api'[c].conds
      BY <1>1, <1>2, <2>5 DEF NewConditions
    <3>3. api'[c].ver = cl[c].ver /\ new.ver = cl[c].ver
      BY <1>1, <1>2, <2>5 DEF NewVersion
    <3>4. LeavesFailed(c)' /\ Reporting(c)'
      BY <2>1, <2>3, <3>1, <3>2 DEF LeavesFailed, Reporting, Writes, Writing
    <3>5. Undisturbed(c)'
      BY <1>1, <2>5, <3>1, <3>3 DEF ReportOK, Undisturbed, Failing, Writes, Writing
    <3>6. QED
      BY <3>4, <3>5 DEF ReportOK
  <2>6. CASE sig[c] = "backupStarted"
    <3>1. pc'[c] = "backupCluster" /\ cl'[c] = new
      BY <1>1, <2>6 DEF AfterSignal, TypeOK
    <3>2. QED
      BY <2>4, <3>1
  <2>7. CASE GotoPods(c, new)
    BY <2>4, <2>7, LocalEffects
  <2>8. CASE \E s \in {"upgradeStarted", "upgradeFinished"} : GotoSignal(c, s, new)
    BY <2>4, <2>8, LocalEffects
  <2>9. QED
    BY <1>1, <1>5, <2>2, <2>5, <2>6, <2>7, <2>8 DEF AfterSignal
<1>6. QED
  BY <1>4, <1>5

\* A call of patchCluster fails: of backupFailed, the next signal is written
\* all the same; of upgradeFailed, the condition of backupFailed is there, or
\* this is the second failure.
LEMMA PatchClusterFailsReport ==
    ASSUME TypeOK, NEW c \in Clusters, ReportOK(c), PatchClusterFails(c)
    PROVE  ReportOK(c)'
<1> DEFINE new == Signalled(sig[c], cl[c])
<1>1. /\ Writing(c) /\ SignalError(c) /\ api' = api /\ conflict' = conflict
      /\ faults' = faults + 1 /\ faults \in Nat
  BY ConstantsAssumption DEF PatchClusterFails, Writing, resourceVars, TypeOK
<1>2. CASE sig[c] = "backupFailed"
  <2>1. /\ new.ann = cl[c].ann /\ new.ver = cl[c].ver
        /\ "AutoBackupFailed" \in new.conds
    BY <1>2 DEF Signalled, NewAnnotation, NewVersion, NewConditions
  <2>2. pc'[c] = "patch" /\ sig'[c] = "upgradeFailed" /\ cl'[c] = new
    BY <1>1, <1>2, LocalEffects DEF SignalError
  <2> HIDE DEF new
  <2>3. faults' >= 1
    BY <1>1
  <2>4. api[c].ann # "failed" /\ cl[c].ann # "failed"
    BY <1>1, <1>2 DEF ReportOK, LeavesFailed, Writing
  <2>5. LeavesFailed(c)' /\ Reporting(c)'
    BY <1>1, <2>1, <2>2, <2>3, <2>4 DEF LeavesFailed, Reporting, Writes, Writing
  <2>6. Undisturbed(c)'
    BY <1>1, <1>2, <2>1, <2>2 DEF ReportOK, Undisturbed, Failing, Writes, Writing
  <2>7. QED
    BY <2>5, <2>6 DEF ReportOK
<1>3. CASE sig[c] # "backupFailed"
  <2>1. Return(c)
    BY <1>1, <1>3 DEF SignalError
  <2>2. ASSUME api[c].ann = "failed" PROVE Reports(api[c]) \/ faults' >= 2
    <3>1. Writes(c, "upgradeFailed")
      BY <1>1, <2>2 DEF ReportOK, LeavesFailed, Writes, Writing
    <3>2. CASE faults >= 1
      BY <1>1, <3>2
    <3>3. CASE "AutoBackupFailed" \in api[c].conds
      BY <3>3 DEF Reports
    <3>4. QED
      BY <3>1, <3>2, <3>3 DEF ReportOK, Reporting
  <2>3. QED
    BY <1>1, <2>1, <2>2, ReturnReport
<1>4. QED
  BY <1>2, <1>3

\* A write conflict: not while an upgrade is marked as failed.
LEMMA ConflictReport ==
    ASSUME TypeOK, NEW c \in Clusters, ReportOK(c), faults' = faults, UpdateStatusConflict(c)
    PROVE  ReportOK(c)'
<1>1. pc[c] = "updateStatus" /\ c \in conflict /\ SignalError(c) /\ api' = api
  BY DEF UpdateStatusConflict, resourceVars
<1>2. sig[c] \notin {"backupFailed", "upgradeFailed"}
  BY <1>1 DEF ReportOK, Undisturbed, Failing, Writes, Writing
<1>3. api[c].ann # "failed" /\ Return(c)
  BY <1>1, <1>2 DEF ReportOK, LeavesFailed, SignalError
<1>4. QED
  BY <1>1, <1>3, ReturnReport

\* The operator crashes: between the two calls of upgradeFailed that is one
\* failure more.
LEMMA AbortReport ==
    ASSUME TypeOK, NEW c \in Clusters, ReportOK(c), Abort(c)
    PROVE  ReportOK(c)'
<1>1. Return(c) /\ api' = api /\ faults' = faults + 1 /\ faults \in Nat /\ pc[c] # "idle"
  BY ConstantsAssumption DEF Abort, resourceVars, TypeOK
<1>2. ASSUME api[c].ann = "failed" PROVE Reports(api[c]) \/ faults' >= 2
  <2>1. Writes(c, "upgradeFailed")
    BY <1>1, <1>2 DEF ReportOK, LeavesFailed, Writes, Writing
  <2>2. CASE faults >= 1
    BY <1>1, <2>2
  <2>3. CASE "AutoBackupFailed" \in api[c].conds
    BY <2>3 DEF Reports
  <2>4. QED
    BY <2>1, <2>2, <2>3 DEF ReportOK, Reporting
<1>3. QED
  BY <1>1, <1>2, ReturnReport

\* A user changes the version: not while it is another than the recorded one.
LEMMA UserReport ==
    ASSUME Orderly, TypeOK, NEW c \in Clusters, ReportOK(c), faults' = faults,
           \E v \in Versions : UserUpgrade(c, v)
    PROVE  ReportOK(c)'
<1>1. PICK v \in Versions : UserUpgrade(c, v)
  OBVIOUS
<1>2. /\ api[c].ver = api[c].spec /\ pc' = pc /\ sig' = sig /\ cl' = cl
      /\ api'[c] = [api[c] EXCEPT !.spec = v]
  BY <1>1 DEF UserUpgrade, Orderly, TypeOK, localVars
<1>3. api'[c].ann = api[c].ann /\ api'[c].conds = api[c].conds
  BY <1>2, ClusterTypes DEF Resource
<1>4. ~Failing(c)
  BY <1>2 DEF ReportOK, Undisturbed
<1>5. LeavesFailed(c)' /\ Reporting(c)'
  BY <1>2, <1>3 DEF ReportOK, LeavesFailed, Reporting, Writes, Writing, Reports
<1>6. Undisturbed(c)'
  BY <1>2, <1>4 DEF Undisturbed, Failing, Writes, Writing
<1>7. QED
  BY <1>5, <1>6 DEF ReportOK

\* Only a failed call of patchCluster and a crash are counted.
LEMMA FaultsOnly ==
    ASSUME NEW c \in Clusters, OwnStep(c), ~PatchClusterFails(c), ~Abort(c)
    PROVE  faults' = faults
BY DEF OwnStep, Reconcile, BeginPods, BeginBackup, BeginCheck, Begin, Patch, UpdateStatus,
   UpdateStatusConflict, CreateNamespaceBackup, BackupAlreadyExists, BackupsCreated,
   BackupsFinished, BackupsFailed, BackupsPending, KeepPod, PodSkipped, PodUnreachable,
   DeleteOutdatedPod, DeleteIsolatedPod, DeleteFailedPod, CreatePod, PodIsReady, PodFails,
   PodGone, PodsDone, SyncCache, UserUpgrade, PodBecomesReady, PodVanishes, PodUnready

\* The other steps of a reconcile leave the resource alone.
LEMMA OtherReport ==
    ASSUME TypeOK, NEW c \in Clusters, ReportOK(c), faults' = faults,
           \/ \E ns \in NamespacesOf[c] : CreateNamespaceBackup(c, ns) \/ BackupAlreadyExists(c, ns)
           \/ BackupsCreated(c) \/ BackupsPending(c)
           \/ KeepPod(c) \/ PodSkipped(c) \/ PodUnreachable(c) \/ DeleteOutdatedPod(c)
           \/ DeleteIsolatedPod(c) \/ DeleteFailedPod(c) \/ CreatePod(c) \/ PodIsReady(c)
           \/ PodFails(c) \/ PodGone(c) \/ PodsDone(c)
    PROVE  ReportOK(c)'
<1> USE DEF resourceVars, localVars
<1>1. CASE \/ \E ns \in NamespacesOf[c] : BackupAlreadyExists(c, ns)
           \/ BackupsCreated(c) \/ BackupsPending(c) \/ PodUnreachable(c)
           \/ DeleteIsolatedPod(c) \/ PodFails(c) \/ PodGone(c)
  BY <1>1, QuietReport DEF BackupAlreadyExists, BackupsCreated, BackupsPending, PodUnreachable,
     DeleteIsolatedPod, PodFails, PodGone, Writing
<1>2. CASE KeepPod(c) \/ PodSkipped(c) \/ PodIsReady(c)
  <2>1. pc[c] \in {"ensurePods", "waitPod"} /\ NextPod(c) /\ api' = api
    BY <1>2 DEF KeepPod, PodSkipped, PodIsReady
  <2>2. pc'[c] = "ensurePods" /\ cl'[c] = cl[c]
    BY <2>1, LocalEffects
  <2>3. QED
    BY <2>1, <2>2, QuietReport DEF Writing
<1>3. CASE \/ \E ns \in NamespacesOf[c] : CreateNamespaceBackup(c, ns)
           \/ DeleteOutdatedPod(c) \/ DeleteFailedPod(c) \/ CreatePod(c)
  <2>1. /\ pc[c] \in {"backupCluster", "ensurePods"}
        /\ pc'[c] \in {"backupCluster", "ensurePods", "waitPod"} /\ cl' = cl /\ api' = api
    BY <1>3 DEF CreateNamespaceBackup, DeleteOutdatedPod, DeleteFailedPod, CreatePod, TypeOK
  <2>2. QED
    BY <2>1, QuietReport DEF Writing
<1>4. CASE PodsDone(c)
  <2>1. pc[c] = "ensurePods" /\ api' = api
    BY <1>4 DEF PodsDone
  <2>2. \/ Return(c)
        \/ pc'[c] = "patch" /\ sig'[c] = "reconciled" /\ cl'[c] = cl[c]
    <3>1. Return(c) \/ GotoSignal(c, "reconciled", cl[c])
      BY <1>4 DEF PodsDone
    <3>2. QED
      BY <3>1, LocalEffects
  <2>3. QED
    BY <2>1, <2>2, QuietReport DEF Writing
<1>5. QED
  BY <1>1, <1>2, <1>3, <1>4

\* The invariant of the reports is inductive.
LEMMA NextReport ==
    Orderly /\ TypeOK /\ ReportInv /\ [Next]_vars => ReportInv'
<1> SUFFICES ASSUME Orderly, TypeOK, ReportInv, [Next]_vars, NEW c \in Clusters
             PROVE  ReportOK(c)'
  BY DEF ReportInv
<1>1. ReportOK(c)
  BY DEF ReportInv
<1>2. ASSUME /\ api'[c] = api[c] /\ conflict' \cap {c} = conflict \cap {c}
             /\ pc'[c] = pc[c] /\ sig'[c] = sig[c] /\ cl'[c] = cl[c]
      PROVE  ReportOK(c)'
  <2>1. faults >= 1 => faults' >= 1
    BY FaultsGrow
  <2>2. faults >= 2 => faults' >= 2
    BY FaultsGrow
  <2>3. c \in conflict' <=> c \in conflict
    BY <1>2
  <2>4. LeavesFailed(c)' /\ Undisturbed(c)'
    BY <1>1, <1>2, <2>3 DEF ReportOK, LeavesFailed, Undisturbed, Failing, Writes, Writing
  <2>5. Reporting(c)'
    BY <1>1, <1>2, <2>1, <2>2 DEF ReportOK, Reporting, Writes, Writing, Reports
  <2>6. QED
    BY <2>4, <2>5 DEF ReportOK
<1>3. CASE Same(c)
  BY <1>2, <1>3 DEF Same
<1>4. CASE OwnStep(c)
  <2>1. CASE PatchClusterFails(c) \/ Abort(c)
    BY <1>1, <2>1, PatchClusterFailsReport, AbortReport
  <2>2. CASE ~PatchClusterFails(c) /\ ~Abort(c)
    <3>1. faults' = faults
      BY <1>4, <2>2, FaultsOnly
    <3>2. CASE Reconcile(c)
      BY <1>1, <3>1, <3>2, BeginReport, PatchReport, UpdateStatusReport, ConflictReport,
         CheckReport, OtherReport DEF Reconcile
    <3>3. CASE \E v \in Versions : UserUpgrade(c, v)
      BY <1>1, <3>1, <3>3, UserReport
    <3>4. CASE \/ SyncCache(c)
               \/ \E i \in Index : PodBecomesReady(c, i) \/ PodVanishes(c, i) \/ PodUnready(c, i)
      BY <1>2, <3>4 DEF SyncCache, PodBecomesReady, PodVanishes, PodUnready, resourceVars, localVars
    <3>5. QED
      BY <1>4, <2>2, <3>2, <3>3, <3>4 DEF OwnStep
  <2>3. QED
    BY <2>1, <2>2
<1>5. QED
  BY <1>3, <1>4, OwnOrSame

\* At first there is no upgrade.
LEMMA InitReport == Init => ReportInv
<1> SUFFICES ASSUME Init, NEW c \in Clusters PROVE ReportOK(c)
  BY DEF ReportInv
<1>1. api[c].ann = "none" /\ pc[c] = "idle"
  BY DEF Init, NewResource
<1>2. QED
  BY <1>1 DEF ReportOK, LeavesFailed, Undisturbed, Reporting, Failing, Writes, Writing

\* A failed upgrade is reported in the conditions, unless two calls have failed
\* or the operator has crashed as well, for any number of clusters and even if
\* pods come and go.
THEOREM FailuresAreReported == Orderly /\ Spec => []FailureIsReported
<1>1. TypeOK /\ ReportInv => FailureIsReported
  <2>1. SUFFICES ASSUME TypeOK, ReportInv, NEW c \in Clusters, faults <= 1,
                        api[c].ann = "failed", pc[c] = "idle"
                 PROVE  Reports(api[c])
    BY DEF FailureIsReported, Reports
  <2>2. ~(faults >= 2)
    BY <2>1, ConstantsAssumption DEF TypeOK
  <2>3. QED
    BY <2>1, <2>2 DEF ReportInv, ReportOK, Reporting
<1>2. Orderly => Orderly'
  BY DEF Orderly
<1>3. Orderly /\ Spec => []ReportInv
  BY <1>2, InitReport, NextReport, TypeCorrect, PTL DEF Spec
<1>4. QED
  BY <1>1, <1>3, TypeCorrect, PTL

=============================================================================
