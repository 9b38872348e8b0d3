---------------------- MODULE ClusterReconcilerProofs ----------------------
(***************************************************************************)
(* Proofs about ClusterReconciler, for every number of clusters, nodes,    *)
(* versions and faults.                                                    *)
(***************************************************************************)
EXTENDS ClusterReconciler, TLAPS

(***************************************************************************)
(* Type correctness.                                                       *)
(***************************************************************************)

\* Writing a signal into a resource yields a resource: the merge patch and
\* the status update of patchCluster never produce anything else.
LEMMA SignalledType ==
    ASSUME NEW o \in LocalResource, NEW s \in Signal
    PROVE  /\ Signalled(s, o) \in LocalResource
           /\ Signalled(s, o).ver = NewVersion(s, o)
           /\ Signalled(s, o).spec = o.spec
           /\ Signalled(s, o).ann = NewAnnotation(s, o)
BY DEF Signalled, NewVersion, NewAnnotation, NewConditions, LocalResource,
       Annotation, Condition, Signal

\* A change of .spec.version by a user yields a resource.
LEMMA SpecChangeType ==
    ASSUME NEW o \in Resource, NEW v \in Versions
    PROVE  [o EXCEPT !.spec = v] \in Resource
BY DEF Resource

\* The names of the backups a reconcile is about to create are proper names:
\* backupCluster is reached with the two versions of an upgrade only.
BackupLocals ==
    \A c \in Clusters :
        \/ pc[c] \in {"patch", "updateStatus"} /\ sig[c] = "backupStarted"
        \/ pc[c] = "backupCluster"
        => cl[c].ver \in Versions /\ cl[c].spec \in Versions

\* Dropping the local state of a reconcile keeps it well typed.
LEMMA ReturnType ==
    ASSUME TypeOK, NEW c \in Clusters, Return(c)
    PROVE  /\ pc' \in [Clusters -> {"idle", "patch", "updateStatus",
                  "backupCluster", "checkBackups", "ensurePods", "waitPod"}]
           /\ sig' \in [Clusters -> Signal]
           /\ cl' \in [Clusters -> LocalResource]
           /\ up' \in [Clusters -> BOOLEAN]
           /\ idx' \in [Clusters -> 0 .. Nodes]
           /\ todo' \in [Clusters -> SUBSET Namespaces]
<1>1. NoResource \in LocalResource
  BY DEF NoResource, NewResource, LocalResource, VersionOrNone, Annotation
<1>2. 0 \in 0 .. Nodes
  BY ConstantsAssumption
<1>3. QED
  BY <1>1, <1>2 DEF TypeOK, Return, Signal

\* Removing a pod keeps the pods well typed.
LEMMA RemovePodType ==
    ASSUME TypeOK, NEW c \in Clusters, RemovePod(c)
    PROVE  /\ pods' \in [Clusters -> [Index -> VersionOrNone]]
           /\ ready' \in [Clusters -> SUBSET Index]
<1>1. pods' \in [Clusters -> [Index -> VersionOrNone]]
  BY DEF RemovePod, TypeOK, VersionOrNone
<1>2. ready' \in [Clusters -> SUBSET Index]
  BY DEF RemovePod, TypeOK
<1>3. QED
  BY <1>1, <1>2

\* Initially every variable has its type.
LEMMA InitType == Init => TypeOK
<1> SUFFICES ASSUME Init PROVE TypeOK
  OBVIOUS
<1>1. api \in [Clusters -> Resource]
  <2>1. \A v \in Versions : NewResource(v) \in Resource
    BY DEF NewResource, Resource, VersionOrNone, Annotation
  <2>2. {NewResource(v) : v \in Versions} \subseteq Resource
    BY <2>1
  <2>3. QED
    BY <2>2 DEF Init
<1>2. backupOf \in [BackupName -> Clusters]
  BY ConstantsAssumption DEF Init
<1>3. NoResource \in LocalResource
  BY DEF NoResource, NewResource, LocalResource, VersionOrNone, Annotation
<1>4. QED
  BY <1>1, <1>2, <1>3, ConstantsAssumption
     DEF Init, TypeOK, VersionOrNone, BackupState, Signal, Index

\* No step takes a variable out of its type.
LEMMA NextType == TypeOK /\ BackupLocals /\ [Next]_vars => TypeOK'
<1> SUFFICES ASSUME TypeOK, BackupLocals, [Next]_vars PROVE TypeOK'
  OBVIOUS
<1> USE DEF resourceVars, podVars, backupVars, localVars
<1>0. Resource \subseteq LocalResource
  BY DEF Resource, LocalResource, VersionOrNone
<1>1. CASE UNCHANGED vars
  BY <1>1 DEF vars, TypeOK
<1>2. ASSUME NEW c \in Clusters, BeginPods(c) \/ BeginBackup(c) \/ BeginCheck(c)
      PROVE  TypeOK'
  <2>1. IsUpgrade(cache[c]) \in BOOLEAN
    BY DEF IsUpgrade
  <2>2. cache[c] \in LocalResource
    BY <1>0 DEF TypeOK
  <2>3. PICK p \in {"ensurePods", "patch", "checkBackups"}, s \in Signal : Begin(c, p, s)
    BY <1>2 DEF BeginPods, BeginBackup, BeginCheck, Signal
  <2>4. up' \in [Clusters -> BOOLEAN]
    BY <2>1, <2>3 DEF Begin, TypeOK
  <2>5. QED
    BY <2>2, <2>3, <2>4 DEF Begin, TypeOK
<1>3. ASSUME NEW c \in Clusters, Patch(c)
      PROVE  TypeOK'
  <2>1. Patched(c) \in Resource
    <3>1. Signalled(sig[c], cl[c]).ann \in Annotation
      BY DEF TypeOK, LocalResource, Signalled, NewAnnotation, Annotation
    <3>2. api[c] \in Resource
      BY DEF TypeOK
    <3>3. \A a \in Annotation : [api[c] EXCEPT !.ann = a] \in Resource
      BY <3>2 DEF Resource
    <3>4. QED
      BY <3>1, <3>2, <3>3 DEF Patched
  <2>2. QED
    BY <1>3, <2>1 DEF Patch, TypeOK
<1>4. ASSUME NEW c \in Clusters, UpdateStatus(c)
      PROVE  TypeOK'
  <2> DEFINE new == Signalled(sig[c], cl[c])
  <2>1. new \in LocalResource
    BY SignalledType DEF TypeOK
  <2> HIDE DEF new
  <2>2. api' \in [Clusters -> Resource]
    <3>1. api[c] \in Resource /\ api \in [Clusters -> Resource]
      BY DEF TypeOK
    <3>2. new.ver \in VersionOrNone /\ new.conds \in SUBSET Condition
      BY <2>1 DEF LocalResource
    <3>3. [api[c] EXCEPT !.ver = new.ver, !.conds = new.conds] \in Resource
      BY <3>1, <3>2 DEF Resource
    <3>4. api' = [api EXCEPT ![c].ver = new.ver, ![c].conds = new.conds]
      BY <1>4 DEF UpdateStatus, new
    <3>5. QED
      BY <3>1, <3>3, <3>4
  <2>3. fresh' \subseteq BackupName
    BY <1>4 DEF UpdateStatus, FreshAfter, TypeOK
  <2>4. AfterSignal(c, new)
    BY <1>4 DEF UpdateStatus, new
  <2>5. CASE Return(c)
    BY <1>4, <2>2, <2>3, <2>5, ReturnType DEF UpdateStatus, TypeOK
  <2>6. CASE ~Return(c)
    <3>1. CASE sig[c] = "backupStarted"
      <4>1. NamespacesOf[c] \in SUBSET Namespaces
        BY ConstantsAssumption
      <4>2. /\ pc' = [pc EXCEPT ![c] = "backupCluster"]
            /\ cl' = [cl EXCEPT ![c] = new]
            /\ todo' = [todo EXCEPT ![c] = NamespacesOf[c]]
            /\ UNCHANGED <<sig, up, idx>>
        BY <2>4, <2>6, <3>1 DEF AfterSignal
      <4>3. QED
        BY <1>4, <2>1, <2>2, <2>3, <4>1, <4>2 DEF UpdateStatus, TypeOK
    <3>2. CASE \E s \in Signal : GotoSignal(c, s, new)
      BY <1>4, <2>1, <2>2, <2>3, <3>2 DEF UpdateStatus, GotoSignal, TypeOK
    <3>3. CASE GotoPods(c, new)
      <4>1. 0 \in 0 .. Nodes
        BY ConstantsAssumption
      <4>2. QED
        BY <1>4, <2>1, <2>2, <2>3, <3>3, <4>1 DEF UpdateStatus, GotoPods, TypeOK, Signal
    <3>4. QED
      BY <2>4, <2>6, <3>1, <3>2, <3>3 DEF AfterSignal, Signal
  <2>7. QED
    BY <2>5, <2>6
<1>5. ASSUME NEW c \in Clusters, UpdateStatusConflict(c) \/ PatchClusterFails(c)
      PROVE  TypeOK'
  <2>1. SignalError(c)
    BY <1>5 DEF UpdateStatusConflict, PatchClusterFails
  <2>2. faults' \in 0 .. MaxFaults
    BY <1>5, ConstantsAssumption DEF UpdateStatusConflict, PatchClusterFails, TypeOK
  <2>3. CASE Return(c)
    BY <1>5, <2>2, <2>3, ReturnType DEF UpdateStatusConflict, PatchClusterFails, TypeOK
  <2>4. CASE GotoSignal(c, "upgradeFailed", Signalled(sig[c], cl[c]))
    <3>1. Signalled(sig[c], cl[c]) \in LocalResource
      BY SignalledType DEF TypeOK
    <3>2. QED
      BY <1>5, <2>2, <2>4, <3>1
         DEF UpdateStatusConflict, PatchClusterFails, GotoSignal, TypeOK, Signal
  <2>5. QED
    BY <2>1, <2>3, <2>4 DEF SignalError
<1>6. ASSUME NEW c \in Clusters, NEW ns \in NamespacesOf[c], CreateNamespaceBackup(c, ns)
      PROVE  TypeOK'
  <2> DEFINE b == GetBackupName(ns, cl[c].ver, cl[c].spec)
  <2>1. b \in BackupName
    BY <1>6, ConstantsAssumption
       DEF CreateNamespaceBackup, BackupLocals, BackupName, GetBackupName
  <2>2. QED
    BY <1>6, <2>1 DEF CreateNamespaceBackup, TypeOK, BackupState
<1>7. ASSUME NEW c \in Clusters,
             \/ \E ns \in NamespacesOf[c] : BackupAlreadyExists(c, ns)
             \/ BackupsCreated(c) \/ BackupsPending(c) \/ PodUnreachable(c) \/ PodGone(c)
      PROVE  TypeOK'
  BY <1>7, ReturnType
     DEF BackupAlreadyExists, BackupsCreated, BackupsPending, PodUnreachable, PodGone, TypeOK
<1>8. ASSUME NEW c \in Clusters, BackupsFinished(c) \/ BackupsFailed(c)
      PROVE  TypeOK'
  <2>1. PICK s \in Signal : GotoSignal(c, s, cl[c])
    BY <1>8 DEF BackupsFinished, BackupsFailed, Signal
  <2>2. UNCHANGED <<resourceVars, podVars, backupVars, faults>>
    BY <1>8 DEF BackupsFinished, BackupsFailed
  <2>3. QED
    BY <2>1, <2>2 DEF GotoSignal, TypeOK
<1>9. ASSUME NEW b \in BackupName, NEW s \in {"finished", "failed"}, BackupEnds(b, s)
      PROVE  TypeOK'
  BY <1>9 DEF BackupEnds, TypeOK, BackupState
<1>10. ASSUME NEW c \in Clusters, KeepPod(c) \/ PodSkipped(c)
       PROVE  TypeOK'
  <2>1. idx[c] \in Index
    BY <1>10 DEF KeepPod, PodSkipped, RunningPods
  <2>2. idx[c] + 1 \in 0 .. Nodes
    BY <2>1, ConstantsAssumption DEF Index
  <2>3. CASE KeepPod(c)
    BY <2>2, <2>3 DEF KeepPod, NextPod, TypeOK
  <2>4. CASE PodSkipped(c)
    BY <2>2, <2>4 DEF PodSkipped, NextPod, TypeOK
  <2>5. QED
    BY <1>10, <2>3, <2>4
<1>11. ASSUME NEW c \in Clusters, PodIsReady(c)
       PROVE  TypeOK'
  <2>1. idx[c] \in Index
    BY <1>11 DEF PodIsReady, TypeOK
  <2>2. idx[c] + 1 \in 0 .. Nodes
    BY <2>1, ConstantsAssumption DEF Index
  <2>3. QED
    BY <1>11, <2>2 DEF PodIsReady, NextPod, TypeOK
<1>12. ASSUME NEW c \in Clusters, DeleteOutdatedPod(c) \/ DeleteFailedPod(c)
       PROVE  TypeOK'
  BY <1>12, RemovePodType DEF DeleteOutdatedPod, DeleteFailedPod, TypeOK
<1>13. ASSUME NEW c \in Clusters, DeleteIsolatedPod(c) \/ PodFails(c)
       PROVE  TypeOK'
  <2>1. /\ pods' \in [Clusters -> [Index -> VersionOrNone]]
        /\ ready' \in [Clusters -> SUBSET Index]
    BY <1>13, RemovePodType DEF DeleteIsolatedPod, PodFails
  <2>2. QED
    BY <1>13, <2>1, ReturnType DEF DeleteIsolatedPod, PodFails, TypeOK
<1>14. ASSUME NEW c \in Clusters, CreatePod(c)
       PROVE  TypeOK'
  BY <1>14 DEF CreatePod, TypeOK, LocalResource
<1>15. ASSUME NEW c \in Clusters, PodsDone(c)
       PROVE  TypeOK'
  <2>1. CASE Return(c)
    BY <1>15, <2>1, ReturnType DEF PodsDone, TypeOK
  <2>2. CASE GotoSignal(c, "reconciled", cl[c])
    BY <1>15, <2>2 DEF PodsDone, GotoSignal, TypeOK, Signal
  <2>3. QED
    BY <1>15, <2>1, <2>2 DEF PodsDone
<1>16. ASSUME NEW c \in Clusters, Abort(c)
       PROVE  TypeOK'
  <2>1. faults' \in 0 .. MaxFaults
    BY <1>16, ConstantsAssumption DEF Abort, TypeOK
  <2>2. QED
    BY <1>16, <2>1, ReturnType DEF Abort, TypeOK
<1>17. ASSUME NEW c \in Clusters, SyncCache(c)
       PROVE  TypeOK'
  BY <1>17 DEF SyncCache, TypeOK
<1>18. ASSUME NEW c \in Clusters, NEW v \in Versions, UserUpgrade(c, v)
       PROVE  TypeOK'
  <2>1. api[c] \in Resource
    BY DEF TypeOK
  <2>2. [api[c] EXCEPT !.spec = v] \in Resource
    BY <2>1, SpecChangeType
  <2>3. api' \in [Clusters -> Resource]
    BY <1>18, <2>2 DEF UserUpgrade, TypeOK
  <2>4. QED
    BY <1>18, <2>3 DEF UserUpgrade, TypeOK
<1>19. ASSUME NEW c \in Clusters, NEW i \in Index,
              PodBecomesReady(c, i) \/ PodVanishes(c, i) \/ PodUnready(c, i)
       PROVE  TypeOK'
  <2>1. CASE PodBecomesReady(c, i)
    BY <2>1 DEF PodBecomesReady, TypeOK
  <2>2. CASE PodUnready(c, i)
    BY <2>2 DEF PodUnready, TypeOK
  <2>3. CASE PodVanishes(c, i)
    <3>1. pods' \in [Clusters -> [Index -> VersionOrNone]]
      BY <2>3 DEF PodVanishes, TypeOK, VersionOrNone
    <3>2. ready' \in [Clusters -> SUBSET Index]
      BY <2>3 DEF PodVanishes, TypeOK
    <3>3. QED
      BY <2>3, <3>1, <3>2 DEF PodVanishes, TypeOK
  <2>4. QED
    BY <1>19, <2>1, <2>2, <2>3
<1>20. QED
  BY <1>1, <1>2, <1>3, <1>4, <1>5, <1>6, <1>7, <1>8, <1>9, <1>10, <1>11, <1>12,
     <1>13, <1>14, <1>15, <1>16, <1>17, <1>18, <1>19
     DEF Next, Reconcile

\* Initially no reconcile is in progress.
LEMMA InitBackupLocals == Init => BackupLocals
BY DEF Init, BackupLocals

\* No step loses the versions of the backups to create.
LEMMA NextBackupLocals == TypeOK /\ BackupLocals /\ [Next]_vars => BackupLocals'
<1> SUFFICES ASSUME TypeOK, BackupLocals, [Next]_vars PROVE BackupLocals'
  OBVIOUS
<1> USE DEF resourceVars, podVars, backupVars, localVars
<1>1. CASE UNCHANGED <<pc, sig, cl>>
  BY <1>1 DEF BackupLocals
<1>2. ASSUME NEW c \in Clusters, Return(c)
      PROVE  BackupLocals'
  BY <1>2 DEF Return, BackupLocals, TypeOK
<1>3. ASSUME NEW c \in Clusters, BeginBackup(c)
      PROVE  BackupLocals'
  <2>1. cache[c].ver \in Versions /\ cache[c].spec \in Versions
    BY <1>3 DEF BeginBackup, IsUpgrade, TypeOK, Resource, VersionOrNone
  <2>2. QED
    BY <1>3, <2>1 DEF BeginBackup, Begin, BackupLocals, TypeOK
<1>4. ASSUME NEW c \in Clusters, BeginPods(c) \/ BeginCheck(c)
      PROVE  BackupLocals'
  BY <1>4 DEF BeginPods, BeginCheck, Begin, BackupLocals, TypeOK
<1>5. ASSUME NEW c \in Clusters, NEW s \in Signal \ {"backupStarted"},
             NEW o, GotoSignal(c, s, o)
      PROVE  BackupLocals'
  BY <1>5 DEF GotoSignal, BackupLocals, TypeOK
<1>6. ASSUME NEW c \in Clusters, NEW o, GotoPods(c, o)
      PROVE  BackupLocals'
  BY <1>6 DEF GotoPods, BackupLocals, TypeOK
<1>7. ASSUME NEW c \in Clusters, Patch(c)
      PROVE  BackupLocals'
  BY <1>7 DEF Patch, BackupLocals, TypeOK
<1>8. ASSUME NEW c \in Clusters, UpdateStatus(c)
      PROVE  BackupLocals'
  <2> DEFINE new == Signalled(sig[c], cl[c])
  <2>1. AfterSignal(c, new)
    BY <1>8 DEF UpdateStatus
  <2>2. CASE sig[c] = "backupStarted"
    <3>1. new.ver = cl[c].ver /\ new.spec = cl[c].spec
      BY <2>2 DEF Signalled, NewVersion
    <3>2. pc[c] = "updateStatus"
      BY <1>8 DEF UpdateStatus
    <3> HIDE DEF new
    <3>3. QED
      BY <2>1, <2>2, <3>1, <3>2
         DEF AfterSignal, Return, GotoSignal, GotoPods, BackupLocals, TypeOK
  <2>3. CASE sig[c] # "backupStarted"
    <3> HIDE DEF new
    <3>1. QED
      BY <2>1, <2>3, <1>2, <1>5, <1>6 DEF AfterSignal, Signal
  <2>4. QED
    BY <2>2, <2>3
<1>9. ASSUME NEW c \in Clusters, SignalError(c)
      PROVE  BackupLocals'
  BY <1>9, <1>2, <1>5 DEF SignalError, Signal
<1>10. ASSUME NEW c \in Clusters, KeepPod(c) \/ PodSkipped(c) \/ PodIsReady(c) \/ CreatePod(c)
       PROVE  BackupLocals'
  BY <1>10 DEF KeepPod, PodSkipped, PodIsReady, CreatePod, NextPod, BackupLocals, TypeOK
<1>11. ASSUME NEW c \in Clusters, Reconcile(c)
       PROVE  BackupLocals'
  <2>1. CASE UpdateStatusConflict(c)
    BY <2>1, <1>9 DEF UpdateStatusConflict
  <2>2. CASE BackupsFinished(c) \/ BackupsFailed(c)
    BY <2>2, <1>5 DEF BackupsFinished, BackupsFailed, Signal
  <2>3. CASE \E ns \in NamespacesOf[c] : CreateNamespaceBackup(c, ns)
    BY <2>3, <1>1 DEF CreateNamespaceBackup
  <2>4. CASE \/ \E ns \in NamespacesOf[c] : BackupAlreadyExists(c, ns)
             \/ BackupsCreated(c) \/ BackupsPending(c) \/ PodUnreachable(c)
             \/ DeleteIsolatedPod(c) \/ PodFails(c) \/ PodGone(c)
    BY <2>4, <1>2 DEF BackupAlreadyExists, BackupsCreated, BackupsPending,
       PodUnreachable, DeleteIsolatedPod, PodFails, PodGone
  <2>5. CASE DeleteOutdatedPod(c) \/ DeleteFailedPod(c)
    BY <2>5, <1>1 DEF DeleteOutdatedPod, DeleteFailedPod
  <2>6. CASE PodsDone(c)
    BY <2>6, <1>2, <1>5 DEF PodsDone, Signal
  <2>7. QED
    BY <1>3, <1>4, <1>7, <1>8, <1>10, <1>11, <2>1, <2>2, <2>3, <2>4, <2>5, <2>6
       DEF Reconcile
<1>12. ASSUME NEW c \in Clusters, PatchClusterFails(c) \/ Abort(c) \/ SyncCache(c)
       PROVE  BackupLocals'
  BY <1>12, <1>1, <1>2, <1>9 DEF PatchClusterFails, Abort, SyncCache
<1>13. ASSUME NEW c \in Clusters, \E v \in Versions : UserUpgrade(c, v)
       PROVE  BackupLocals'
  BY <1>13, <1>1 DEF UserUpgrade
<1>14. ASSUME NEW c \in Clusters, NEW i \in Index,
              PodBecomesReady(c, i) \/ PodVanishes(c, i) \/ PodUnready(c, i)
       PROVE  BackupLocals'
  BY <1>14, <1>1 DEF PodBecomesReady, PodVanishes, PodUnready
<1>15. ASSUME NEW b \in BackupName, NEW s \in {"finished", "failed"}, BackupEnds(b, s)
       PROVE  BackupLocals'
  BY <1>15, <1>1 DEF BackupEnds
<1>16. QED
  BY <1>1, <1>11, <1>12, <1>13, <1>14, <1>15 DEF Next, vars

\* Every reachable state is well typed, whatever fails and whatever is stale.
THEOREM TypeCorrect == Spec => []TypeOK
<1>1. Init => TypeOK /\ BackupLocals
  BY InitType, InitBackupLocals
<1>2. TypeOK /\ BackupLocals /\ [Next]_vars => (TypeOK /\ BackupLocals)'
  BY NextType, NextBackupLocals
<1>3. QED
  BY <1>1, <1>2, PTL DEF Spec

\* What FailureIsFinal says of a step for one cluster.
LeftAlone(d) ==
    api[d].ann = "failed" /\ pc[d] = "idle"
    => /\ api'[d].ann = "failed"
       /\ api'[d].ver = api[d].ver
       /\ pc'[d] = "idle"

\* A failed upgrade is final when reconciles start from up-to-date copies:
\* MaybeReconcile never gets past its first test.
THEOREM FailureStays == FreshReads /\ Spec => FailureIsFinal
<1>1. ASSUME FreshReads, TypeOK, Next, NEW d \in Clusters
      PROVE  LeftAlone(d)
  <2> USE DEF resourceVars, podVars, backupVars, localVars
  <2>1. SUFFICES ASSUME api[d].ann = "failed", pc[d] = "idle"
                 PROVE  /\ api'[d].ann = "failed" /\ api'[d].ver = api[d].ver
                        /\ pc'[d] = "idle"
    BY DEF LeftAlone
  <2>2. ~Reconcile(d) /\ ~PatchClusterFails(d) /\ ~Abort(d)
    <3>1. ~BeginPods(d) /\ ~BeginBackup(d) /\ ~BeginCheck(d)
      BY <1>1, <2>1 DEF BeginPods, BeginBackup, BeginCheck, Begin
    <3>2. QED
      BY <2>1, <3>1 DEF Reconcile, PatchClusterFails, Abort, Patch, UpdateStatus,
         UpdateStatusConflict, CreateNamespaceBackup, BackupAlreadyExists, BackupsCreated,
         BackupsFinished, BackupsFailed, BackupsPending, KeepPod, PodSkipped, PodUnreachable,
         DeleteOutdatedPod, DeleteIsolatedPod, DeleteFailedPod, CreatePod, PodIsReady,
         PodFails, PodGone, PodsDone
  <2>3. ASSUME NEW c \in Clusters, c # d,
               Return(c) \/ NextPod(c) \/ (\E s, o : GotoSignal(c, s, o)) \/ \E o : GotoPods(c, o)
        PROVE  pc'[d] = pc[d]
    BY <1>1, <2>3 DEF Return, NextPod, GotoSignal, GotoPods, TypeOK
  <2>4. ASSUME NEW c \in Clusters, Reconcile(c) \/ PatchClusterFails(c) \/ Abort(c)
        PROVE  api'[d] = api[d] /\ pc'[d] = pc[d]
    <3>1. c # d
      BY <2>2, <2>4
    <3>2. CASE \/ BeginPods(c) \/ BeginBackup(c) \/ BeginCheck(c) \/ Patch(c) \/ CreatePod(c)
               \/ \E ns \in NamespacesOf[c] : CreateNamespaceBackup(c, ns)
               \/ DeleteOutdatedPod(c) \/ DeleteFailedPod(c)
      BY <1>1, <3>1, <3>2 DEF BeginPods, BeginBackup, BeginCheck, Begin, Patch, CreatePod,
         CreateNamespaceBackup, DeleteOutdatedPod, DeleteFailedPod, TypeOK
    <3>3. CASE UpdateStatus(c)
      <4>1. api'[d] = api[d]
        BY <1>1, <3>1, <3>3 DEF UpdateStatus, TypeOK
      <4>2. AfterSignal(c, Signalled(sig[c], cl[c]))
        BY <3>3 DEF UpdateStatus
      <4>3. CASE sig[c] = "backupStarted"
        BY <1>1, <3>1, <4>1, <4>2, <4>3 DEF AfterSignal, TypeOK
      <4>4. CASE sig[c] # "backupStarted"
        BY <2>3, <3>1, <4>1, <4>2, <4>4 DEF AfterSignal
      <4>5. QED
        BY <4>3, <4>4
    <3>4. CASE UpdateStatusConflict(c) \/ PatchClusterFails(c)
      BY <2>3, <3>1, <3>4 DEF UpdateStatusConflict, PatchClusterFails, SignalError
    <3>5. CASE \/ \E ns \in NamespacesOf[c] : BackupAlreadyExists(c, ns)
               \/ BackupsCreated(c) \/ BackupsPending(c) \/ PodUnreachable(c) \/ PodGone(c)
               \/ DeleteIsolatedPod(c) \/ PodFails(c) \/ Abort(c)
      BY <2>3, <3>1, <3>5 DEF BackupAlreadyExists, BackupsCreated, BackupsPending,
         PodUnreachable, PodGone, DeleteIsolatedPod, PodFails, Abort
    <3>6. CASE BackupsFinished(c) \/ BackupsFailed(c) \/ KeepPod(c) \/ PodSkipped(c) \/ PodIsReady(c)
               \/ PodsDone(c)
      BY <2>3, <3>1, <3>6 DEF BackupsFinished, BackupsFailed, KeepPod, PodSkipped, PodIsReady, PodsDone
    <3>7. QED
      BY <2>4, <3>2, <3>3, <3>4, <3>5, <3>6 DEF Reconcile
  <2>5. ASSUME NEW c \in Clusters, NEW v \in Versions, UserUpgrade(c, v)
        PROVE  api'[d].ann = api[d].ann /\ api'[d].ver = api[d].ver /\ pc' = pc
    <3>1. api[c] \in Resource
      BY <1>1 DEF TypeOK
    <3>2. QED
      BY <1>1, <2>5, <3>1 DEF UserUpgrade, TypeOK, Resource
  <2>6. ASSUME NEW c \in Clusters, NEW i \in Index,
               PodBecomesReady(c, i) \/ PodVanishes(c, i) \/ PodUnready(c, i)
        PROVE  api' = api /\ pc' = pc
    BY <2>6 DEF PodBecomesReady, PodVanishes, PodUnready
  <2>7. ASSUME NEW c \in Clusters, SyncCache(c)
        PROVE  api' = api /\ pc' = pc
    BY <2>7 DEF SyncCache
  <2>8. ASSUME NEW b \in BackupName, NEW s \in {"finished", "failed"}, BackupEnds(b, s)
        PROVE  api' = api /\ pc' = pc
    BY <2>8 DEF BackupEnds
  <2>9. QED
    BY <1>1, <2>1, <2>4, <2>5, <2>6, <2>7, <2>8 DEF Next
<1>2. FreshReads /\ TypeOK /\ [Next]_vars
      => [\A c \in Clusters :
            api[c].ann = "failed" /\ pc[c] = "idle"
            => /\ api'[c].ann = "failed"
               /\ api'[c].ver = api[c].ver
               /\ pc'[c] = "idle"]_vars
  BY <1>1 DEF LeftAlone
<1>3. FreshReads => FreshReads'
  OBVIOUS
<1>4. QED
  BY <1>2, <1>3, TypeCorrect, PTL DEF Spec, FailureIsFinal

=============================================================================
