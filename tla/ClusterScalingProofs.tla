----------------------- MODULE ClusterScalingProofs ------------------------
(***************************************************************************)
(* Proofs about ClusterScaling, for every number of nodes, every set of    *)
(* configurations and any number of changes and faults: the status is the  *)
(* spec only once the pods are, and neither scaling nor a rolling restart  *)
(* makes the data unavailable.                                             *)
(***************************************************************************)
EXTENDS ClusterScaling, FiniteSetTheorems, WellFoundedInduction, TLAPS

-----------------------------------------------------------------------------
(* Type correctness.                                                       *)

\* The numbers of pods.
LEMMA IndexFacts ==
    /\ Index \subseteq Int
    /\ IsFiniteSet(Index) /\ Cardinality(Index) = MaxNodes
    /\ \A S \in SUBSET Index :
         IsFiniteSet(S) /\ Cardinality(S) \in Nat /\ Cardinality(S) <= MaxNodes
<1>1. IsFiniteSet(Index) /\ Cardinality(Index) = MaxNodes
  BY ScalingAssumption, FS_Interval DEF Index
<1>2. ASSUME NEW S \in SUBSET Index
      PROVE  IsFiniteSet(S) /\ Cardinality(S) \in Nat /\ Cardinality(S) <= MaxNodes
  BY <1>1, FS_Subset, FS_CardinalityType
<1>3. Index \subseteq Int
  BY DEF Index
<1>4. QED
  BY <1>1, <1>2, <1>3

\* What pods look like.
LEMMA PodTypes ==
    /\ Absent \in Pod /\ Absent.st = "absent"
    /\ \A p \in Pod : p.st = "absent" => p = Absent
    /\ \A p \in Pod : p.st \in {"absent", "pending", "ready", "failed"}
    /\ \A c \in Configs : [st |-> "pending", hash |-> c, cfg |-> "none"] \in Pod
<1>1. Absent \in Pod /\ Absent.st = "absent"
  BY DEF Pod, Absent
<1>2. \A p \in Pod : p.st = "absent" => p = Absent
  BY DEF Pod, Absent
<1>3. \A p \in Pod : p.st \in {"absent", "pending", "ready", "failed"}
  BY DEF Pod, Absent
<1>4. \A c \in Configs : [st |-> "pending", hash |-> c, cfg |-> "none"] \in Pod
  BY DEF Pod
<1>5. QED
  BY <1>1, <1>2, <1>3, <1>4

\* A pod that exists may become ready, or fail.
LEMMA PodChanges ==
    ASSUME NEW p \in Pod, p.st # "absent"
    PROVE  /\ [p EXCEPT !.st = "failed"] \in Pod
           /\ \A c \in Configs : [p EXCEPT !.st = "ready", !.cfg = c] \in Pod
<1>1. p \in [st : {"pending", "ready", "failed"}, hash : Configs, cfg : Configs \cup {"none"}]
  BY DEF Pod, Absent
<1>2. [p EXCEPT !.st = "failed"] \in Pod
  BY <1>1 DEF Pod
<1>3. ASSUME NEW c \in Configs
      PROVE  [p EXCEPT !.st = "ready", !.cfg = c] \in Pod
  BY <1>1 DEF Pod
<1>4. QED
  BY <1>2, <1>3

\* The steps of a reconcile keep the types of what is local to it.
LocalType ==
    /\ pc \in {"idle", "service", "map", "policy", "scale", "pods", "wait"}
    /\ cl \in Spec1
    /\ idx \in -1 .. MaxNodes

LEMMA ReconcileLocalType ==
    ASSUME TypeOK, Reconcile \/ Abort
    PROVE  LocalType'
<1> USE DEF LocalType
<1>0. MaxNodes \in Nat \ {0} /\ spec \in Spec1 /\ cl \in Spec1 /\ idx \in -1 .. MaxNodes
  BY ScalingAssumption DEF TypeOK
<1>1. ASSUME Return PROVE LocalType'
  BY <1>0, <1>1 DEF Return
<1>2. ASSUME NextPod, idx \in Index PROVE LocalType'
  BY <1>0, <1>2 DEF NextPod, Index
<1>3. CASE Begin \/ EnsureService \/ EnsureConfigMap
  BY <1>0, <1>3 DEF Begin, EnsureService, EnsureConfigMap
<1>4. CASE EnsureNetworkPolicy
  <2>1. Cardinality(Existing) \in Nat /\ Cardinality(Existing) <= MaxNodes
    BY IndexFacts DEF Existing
  <2>2. Cardinality(Existing) - 1 \in -1 .. MaxNodes
    BY <1>0, <2>1
  <2>3. QED
    BY <1>0, <1>4, <2>2 DEF EnsureNetworkPolicy
<1>5. CASE ScaleDown
  <2>1. cl.nodes \in 1 .. MaxNodes
    BY <1>0 DEF Spec1
  <2>2. idx - 1 \in -1 .. MaxNodes
    BY <1>0, <1>5, <2>1 DEF ScaleDown
  <2>3. QED
    BY <1>0, <1>5, <2>2 DEF ScaleDown
<1>6. CASE ScaledDown \/ CreatePod
  BY <1>0, <1>6 DEF ScaledDown, CreatePod
<1>7. CASE DeleteFailedPod \/ RestartPod
  BY <1>7 DEF DeleteFailedPod, RestartPod, local, TypeOK
<1>8. CASE PodUnreachable \/ DeleteIsolatedPod \/ PodIsLost \/ WaitTimesOut \/ UpdateStatus \/ Abort
  BY <1>1, <1>8
     DEF PodUnreachable, DeleteIsolatedPod, PodIsLost, WaitTimesOut, UpdateStatus, Abort
<1>9. CASE KeepPod \/ PodIsReady
  BY <1>2, <1>9 DEF KeepPod, PodIsReady, Ready
<1>10. QED
  BY <1>3, <1>4, <1>5, <1>6, <1>7, <1>8, <1>9 DEF Reconcile

\* Deleting a pod keeps the pods well typed.
LEMMA DeleteType ==
    ASSUME pod \in [Index -> Pod], NEW i, Delete(i)
    PROVE  pod' \in [Index -> Pod]
BY PodTypes DEF Delete

\* What a reconcile writes is well typed.
LEMMA ReconcileType ==
    ASSUME TypeOK, Reconcile
    PROVE  TypeOK'
<1>1. LocalType'
  BY ReconcileLocalType
<1>2. pod' \in [Index -> Pod]
  <2>1. pod \in [Index -> Pod] /\ cl \in Spec1
    BY DEF TypeOK
  <2>2. CASE CreatePod
    <3>1. cl.cfg \in Configs
      BY <2>1 DEF Spec1
    <3>2. QED
      BY <2>1, <2>2, <3>1, PodTypes DEF CreatePod
  <2>3. CASE \E i : Delete(i)
    BY <2>1, <2>3, DeleteType
  <2>4. CASE UNCHANGED pod
    BY <2>1, <2>4
  <2>5. QED
    BY <2>2, <2>3, <2>4 DEF Reconcile, Begin, EnsureService, EnsureConfigMap, EnsureNetworkPolicy,
       ScaleDown, ScaledDown, PodUnreachable, DeleteFailedPod, RestartPod, KeepPod,
       DeleteIsolatedPod, PodIsReady, PodIsLost, WaitTimesOut, UpdateStatus
<1>3. /\ spec' = spec /\ island' = island /\ view' = view
      /\ edits' = edits /\ faults' = faults /\ losses' = losses
      /\ copies' \subseteq copies
      /\ status' = status \/ status' = cl
      /\ map' = map \/ map' = cl.cfg
      /\ aux' \subseteq aux \cup {"service", "policy"}
  <2> USE DEF objects, meshVars, bounds
  <2>1. CASE Begin \/ EnsureService \/ EnsureConfigMap \/ EnsureNetworkPolicy
    BY <2>1 DEF Begin, EnsureService, EnsureConfigMap, EnsureNetworkPolicy
  <2>2. CASE ScaleDown \/ ScaledDown \/ PodUnreachable \/ DeleteFailedPod \/ RestartPod
    BY <2>2 DEF ScaleDown, ScaledDown, PodUnreachable, DeleteFailedPod, RestartPod
  <2>3. CASE KeepPod \/ DeleteIsolatedPod \/ CreatePod \/ PodIsReady \/ PodIsLost
    BY <2>3 DEF KeepPod, DeleteIsolatedPod, CreatePod, PodIsReady, PodIsLost
  <2>4. CASE WaitTimesOut \/ UpdateStatus
    BY <2>4 DEF WaitTimesOut, UpdateStatus
  <2>5. QED
    BY <2>1, <2>2, <2>3, <2>4 DEF Reconcile
<1>4. cl \in Spec1 /\ cl.cfg \in Configs
  BY DEF TypeOK, Spec1
<1>5. QED
  BY <1>1, <1>2, <1>3, <1>4 DEF TypeOK, LocalType

\* No step takes a variable out of its type.
LEMMA NextType == TypeOK /\ [Next]_vars => TypeOK'
<1> SUFFICES ASSUME TypeOK, [Next]_vars PROVE TypeOK'
  OBVIOUS
<1> USE DEF objects, meshVars, local, bounds
<1>0. /\ pod \in [Index -> Pod] /\ MaxEdits \in Nat /\ MaxFaults \in Nat /\ MaxLosses \in Nat
      /\ edits \in 0 .. MaxEdits /\ faults \in 0 .. MaxFaults /\ losses \in 0 .. MaxLosses
  BY ScalingAssumption DEF TypeOK
<1>1. CASE UNCHANGED vars
  BY <1>1 DEF vars, TypeOK
<1>2. CASE Reconcile
  BY <1>2, ReconcileType
<1>3. CASE Regroup
  <2>1. ViewNow \in [Index -> SUBSET Index]
    BY DEF ViewNow, Reachable, Ready
  <2>2. QED
    BY <1>3, <2>1 DEF Regroup, TypeOK
<1>4. CASE Heal
  BY <1>4 DEF Heal, TypeOK
<1>5. CASE Abort
  <2>1. LocalType'
    BY <1>5, ReconcileLocalType
  <2>2. faults' \in 0 .. MaxFaults
    BY <1>0, <1>5 DEF Abort, Fault
  <2>3. QED
    BY <1>5, <2>1, <2>2 DEF Abort, Fault, LocalType, TypeOK
<1>6. ASSUME NEW s \in Spec1, EditSpec(s) PROVE TypeOK'
  <2>1. edits' \in 0 .. MaxEdits
    BY <1>0, <1>6 DEF EditSpec
  <2>2. QED
    BY <1>6, <2>1 DEF EditSpec, TypeOK
<1>7. ASSUME NEW i \in Index, Migrate(i) PROVE TypeOK'
  <2>1. copies' \subseteq Index
    BY <1>7 DEF Migrate, TypeOK
  <2>2. QED
    BY <1>7, <2>1 DEF Migrate, TypeOK
<1>8. ASSUME NEW i \in Index, PodBecomesReady(i) PROVE TypeOK'
  <2>1. map \in Configs
    BY <1>8 DEF PodBecomesReady, TypeOK
  <2>2. [pod[i] EXCEPT !.st = "ready", !.cfg = map] \in Pod
    BY <1>0, <1>8, <2>1, PodChanges DEF PodBecomesReady
  <2>3. pod' \in [Index -> Pod]
    BY <1>0, <1>8, <2>2 DEF PodBecomesReady
  <2>4. QED
    BY <1>8, <2>3 DEF PodBecomesReady, TypeOK
<1>9. ASSUME NEW i \in Index, PodFails(i) PROVE TypeOK'
  <2>1. losses' \in 0 .. MaxLosses
    BY <1>0, <1>9 DEF PodFails, Loss
  <2>2. [pod[i] EXCEPT !.st = "failed"] \in Pod
    BY <1>0, <1>9, PodChanges DEF PodFails, Existing
  <2>3. pod' \in [Index -> Pod]
    BY <1>0, <1>9, <2>2, DeleteType DEF PodFails
  <2>4. QED
    BY <1>9, <2>1, <2>3 DEF PodFails, Loss, TypeOK
<1>10. ASSUME NEW is \in SUBSET (Index \ {0}), Partition(is) PROVE TypeOK'
  <2>1. losses' \in 0 .. MaxLosses
    BY <1>0, <1>10 DEF Partition, Loss
  <2>2. QED
    BY <1>10, <2>1 DEF Partition, Loss, TypeOK
<1>11. ASSUME NEW o \in {"service", "policy", "map"}, ObjectVanishes(o) PROVE TypeOK'
  <2>1. faults' \in 0 .. MaxFaults
    BY <1>0, <1>11 DEF ObjectVanishes, Fault
  <2>2. QED
    BY <1>11, <2>1 DEF ObjectVanishes, Fault, TypeOK
<1>12. QED
  BY <1>1, <1>2, <1>3, <1>4, <1>5, <1>6, <1>7, <1>8, <1>9, <1>10, <1>11 DEF Next

\* The initial states are well typed.
LEMMA InitType == Init => TypeOK
<1> SUFFICES ASSUME Init PROVE TypeOK
  OBVIOUS
<1>1. MaxNodes \in Nat \ {0} /\ MaxEdits \in Nat /\ MaxFaults \in Nat /\ MaxLosses \in Nat
  BY ScalingAssumption
<1>2. 0 \in Index /\ Absent \in Pod /\ 0 \in -1 .. MaxNodes
  BY <1>1, PodTypes DEF Index
<1>3. pod \in [Index -> Pod] /\ view \in [Index -> SUBSET Index]
  BY <1>2 DEF Init
<1>4. edits \in 0 .. MaxEdits /\ faults \in 0 .. MaxFaults /\ losses \in 0 .. MaxLosses
  BY <1>1 DEF Init
<1>5. spec \in Spec1
  BY DEF Init
<1>6. QED
  BY <1>2, <1>3, <1>4, <1>5 DEF Init, TypeOK

\* Every reachable state is well typed, whatever is lost, fails or changes.  In
\* particular the index of the pod to delete is never below that of the first.
THEOREM TypeCorrect == Spec => []TypeOK
BY InitType, NextType, PTL DEF Spec

-----------------------------------------------------------------------------
(* The status is earned.                                                   *)

\* As long as no pod is lost and the network holds, a pod that runs has read
\* the configuration its annotation tells, and a pod that starts will read the
\* one of the spec.
PodsSound ==
    /\ island = {}
    /\ \A i \in Index :
         /\ pod[i].st # "failed"
         /\ pod[i].st = "ready" => pod[i].cfg = pod[i].hash
         /\ pod[i].st = "pending" => pod[i].hash = spec.cfg /\ map \in {spec.cfg, "none"}

\* A reconcile whose copy of the spec is out of date has nothing to do: users
\* have waited for its outcome.
StaleIsIdle ==
    pc # "idle" /\ cl # spec => status = cl /\ AsSpecified(cl) /\ Existing = Ready

\* The config map is the one of the spec once it has been ensured.
MapEnsured ==
    pc \in {"policy", "scale", "pods", "wait"} /\ cl = spec => map \in {cl.cfg, "none"}

\* If there are pods above the wanted size, there are no gaps: the number of the
\* pods tells the largest index.
NoGaps ==
    \/ Existing \subseteq 0 .. spec.nodes - 1
    \/ Existing = Ready /\ \E k \in 1 .. MaxNodes : Existing = 0 .. k - 1

\* ... so that the loop that scales down misses none.
ScalesAll ==
    pc = "scale" /\ cl = spec => \A j \in Existing : j <= idx \/ j < cl.nodes

\* The loop over the wanted pods leaves them as wanted.
PodsInOrder ==
    pc \in {"pods", "wait"}
    => /\ idx >= 0
       /\ pc = "wait" => idx < cl.nodes /\ pod[idx].hash = cl.cfg
       /\ cl = spec => Existing \subseteq 0 .. cl.nodes - 1
       /\ \A i \in Index : i < idx => pod[i].st = "ready" /\ pod[i].hash = cl.cfg

InOrder ==
    /\ PodsSound /\ StaleIsIdle /\ MapEnsured
    /\ NoGaps /\ ScalesAll /\ PodsInOrder

\* The inductive invariant of StatusIsEarned.
ScalingInv == losses = 0 => InOrder

\* The values that the steps below compute with.
LEMMA ScalingTypes ==
    ASSUME TypeOK
    PROVE  /\ MaxNodes \in Nat \ {0} /\ idx \in Int
           /\ cl.nodes \in 1 .. MaxNodes /\ spec.nodes \in 1 .. MaxNodes
           /\ cl.cfg \in Configs /\ spec.cfg \in Configs
           /\ \A i \in Index : pod[i] \in Pod
           /\ losses \in Nat /\ faults \in Nat
BY ScalingAssumption DEF TypeOK, Spec1

\* What the deletion of a pod does to the sets of pods.
LEMMA DeleteEffects ==
    ASSUME TypeOK, NEW i, Delete(i)
    PROVE  /\ \A j \in Index : j # i => pod'[j] = pod[j]
           /\ i \in Index => pod'[i] = Absent
           /\ Existing' = Existing \ {i} /\ Ready' = Ready \ {i}
           /\ i \notin Existing => pod' = pod
<1>1. pod \in [Index -> Pod]
  BY DEF TypeOK
<1>2. /\ \A j \in Index : j # i => pod'[j] = pod[j]
      /\ i \in Index => pod'[i] = Absent
  BY <1>1 DEF Delete
<1>3. Existing' = Existing \ {i} /\ Ready' = Ready \ {i}
  BY <1>2, PodTypes DEF Existing, Ready
<1>4. ASSUME i \notin Existing PROVE pod' = pod
  <2>1. i \in Index => pod[i] = Absent
    BY <1>1, <1>4, PodTypes DEF Existing
  <2>2. QED
    BY <1>1, <2>1 DEF Delete
<1>5. QED
  BY <1>2, <1>3, <1>4

\* Nothing has failed, and all that is not ready is pending.
LEMMA PendingOrReady ==
    ASSUME TypeOK, PodsSound
    PROVE  /\ \A i \in Existing : pod[i].st \in {"pending", "ready"}
           /\ Ready \subseteq Existing
           /\ {j \in Existing : pod[j].st # "failed"} = Existing
           /\ ViewNow = [i \in Index |-> IF i \in Ready THEN Ready ELSE {}]
<1>1. \A i \in Existing : pod[i].st \in {"pending", "ready"}
  BY ScalingTypes, PodTypes DEF PodsSound, Existing
<1>2. Ready \subseteq Existing
  BY DEF Ready, Existing
<1>3. {j \in Existing : pod[j].st # "failed"} = Existing
  BY <1>1
<1>4. ViewNow = [i \in Index |-> IF i \in Ready THEN Ready ELSE {}]
  BY DEF PodsSound, ViewNow, Reachable
<1>5. QED
  BY <1>1, <1>2, <1>3, <1>4

\* A cluster whose pods are all ready is not too small.
LEMMA SmallHasPending ==
    ASSUME TypeOK, PodsSound, DeleteIsolatedPod
    PROVE  \E j \in Existing : pod[j].st = "pending"
<1>1. idx \in Ready /\ view = ViewNow /\ Small(idx)
  BY DEF DeleteIsolatedPod
<1>2. view[idx] = Ready
  BY <1>1, PendingOrReady DEF Ready
<1>3. Cardinality(Ready) < Cardinality(Existing)
  BY <1>1, <1>2, PendingOrReady DEF Small
<1>4. Ready # Existing
  <2>1. Cardinality(Existing) \in Nat
    BY IndexFacts DEF Existing
  <2>2. ~(Cardinality(Existing) < Cardinality(Existing))
    BY <2>1
  <2>3. QED
    BY <1>3, <2>2
<1>5. QED
  BY <1>4, PendingOrReady DEF Ready, Existing

\* A reconcile with an outdated copy of the spec touches no pod.
LEMMA StaleTouchesNoPod ==
    ASSUME TypeOK, InOrder, pc # "idle", cl # spec
    PROVE  /\ ~DeleteFailedPod /\ ~RestartPod /\ ~DeleteIsolatedPod /\ ~CreatePod /\ ~PodIsLost
           /\ ScaleDown => pod' = pod
<1>1. /\ Existing = 0 .. cl.nodes - 1 /\ Existing = Ready
      /\ \A i \in Existing : pod[i].cfg = cl.cfg
  BY DEF InOrder, StaleIsIdle, AsSpecified
<1>2. cl.nodes \in 1 .. MaxNodes /\ idx \in Int
  BY ScalingTypes
<1>3. \A i \in Existing : pod[i].st = "ready" /\ pod[i].hash = cl.cfg
  BY <1>1 DEF InOrder, PodsSound, Ready
<1>4. pc \in {"pods", "wait"} /\ idx < cl.nodes => idx \in Existing
  BY <1>1, <1>2 DEF InOrder, PodsInOrder
<1>5. ~DeleteFailedPod /\ ~RestartPod /\ ~CreatePod
  BY <1>3, <1>4, <1>1 DEF DeleteFailedPod, RestartPod, CreatePod
<1>6. ~PodIsLost
  BY <1>3, <1>4 DEF PodIsLost, InOrder, PodsInOrder
<1>7. ~DeleteIsolatedPod
  BY <1>3, SmallHasPending DEF InOrder
<1>8. ASSUME ScaleDown PROVE pod' = pod
  <2>1. idx \notin Existing /\ Delete(idx)
    BY <1>1, <1>2, <1>8 DEF ScaleDown
  <2>2. QED
    BY <2>1, DeleteEffects
<1>9. QED
  BY <1>5, <1>6, <1>7, <1>8

\* A reconcile ends, or is interrupted, between two pods.
LEMMA ReturnInOrder ==
    ASSUME TypeOK, InOrder, Return, UNCHANGED <<spec, map, pod, island>>
    PROVE  InOrder'
<1>1. pc' = "idle"
  BY DEF Return
<1>2. PodsSound' /\ NoGaps'
  BY DEF InOrder, PodsSound, NoGaps, Existing, Ready
<1>3. StaleIsIdle' /\ MapEnsured' /\ ScalesAll' /\ PodsInOrder'
  BY <1>1 DEF StaleIsIdle, MapEnsured, ScalesAll, PodsInOrder
<1>4. QED
  BY <1>2, <1>3 DEF InOrder

\* Up to the pods: the config map is ensured, and the index of the last pod
\* comes from their number.
LEMMA EnsureInOrder ==
    ASSUME TypeOK, InOrder, Begin \/ EnsureService \/ EnsureConfigMap \/ EnsureNetworkPolicy
    PROVE  InOrder'
<1> USE DEF objects, meshVars
<1>1. /\ spec' = spec /\ status' = status /\ pod' = pod /\ island' = island
      /\ Existing' = Existing /\ Ready' = Ready
  BY DEF Begin, EnsureService, EnsureConfigMap, EnsureNetworkPolicy, Existing, Ready
<1>2. /\ pc' \in {"service", "map", "policy", "scale"}
      /\ cl' = spec \/ (cl' = cl /\ pc # "idle")
  BY DEF Begin, EnsureService, EnsureConfigMap, EnsureNetworkPolicy
<1>3. NoGaps'
  BY <1>1 DEF InOrder, NoGaps
<1>4. StaleIsIdle'
  BY <1>1, <1>2 DEF InOrder, StaleIsIdle, AsSpecified
<1>5. PodsInOrder'
  BY <1>2 DEF PodsInOrder
<1>6. PodsSound'
  <2>1. CASE EnsureConfigMap
    <3>1. map' = cl.cfg /\ pc # "idle"
      BY <2>1 DEF EnsureConfigMap
    <3>2. CASE cl = spec
      BY <1>1, <3>1, <3>2 DEF InOrder, PodsSound
    <3>3. CASE cl # spec
      <4>1. \A i \in Index : pod[i].st # "pending"
        BY <3>1, <3>3 DEF InOrder, StaleIsIdle, Existing, Ready
      <4>2. QED
        BY <1>1, <4>1 DEF InOrder, PodsSound
    <3>4. QED
      BY <3>2, <3>3
  <2>2. CASE ~EnsureConfigMap
    <3>1. map' = map
      BY <2>2 DEF Begin, EnsureService, EnsureNetworkPolicy
    <3>2. QED
      BY <1>1, <3>1 DEF InOrder, PodsSound
  <2>3. QED
    BY <2>1, <2>2
<1>7. MapEnsured'
  <2>1. CASE EnsureNetworkPolicy
    BY <1>1, <2>1 DEF InOrder, MapEnsured, EnsureNetworkPolicy
  <2>2. CASE EnsureConfigMap
    BY <1>1, <2>2 DEF MapEnsured, EnsureConfigMap
  <2>3. CASE Begin \/ EnsureService
    BY <2>3 DEF MapEnsured, Begin, EnsureService
  <2>4. QED
    BY <2>1, <2>2, <2>3
<1>8. ScalesAll'
  <2>1. CASE EnsureNetworkPolicy
    <3>1. cl' = cl /\ idx' = Cardinality(Existing) - 1
      BY <2>1 DEF EnsureNetworkPolicy
    <3>2. ASSUME cl = spec, NEW j \in Existing
          PROVE  j <= idx' \/ j < cl.nodes
      <4>1. CASE Existing \subseteq 0 .. spec.nodes - 1
        BY <3>2, <4>1, ScalingTypes
      <4>2. CASE \E k \in 1 .. MaxNodes : Existing = 0 .. k - 1
        <5>1. PICK k \in 1 .. MaxNodes : Existing = 0 .. k - 1
          BY <4>2
        <5>2. Cardinality(0 .. k - 1) = k
          BY <5>1, FS_Interval
        <5>3. QED
          BY <3>1, <3>2, <5>1, <5>2
      <4>3. QED
        BY <4>1, <4>2 DEF InOrder, NoGaps
    <3>3. QED
      BY <1>1, <3>1, <3>2 DEF ScalesAll
  <2>2. CASE ~EnsureNetworkPolicy
    BY <2>2 DEF ScalesAll, Begin, EnsureService, EnsureConfigMap
  <2>3. QED
    BY <2>1, <2>2
<1>9. QED
  BY <1>3, <1>4, <1>5, <1>6, <1>7, <1>8 DEF InOrder

\* Scaling down, from the last pod on.
LEMMA ScaleInOrder ==
    ASSUME TypeOK, InOrder, ScaleDown \/ ScaledDown
    PROVE  InOrder'
<1> USE DEF objects, meshVars
<1>1. /\ spec' = spec /\ status' = status /\ map' = map /\ island' = island /\ cl' = cl
      /\ pc = "scale"
  BY DEF ScaleDown, ScaledDown
<1>2. MapEnsured'
  BY <1>1 DEF InOrder, MapEnsured, ScaleDown, ScaledDown
<1>3. CASE pod' = pod
  <2>1. PodsSound' /\ StaleIsIdle' /\ NoGaps'
    BY <1>1, <1>3 DEF InOrder, PodsSound, StaleIsIdle, NoGaps, AsSpecified, Existing, Ready
  <2>2. CASE ScaleDown
    <3>1. pc' = "scale" /\ idx' = idx - 1 /\ idx >= cl.nodes /\ Delete(idx)
      BY <1>1, <2>2 DEF ScaleDown
    <3>2. Existing' = Existing \ {idx}
      BY <3>1, DeleteEffects
    <3>3. \A j \in Existing : j # idx /\ j <= idx => j <= idx - 1
      BY ScalingTypes DEF Existing, Index
    <3>4. ScalesAll'
      BY <1>1, <3>1, <3>2, <3>3 DEF InOrder, ScalesAll
    <3>5. PodsInOrder'
      BY <3>1 DEF PodsInOrder
    <3>6. QED
      BY <1>2, <2>1, <3>4, <3>5 DEF InOrder
  <2>3. CASE ScaledDown
    <3>1. pc' = "pods" /\ idx' = 0 /\ idx < cl.nodes
      BY <2>3 DEF ScaledDown
    <3>2. ScalesAll'
      BY <3>1 DEF ScalesAll
    <3>3. cl = spec => Existing \subseteq 0 .. cl.nodes - 1
      <4>1. ASSUME cl = spec, NEW j \in Existing PROVE j \in 0 .. cl.nodes - 1
        <5>1. j <= idx \/ j < cl.nodes
          BY <1>1, <4>1 DEF InOrder, ScalesAll
        <5>2. j \in Index
          BY DEF Existing
        <5>3. QED
          BY <3>1, <5>1, <5>2, ScalingTypes DEF Index
      <4>2. QED
        BY <4>1
    <3>4. 0 >= 0 /\ \A i \in Index : ~(i < 0)
      BY DEF Index
    <3>5. PodsInOrder'
      BY <1>1, <1>3, <3>1, <3>3, <3>4 DEF PodsInOrder, Existing
    <3>6. QED
      BY <1>2, <2>1, <3>2, <3>5 DEF InOrder
  <2>4. QED
    BY <2>2, <2>3
<1>4. CASE pod' # pod
  <2>1. ScaleDown
    BY <1>4 DEF ScaledDown
  <2>2. /\ cl = spec /\ idx >= cl.nodes /\ Delete(idx) /\ idx' = idx - 1 /\ pc' = "scale"
    BY <1>1, <1>4, <2>1, StaleTouchesNoPod DEF ScaleDown
  <2>3. idx \in Existing
    BY <1>4, <2>2, DeleteEffects
  <2>4. /\ \A j \in Index : pod'[j] \in {pod[j], Absent}
        /\ Existing' = Existing \ {idx} /\ Ready' = Ready \ {idx}
    BY <2>2, DeleteEffects
  <2>5. PodsSound'
    BY <1>1, <2>4, PodTypes DEF InOrder, PodsSound
  <2>6. StaleIsIdle' /\ PodsInOrder'
    BY <1>1, <2>2 DEF StaleIsIdle, PodsInOrder
  <2>7. NoGaps'
    <3>1. ~(Existing \subseteq 0 .. spec.nodes - 1)
      BY <2>2, <2>3, ScalingTypes
    <3>2. PICK k \in 1 .. MaxNodes : Existing = Ready /\ Existing = 0 .. k - 1
      BY <3>1 DEF InOrder, NoGaps
    <3>3. idx >= k - 1
      <4>1. k - 1 \in Existing
        BY <3>2
      <4>2. k - 1 <= idx \/ k - 1 < cl.nodes
        BY <1>1, <2>2, <4>1 DEF InOrder, ScalesAll
      <4>3. QED
        BY <2>2, <3>2, <4>2, ScalingTypes
    <3>4. idx = k - 1
      BY <2>3, <3>2, <3>3, ScalingTypes
    <3>5. Existing' = 0 .. (k - 1) - 1
      BY <2>4, <3>2, <3>4
    <3>6. k - 1 \in 1 .. MaxNodes
      BY <2>2, <3>2, <3>4, ScalingTypes
    <3>7. Existing' = Ready'
      BY <2>4, <3>2
    <3>8. QED
      BY <3>5, <3>6, <3>7 DEF NoGaps
  <2>8. ScalesAll'
    <3>1. \A j \in Existing : j # idx /\ j <= idx => j <= idx - 1
      BY ScalingTypes DEF Existing, Index
    <3>2. QED
      BY <1>1, <2>2, <2>4, <3>1 DEF InOrder, ScalesAll
  <2>9. QED
    BY <1>2, <2>5, <2>6, <2>7, <2>8 DEF InOrder
<1>5. QED
  BY <1>3, <1>4

\* The loop moves on from a pod that is as wanted.
LEMMA NextPodInOrder ==
    ASSUME TypeOK, InOrder, KeepPod \/ PodIsReady
    PROVE  InOrder'
<1> USE DEF objects, meshVars
<1>1. /\ spec' = spec /\ status' = status /\ map' = map /\ island' = island /\ cl' = cl
      /\ pod' = pod /\ pc \in {"pods", "wait"} /\ pc' = "pods" /\ idx' = idx + 1
      /\ idx \in Ready
  BY DEF KeepPod, PodIsReady, NextPod
<1>2. PodsSound' /\ StaleIsIdle' /\ NoGaps' /\ MapEnsured' /\ ScalesAll'
  BY <1>1 DEF InOrder, PodsSound, StaleIsIdle, NoGaps, MapEnsured, ScalesAll, AsSpecified,
     Existing, Ready
<1>3. pod[idx].st = "ready" /\ pod[idx].hash = cl.cfg
  <2>1. CASE KeepPod
    BY <2>1 DEF KeepPod, Ready
  <2>2. CASE PodIsReady
    BY <1>1, <2>2 DEF PodIsReady, Ready, InOrder, PodsInOrder
  <2>3. QED
    BY <2>1, <2>2
<1>4. /\ idx + 1 >= 0
      /\ \A i \in Index : i < idx + 1 => i < idx \/ i = idx
  BY <1>1, ScalingTypes DEF InOrder, PodsInOrder, Index
<1>5. PodsInOrder'
  BY <1>1, <1>3, <1>4 DEF InOrder, PodsInOrder, Existing
<1>6. QED
  BY <1>2, <1>5 DEF InOrder

\* The loop deletes a pod that is not as wanted: the one it is at.
LEMMA DeleteInOrder ==
    ASSUME TypeOK, InOrder, RestartPod \/ DeleteIsolatedPod
    PROVE  InOrder'
<1> USE DEF objects, meshVars, local
<1>1. /\ pc = "pods" /\ idx \in Ready /\ Delete(idx)
      /\ spec' = spec /\ status' = status /\ map' = map /\ island' = island
      /\ \/ pc' = "idle"
         \/ pc' = "pods" /\ cl' = cl /\ idx' = idx
  BY DEF RestartPod, DeleteIsolatedPod, Return
<1>2. cl = spec
  BY <1>1, StaleTouchesNoPod
<1>3. /\ \A j \in Index : pod'[j] \in {pod[j], Absent}
      /\ \A j \in Index : j # idx => pod'[j] = pod[j]
      /\ Existing' = Existing \ {idx}
  BY <1>1, DeleteEffects
<1>4. PodsSound'
  BY <1>1, <1>3, PodTypes DEF InOrder, PodsSound
<1>5. StaleIsIdle' /\ MapEnsured' /\ ScalesAll'
  BY <1>1, <1>2 DEF InOrder, StaleIsIdle, MapEnsured, ScalesAll
<1>6. Existing \subseteq 0 .. cl.nodes - 1
  BY <1>1, <1>2 DEF InOrder, PodsInOrder
<1>7. NoGaps'
  BY <1>1, <1>2, <1>3, <1>6 DEF NoGaps
<1>8. PodsInOrder'
  <2>1. \A i \in Index : i < idx => i # idx
    BY DEF Index
  <2>2. QED
    BY <1>1, <1>2, <1>3, <1>6, <2>1 DEF InOrder, PodsInOrder
<1>9. QED
  BY <1>4, <1>5, <1>7, <1>8 DEF InOrder

\* The loop creates a pod, from the config map of the spec.
LEMMA CreateInOrder ==
    ASSUME TypeOK, InOrder, CreatePod
    PROVE  InOrder'
<1> USE DEF objects, meshVars
<1> DEFINE p == [st |-> "pending", hash |-> cl.cfg, cfg |-> "none"]
<1>1. /\ pc = "pods" /\ pc' = "wait" /\ cl' = cl /\ idx' = idx /\ idx < cl.nodes
      /\ idx \notin Existing
      /\ spec' = spec /\ status' = status /\ map' = map /\ island' = island
      /\ pod' = [pod EXCEPT ![idx] = p]
  BY DEF CreatePod
<1>2. cl = spec
  BY <1>1, StaleTouchesNoPod
<1>3. p.st = "pending" /\ p.hash = cl.cfg
  OBVIOUS
<1> HIDE DEF p
<1>4. idx \in Index
  BY <1>1, ScalingTypes DEF InOrder, PodsInOrder, Index
<1>5. /\ \A j \in Index : j # idx => pod'[j] = pod[j]
      /\ pod'[idx] = p
  BY <1>1, <1>4 DEF TypeOK
<1>6. Existing' \subseteq Existing \cup {idx}
  BY <1>5 DEF Existing
<1>7. map \in {spec.cfg, "none"}
  BY <1>1, <1>2 DEF InOrder, MapEnsured
<1>8. PodsSound'
  BY <1>1, <1>2, <1>3, <1>5, <1>7 DEF InOrder, PodsSound
<1>9. StaleIsIdle' /\ MapEnsured' /\ ScalesAll'
  BY <1>1, <1>2 DEF InOrder, StaleIsIdle, MapEnsured, ScalesAll
<1>10. Existing' \subseteq 0 .. cl.nodes - 1
  <2>1. Existing \subseteq 0 .. cl.nodes - 1
    BY <1>1, <1>2 DEF InOrder, PodsInOrder
  <2>2. idx \in 0 .. cl.nodes - 1
    BY <1>1, <1>4, ScalingTypes DEF Index
  <2>3. QED
    BY <1>6, <2>1, <2>2
<1>11. NoGaps'
  BY <1>1, <1>2, <1>10 DEF NoGaps
<1>12. PodsInOrder'
  <2>1. \A i \in Index : i < idx => i # idx
    BY DEF Index
  <2>2. QED
    BY <1>1, <1>2, <1>3, <1>5, <1>10, <2>1 DEF InOrder, PodsInOrder
<1>13. QED
  BY <1>8, <1>9, <1>11, <1>12 DEF InOrder

\* The kubelet starts a pod: the config map is the one its annotation tells.
LEMMA BecomesReadyInOrder ==
    ASSUME TypeOK, InOrder, NEW i \in Index, PodBecomesReady(i)
    PROVE  InOrder'
<1> USE DEF objects, meshVars, local
<1>1. /\ spec' = spec /\ status' = status /\ map' = map /\ island' = island
      /\ pc' = pc /\ cl' = cl /\ idx' = idx
      /\ pod[i].st = "pending" /\ map # "none"
      /\ pod' = [pod EXCEPT ![i].st = "ready", ![i].cfg = map]
  BY DEF PodBecomesReady
<1>2. pod[i].hash = spec.cfg /\ map = spec.cfg
  BY <1>1 DEF InOrder, PodsSound
<1>3. /\ \A j \in Index : j # i => pod'[j] = pod[j]
      /\ pod'[i] = [pod[i] EXCEPT !.st = "ready", !.cfg = map]
  BY <1>1 DEF TypeOK
<1>4. pod'[i].st = "ready" /\ pod'[i].cfg = map /\ pod'[i].hash = pod[i].hash
  <2>1. pod[i] \in [st : {"pending", "ready", "failed"}, hash : Configs,
                    cfg : Configs \cup {"none"}]
    BY <1>1, ScalingTypes DEF Pod, Absent
  <2>2. QED
    BY <1>3, <2>1
<1>5. Existing' = Existing /\ Ready' = Ready \cup {i}
  BY <1>1, <1>3, <1>4 DEF Existing, Ready
<1>6. i \in Existing /\ i \notin Ready
  BY <1>1 DEF Existing, Ready
<1>7. PodsSound'
  BY <1>1, <1>2, <1>3, <1>4 DEF InOrder, PodsSound
<1>8. StaleIsIdle' /\ NoGaps'
  BY <1>1, <1>5, <1>6 DEF InOrder, StaleIsIdle, NoGaps
<1>9. MapEnsured' /\ ScalesAll'
  BY <1>1, <1>5 DEF InOrder, MapEnsured, ScalesAll
<1>10. PodsInOrder'
  <2>1. pc = "wait" => idx \in Index
    BY ScalingTypes DEF InOrder, PodsInOrder, Index
  <2>2. \A j \in Index : pod'[j].hash = pod[j].hash
    BY <1>3, <1>4
  <2>3. \A j \in Index : pod[j].st = "ready" => pod'[j].st = "ready"
    BY <1>3, <1>4
  <2>4. QED
    BY <1>1, <1>5, <2>1, <2>2, <2>3 DEF InOrder, PodsInOrder
<1>11. QED
  BY <1>7, <1>8, <1>9, <1>10 DEF InOrder

\* A user changes the spec, once it is as specified: a reconcile that is in
\* progress has then nothing left to do.
LEMMA EditInOrder ==
    ASSUME Calm = TRUE, TypeOK, InOrder, NEW s \in Spec1, EditSpec(s)
    PROVE  InOrder'
<1> USE DEF objects, meshVars, local
<1>1. /\ s # spec /\ spec' = s /\ AsSpecified(spec) /\ Existing = Ready /\ status = spec
      /\ status' = status /\ map' = map /\ island' = island /\ pod' = pod
      /\ pc' = pc /\ cl' = cl /\ idx' = idx
  BY DEF EditSpec
<1>2. Existing' = Existing /\ Ready' = Ready
  BY <1>1 DEF Existing, Ready
<1>3. pc # "idle" => cl = spec
  BY <1>1 DEF InOrder, StaleIsIdle
<1>4. \A i \in Index : pod[i].st # "pending"
  BY <1>1 DEF Existing, Ready
<1>5. PodsSound'
  BY <1>1, <1>4 DEF InOrder, PodsSound
<1>6. StaleIsIdle'
  BY <1>1, <1>2, <1>3 DEF StaleIsIdle, AsSpecified
<1>7. MapEnsured' /\ ScalesAll'
  BY <1>1, <1>3 DEF MapEnsured, ScalesAll
<1>8. NoGaps'
  BY <1>1, <1>2, ScalingTypes DEF NoGaps, AsSpecified
<1>9. PodsInOrder'
  BY <1>1, <1>3 DEF InOrder, PodsInOrder
<1>10. QED
  BY <1>5, <1>6, <1>7, <1>8, <1>9 DEF InOrder

\* The config map is deleted: it is not another one.
LEMMA VanishInOrder ==
    ASSUME TypeOK, InOrder, NEW o, ObjectVanishes(o)
    PROVE  InOrder'
<1> USE DEF meshVars, local
<1>1. /\ spec' = spec /\ status' = status /\ island' = island /\ pod' = pod
      /\ pc' = pc /\ cl' = cl /\ idx' = idx
      /\ map' \in {map, "none"}
  BY DEF ObjectVanishes
<1>2. Existing' = Existing /\ Ready' = Ready
  BY <1>1 DEF Existing, Ready
<1>3. PodsSound' /\ MapEnsured'
  BY <1>1 DEF InOrder, PodsSound, MapEnsured
<1>4. StaleIsIdle' /\ NoGaps' /\ ScalesAll' /\ PodsInOrder'
  BY <1>1, <1>2 DEF InOrder, StaleIsIdle, NoGaps, ScalesAll, PodsInOrder, AsSpecified
<1>5. QED
  BY <1>3, <1>4 DEF InOrder

\* What needs a pod that failed or is gone does not happen.
LEMMA NothingLost ==
    ASSUME TypeOK, InOrder
    PROVE  ~DeleteFailedPod /\ ~PodIsLost /\ ~Heal
<1>1. ~Heal
  BY DEF InOrder, PodsSound, Heal
<1>2. \A i \in Index : pod[i].st # "failed"
  BY DEF InOrder, PodsSound
<1>3. pc \in {"pods", "wait"} /\ idx < cl.nodes => idx \in Index
  BY ScalingTypes DEF InOrder, PodsInOrder, Index
<1>4. ~DeleteFailedPod
  BY <1>2, <1>3 DEF DeleteFailedPod
<1>5. ~PodIsLost
  <2>1. ASSUME PodIsLost PROVE FALSE
    <3>1. idx \in Index /\ pod[idx].hash \in Configs /\ pod[idx].st = "absent"
      BY <1>2, <1>3, <2>1, ScalingTypes DEF PodIsLost, InOrder, PodsInOrder
    <3>2. pod[idx] = Absent
      BY <3>1, ScalingTypes, PodTypes
    <3>3. QED
      BY <3>1, <3>2, ScalingAssumption DEF Absent
  <2>2. QED
    BY <2>1
<1>6. QED
  BY <1>1, <1>4, <1>5

\* A loss is counted.
LEMMA LossesCounted ==
    ASSUME TypeOK, [Next]_vars, losses' = 0
    PROVE  /\ losses = 0
           /\ \A i \in Index : ~PodFails(i)
           /\ \A is \in SUBSET (Index \ {0}) : ~Partition(is)
<1>1. ~Loss
  BY ScalingTypes DEF Loss
<1>2. /\ \A i \in Index : ~PodFails(i)
      /\ \A is \in SUBSET (Index \ {0}) : ~Partition(is)
  BY <1>1 DEF PodFails, Partition
<1>3. losses = 0
  BY <1>2 DEF Next, Reconcile, vars, bounds, Begin, EnsureService, EnsureConfigMap,
     EnsureNetworkPolicy, ScaleDown, ScaledDown, PodUnreachable, DeleteFailedPod, RestartPod,
     KeepPod, DeleteIsolatedPod, CreatePod, PodIsReady, PodIsLost, WaitTimesOut, UpdateStatus,
     Regroup, Heal, Abort, Fault, EditSpec, Migrate, PodBecomesReady, ObjectVanishes
<1>4. QED
  BY <1>2, <1>3

\* The invariant is inductive.
LEMMA NextScaling ==
    Calm = TRUE /\ TypeOK /\ ScalingInv /\ [Next]_vars => ScalingInv'
<1> SUFFICES ASSUME Calm = TRUE, TypeOK, ScalingInv, [Next]_vars, losses' = 0
             PROVE  InOrder'
  BY DEF ScalingInv
<1> USE DEF objects, meshVars, local
<1>1. InOrder
  BY LossesCounted DEF ScalingInv
<1>2. ASSUME UNCHANGED <<spec, status, map, pod, island, pc, cl, idx>>
      PROVE  InOrder'
  BY <1>1, <1>2 DEF InOrder, PodsSound, StaleIsIdle, MapEnsured, NoGaps, ScalesAll, PodsInOrder,
     AsSpecified, Existing, Ready
<1>3. CASE UNCHANGED vars \/ Regroup \/ \E i \in Index : Migrate(i)
  BY <1>2, <1>3 DEF vars, Regroup, Migrate
<1>4. CASE PodUnreachable \/ WaitTimesOut \/ UpdateStatus \/ Abort
  BY <1>1, <1>4, ReturnInOrder DEF PodUnreachable, WaitTimesOut, UpdateStatus, Abort
<1>5. CASE Reconcile
  BY <1>1, <1>4, <1>5, EnsureInOrder, ScaleInOrder, NextPodInOrder, DeleteInOrder, CreateInOrder,
     NothingLost DEF Reconcile
<1>6. CASE \E s \in Spec1 : EditSpec(s)
  BY <1>1, <1>6, EditInOrder
<1>7. CASE \E i \in Index : PodBecomesReady(i)
  BY <1>1, <1>7, BecomesReadyInOrder
<1>8. CASE \E o \in {"service", "policy", "map"} : ObjectVanishes(o)
  BY <1>1, <1>8, VanishInOrder
<1>9. QED
  BY <1>1, <1>3, <1>4, <1>5, <1>6, <1>7, <1>8, NothingLost, LossesCounted DEF Next

\* At first there are no pods.
LEMMA InitScaling == Init => ScalingInv
<1> SUFFICES ASSUME Init PROVE InOrder
  BY DEF ScalingInv
<1>1. \A i \in Index : pod[i].st = "absent"
  BY PodTypes DEF Init
<1>2. Existing = {} /\ pc = "idle" /\ island = {}
  BY <1>1 DEF Existing, Init
<1>3. QED
  BY <1>1, <1>2 DEF InOrder, PodsSound, StaleIsIdle, MapEnsured, NoGaps, ScalesAll, PodsInOrder

\* The status becomes the spec only once the pods are what the spec asks for, as
\* long as no pod is lost, for users who wait until the cluster is as they asked
\* for: however often the operator is interrupted, starts from an old copy, or
\* finds the config map gone.
THEOREM StatusEarned == Calm = TRUE /\ Spec => StatusIsEarned
<1>1. TypeOK /\ ScalingInv /\ [Next]_vars
      => [losses = 0 /\ status' # status => AsSpecified(status')]_vars
  <2>1. SUFFICES ASSUME TypeOK, ScalingInv, Next, losses = 0, status' # status
                 PROVE  AsSpecified(status')
    OBVIOUS
  <2>2. UpdateStatus
    BY <2>1 DEF Next, Reconcile, Begin, EnsureService, EnsureConfigMap, EnsureNetworkPolicy,
       ScaleDown, ScaledDown, PodUnreachable, DeleteFailedPod, RestartPod, KeepPod,
       DeleteIsolatedPod, CreatePod, PodIsReady, PodIsLost, WaitTimesOut, Regroup, Heal, Abort,
       EditSpec, Migrate, PodBecomesReady, PodFails, Partition, ObjectVanishes
  <2>3. status' = cl /\ pc = "pods" /\ idx = cl.nodes
    BY <2>2 DEF UpdateStatus
  <2>4. InOrder
    BY <2>1 DEF ScalingInv
  <2>5. cl = spec
    BY <2>1, <2>3, <2>4 DEF InOrder, StaleIsIdle
  <2>6. \A i \in 0 .. cl.nodes - 1 : i \in Index /\ i < idx
    BY <2>3, ScalingTypes, <2>1 DEF Index
  <2>7. \A i \in 0 .. cl.nodes - 1 : pod[i].st = "ready" /\ pod[i].hash = cl.cfg
    BY <2>3, <2>4, <2>6 DEF InOrder, PodsInOrder
  <2>8. Existing = 0 .. cl.nodes - 1
    BY <2>3, <2>4, <2>5, <2>6, <2>7 DEF InOrder, PodsInOrder, Existing
  <2>9. \A i \in Existing : pod[i].cfg = cl.cfg
    BY <2>4, <2>6, <2>7, <2>8 DEF InOrder, PodsSound
  <2>10. QED
    BY <2>3, <2>8, <2>9 DEF AsSpecified
<1>2. Calm = TRUE => (Calm = TRUE)'
  OBVIOUS
<1>3. Calm = TRUE /\ Spec => []ScalingInv
  BY <1>2, InitScaling, NextScaling, TypeCorrect, PTL DEF Spec
<1>4. QED
  BY <1>1, <1>3, TypeCorrect, PTL DEF Spec, StatusIsEarned

-----------------------------------------------------------------------------
(* The data stays available.                                               *)

\* What the webhook admits has as many pods as there are copies.
AdmittedSpecs == Admitted(spec.nodes) /\ (pc # "idle" => Admitted(cl.nodes))

RankOK == rank \in [Index -> Index]

\* Pod 0, with which a rolling restart begins, is not the only one that is ready.
FirstIsNotAlone ==
    losses = 0 /\ pod[0].st # "absent" /\ pod[0].hash # spec.cfg
    => pod[0].st = "ready" /\ pod[1].st = "ready"

\* A pod that has been created and is not waited for.
Left(i) == pod[i].st = "pending" /\ ~(pc = "wait" /\ i = idx)

\* The config map is gone although it has been ensured.
MapLost == map = "none" /\ pc \in {"policy", "scale", "pods", "wait"}

\* It takes a fault to lose the map, a fault to leave a pod behind, and so two
\* for both.
FaultsCounted ==
    /\ MapLost => faults >= 1
    /\ \A i \in Index : Left(i) => faults >= 1
    /\ \A i \in Index : Left(i) /\ MapLost => faults >= 2

\* The inductive invariant of DataStaysAvailable.
DataInv ==
    /\ TypeOK /\ ScalingInv /\ RankOK
    /\ AdmittedSpecs /\ FirstIsNotAlone /\ FaultsCounted

\* The case that the theorem is about: the webhook is asked, users wait, and
\* the data has more than one copy.
Replicated == Calm = TRUE /\ Prompt = TRUE /\ Bypass = FALSE /\ ReplicationFactor # 1

\* There are two copies, and two pods.
LEMMA TwoCopies ==
    ASSUME Replicated, TypeOK, AdmittedSpecs
    PROVE  /\ EffectiveFactor \in Nat /\ EffectiveFactor >= 2
           /\ spec.nodes >= 2 /\ (pc # "idle" => cl.nodes >= 2)
           /\ 0 \in Index /\ 1 \in Index
<1>1. EffectiveFactor \in Nat /\ EffectiveFactor >= 2
  BY ScalingAssumption DEF Replicated, EffectiveFactor
<1>2. spec.nodes >= 2 /\ (pc # "idle" => cl.nodes >= 2)
  BY <1>1, ScalingTypes DEF AdmittedSpecs, Admitted
<1>3. 0 \in Index /\ 1 \in Index
  BY <1>2, ScalingTypes DEF Index
<1>4. QED
  BY <1>1, <1>2, <1>3

\* A set of indices has one of the lowest rank.
LEMMA LowestRank ==
    ASSUME RankOK, NEW S \in SUBSET Index, S # {}
    PROVE  \E x \in S : \A y \in S : ~(rank[y] < rank[x])
<1> DEFINE R == OpToRel(<, Nat)
           T == {rank[x] : x \in S}
<1>1. IsWellFoundedOn(R, Nat)
  BY NatLessThanWellFounded
<1>2. \A x, y \in Nat : <<y, x>> \in R <=> y < x
  BY DEF OpToRel
<1> HIDE DEF R
<1>3. T \subseteq Nat /\ T # {}
  <2>1. \A x \in S : rank[x] \in Nat
    BY ScalingAssumption DEF RankOK, Index
  <2>2. QED
    BY <2>1
<1>4. PICK t \in T : \A u \in T : ~ (<<u, t>> \in R)
  BY <1>1, <1>3, WFMin
<1>5. PICK x \in S : t = rank[x]
  BY <1>4
<1>6. \A y \in S : rank[y] \in T /\ rank[y] \in Nat /\ rank[x] \in Nat
  BY <1>3, <1>5
<1>7. QED
  BY <1>2, <1>4, <1>5, <1>6

\* With a replication factor of two, a cluster of two nodes has two owners.
LEMMA TwoOwners ==
    ASSUME RankOK, EffectiveFactor \in Nat, EffectiveFactor >= 2,
           NEW S \in SUBSET Index, NEW a \in S, NEW b \in S, a # b
    PROVE  \E j \in Owners(S) : j # a
<1>1. PICK x \in S \ {a} : \A y \in S \ {a} : ~(rank[y] < rank[x])
  BY LowestRank
<1>2. {j \in S : rank[j] < rank[x]} \subseteq {a}
  BY <1>1
<1>3. Cardinality({j \in S : rank[j] < rank[x]}) \in Nat
      /\ Cardinality({j \in S : rank[j] < rank[x]}) <= 1
  <2>1. IsFiniteSet({a}) /\ Cardinality({a}) = 1
    BY FS_Singleton
  <2>2. QED
    BY <1>2, <2>1, FS_Subset, FS_CardinalityType
<1>4. x \in Owners(S)
  BY <1>1, <1>3 DEF Owners
<1>5. QED
  BY <1>1, <1>4

\* safeDeletePodWithIndex: a pod that has a copy and no migrations is not the
\* only one with a copy, as long as another one is ready.
LEMMA AnotherCopy ==
    ASSUME Replicated, TypeOK, InOrder, RankOK, AdmittedSpecs, Available,
           NEW a, Deletable(a), NEW b \in Ready, b # a
    PROVE  \E j \in Ready \cap copies : j # a
<1>1. a \in Ready /\ ~Migrating(a) /\ view = ViewNow
  BY DEF Deletable, Replicated
<1>2. view[a] = Ready
  BY <1>1, PendingOrReady DEF Ready, InOrder
<1>3. CASE a \notin copies
  BY <1>3 DEF Available
<1>4. CASE a \in copies
  <2>1. Missing(a) = Owners(Ready) \ copies
    BY <1>1, <1>2, <1>4 DEF Missing
  <2>2. Owners(Ready) \subseteq copies
    BY <1>1, <1>4, <2>1 DEF Migrating
  <2>3. Ready \in SUBSET Index
    BY DEF Ready
  <2>4. \E j \in Owners(Ready) : j # a
    BY <1>1, <2>3, TwoCopies, TwoOwners
  <2>5. Owners(Ready) \subseteq Ready
    BY DEF Owners
  <2>6. QED
    BY <2>2, <2>4, <2>5
<1>5. QED
  BY <1>3, <1>4

\* The spec stays one that the webhook admits.
LEMMA NextAdmitted ==
    Replicated /\ AdmittedSpecs /\ [Next]_vars => AdmittedSpecs'
<1> SUFFICES ASSUME Replicated, AdmittedSpecs, [Next]_vars PROVE AdmittedSpecs'
  OBVIOUS
<1> USE DEF local, AdmittedSpecs
<1>1. \A n : Admitted(n)' <=> Admitted(n)
  BY DEF Admitted, EffectiveFactor
<1>2. ASSUME NEW s \in Spec1, EditSpec(s) PROVE AdmittedSpecs'
  BY <1>1, <1>2 DEF EditSpec, Replicated
<1>3. CASE UNCHANGED <<spec, cl>> /\ pc # "idle"
  BY <1>1, <1>3
<1>4. CASE UNCHANGED <<spec, local>>
  BY <1>1, <1>4
<1>5. CASE spec' = spec /\ cl' = spec
  BY <1>1, <1>5
<1>6. QED
  BY <1>2, <1>3, <1>4, <1>5 DEF Next, Reconcile, vars, Return, NextPod, Begin, EnsureService,
     EnsureConfigMap, EnsureNetworkPolicy, ScaleDown, ScaledDown, PodUnreachable,
     DeleteFailedPod, RestartPod, KeepPod, DeleteIsolatedPod, CreatePod, PodIsReady, PodIsLost,
     WaitTimesOut, UpdateStatus, Regroup, Heal, Abort, Migrate, PodBecomesReady, PodFails,
     Partition, ObjectVanishes

\* The order of the nodes does not change.
LEMMA NextRank == RankOK /\ [Next]_vars => RankOK'
<1> SUFFICES ASSUME RankOK, [Next]_vars PROVE rank' = rank
  BY DEF RankOK
<1> QED
  BY DEF Next, Reconcile, vars, meshVars, Begin, EnsureService, EnsureConfigMap,
     EnsureNetworkPolicy, ScaleDown, ScaledDown, PodUnreachable, DeleteFailedPod, RestartPod,
     KeepPod, DeleteIsolatedPod, CreatePod, PodIsReady, PodIsLost, WaitTimesOut, UpdateStatus,
     Regroup, Heal, Abort, EditSpec, Migrate, PodBecomesReady, PodFails, Partition, ObjectVanishes

\* Pods are left behind, and the config map is lost, by faults only.
LEMMA NextFaults == TypeOK /\ FaultsCounted /\ [Next]_vars => FaultsCounted'
<1> SUFFICES ASSUME TypeOK, FaultsCounted, [Next]_vars PROVE FaultsCounted'
  OBVIOUS
<1> USE DEF objects, local, bounds
<1>0. /\ faults \in Nat /\ pod \in [Index -> Pod] /\ \A i \in Index : pod[i] \in Pod
      /\ cl.cfg \in Configs
  BY ScalingTypes DEF TypeOK
\* Nothing is left behind that was not, and the map is not lost.
<1>1. ASSUME faults' = faults, MapLost' => MapLost, \A i \in Index : Left(i)' => Left(i)
      PROVE  FaultsCounted'
  BY <1>0, <1>1 DEF FaultsCounted
\* The reconcile ends.
<1>2. ASSUME pc' = "idle", faults' = faults,
             \A i \in Index : pod'[i].st = "pending" => Left(i) \/ MapLost
      PROVE  FaultsCounted'
  BY <1>0, <1>2 DEF FaultsCounted, Left, MapLost
<1>3. ASSUME UNCHANGED <<pod, pc, idx, map, faults>> PROVE FaultsCounted'
  BY <1>1, <1>3 DEF Left, MapLost
<1>4. CASE UNCHANGED vars \/ Regroup \/ Heal
  BY <1>3, <1>4 DEF vars, Regroup, Heal
<1>5. CASE Begin \/ EnsureService
  BY <1>1, <1>5 DEF Begin, EnsureService, Left, MapLost
<1>6. CASE EnsureConfigMap
  <2>1. map' # "none"
    BY <1>0, <1>6, ScalingAssumption DEF EnsureConfigMap
  <2>2. QED
    BY <1>1, <1>6, <2>1 DEF EnsureConfigMap, Left, MapLost
<1>7. CASE EnsureNetworkPolicy
  BY <1>1, <1>7 DEF EnsureNetworkPolicy, Left, MapLost
<1>8. ASSUME NEW i, Delete(i) PROVE \A j \in Index : pod'[j].st = "pending" => pod[j].st = "pending"
  BY <1>8, DeleteEffects, PodTypes
<1>9. CASE ScaleDown
  BY <1>1, <1>8, <1>9 DEF ScaleDown, Left, MapLost
<1>10. CASE ScaledDown
  BY <1>1, <1>10 DEF ScaledDown, Left, MapLost
<1>11. CASE DeleteFailedPod \/ RestartPod
  BY <1>1, <1>8, <1>11 DEF DeleteFailedPod, RestartPod, Left, MapLost
<1>12. CASE KeepPod
  BY <1>1, <1>12 DEF KeepPod, NextPod, Left, MapLost
<1>13. CASE PodIsReady
  <2>1. idx \in Ready /\ pod' = pod /\ pc = "wait" /\ pc' = "pods" /\ map' = map /\ faults' = faults
    BY <1>13 DEF PodIsReady, NextPod
  <2>2. \A i \in Index : Left(i)' => Left(i)
    BY <2>1 DEF Left, Ready
  <2>3. QED
    BY <1>1, <2>1, <2>2 DEF MapLost
<1>14. CASE CreatePod
  <2>1. /\ pc = "pods" /\ pc' = "wait" /\ idx' = idx /\ map' = map /\ faults' = faults
        /\ \A j \in Index : j # idx => pod'[j] = pod[j]
    BY <1>0, <1>14 DEF CreatePod
  <2>2. \A i \in Index : Left(i)' => Left(i)
    BY <2>1 DEF Left
  <2>3. QED
    BY <1>1, <2>1, <2>2 DEF MapLost
<1>15. CASE PodUnreachable \/ UpdateStatus
  BY <1>2, <1>15 DEF PodUnreachable, UpdateStatus, Return, Left
<1>16. CASE DeleteIsolatedPod
  BY <1>2, <1>8, <1>16 DEF DeleteIsolatedPod, Return, Left
<1>17. CASE PodIsLost
  <2>1. pc' = "idle" /\ faults' = faults /\ Delete(idx) /\ pc = "wait"
    BY <1>17 DEF PodIsLost, Return
  <2>2. idx \in Index => pod'[idx].st # "pending"
    BY <2>1, DeleteEffects, PodTypes
  <2>3. QED
    BY <1>2, <1>8, <2>1, <2>2 DEF Left
<1>18. CASE WaitTimesOut
  BY <1>2, <1>18 DEF WaitTimesOut, Return, MapLost
<1>19. CASE Reconcile
  BY <1>5, <1>6, <1>7, <1>9, <1>10, <1>11, <1>12, <1>13, <1>14, <1>15, <1>16, <1>17, <1>18, <1>19
     DEF Reconcile
<1>20. CASE \E s \in Spec1 : EditSpec(s)
  BY <1>3, <1>20 DEF EditSpec
<1>21. CASE \E i \in Index : Migrate(i)
  BY <1>3, <1>21 DEF Migrate
<1>22. ASSUME NEW i \in Index, PodBecomesReady(i) PROVE FaultsCounted'
  <2>1. \A j \in Index : pod'[j].st = "pending" => pod[j].st = "pending"
    BY <1>0, <1>22 DEF PodBecomesReady
  <2>2. QED
    BY <1>1, <1>22, <2>1 DEF PodBecomesReady, Left, MapLost
<1>23. ASSUME NEW i \in Index, PodFails(i) PROVE FaultsCounted'
  <2>1. \A j \in Index : pod'[j].st = "pending" => pod[j].st = "pending"
    <3>1. CASE Delete(i)
      BY <1>8, <3>1
    <3>2. CASE pod' = [pod EXCEPT ![i].st = "failed"]
      BY <1>0, <3>2
    <3>3. QED
      BY <1>23, <3>1, <3>2 DEF PodFails
  <2>2. QED
    BY <1>1, <1>23, <2>1 DEF PodFails, Loss, Left, MapLost
<1>24. CASE \E is \in SUBSET (Index \ {0}) : Partition(is)
  BY <1>3, <1>24 DEF Partition, Loss
<1>25. ASSUME NEW o, ObjectVanishes(o) PROVE FaultsCounted'
  <2>1. faults' = faults + 1 /\ UNCHANGED <<pod, pc, idx>>
    BY <1>25 DEF ObjectVanishes, Fault
  <2>2. \A i \in Index : Left(i)' <=> Left(i)
    BY <2>1 DEF Left
  <2>3. QED
    BY <1>0, <2>1, <2>2 DEF FaultsCounted
<1>26. CASE Abort
  <2>1. faults' = faults + 1 /\ pc' = "idle"
    BY <1>26 DEF Abort, Fault, Return
  <2>2. ~MapLost'
    BY <2>1 DEF MapLost
  <2>3. QED
    BY <1>0, <2>1, <2>2 DEF FaultsCounted
<1>27. QED
  BY <1>4, <1>19, <1>20, <1>21, <1>22, <1>23, <1>24, <1>25, <1>26 DEF Next

\* The loop of ensurePods restarts pod 1 when pod 0 has been restarted, and
\* scaling down stops above them.
LEMMA NextFirst ==
    Replicated /\ DataInv /\ [Next]_vars => FirstIsNotAlone'
<1> SUFFICES ASSUME Replicated, DataInv, [Next]_vars, losses' = 0,
                    pod'[0].st # "absent", pod'[0].hash # spec'.cfg
             PROVE  pod'[0].st = "ready" /\ pod'[1].st = "ready"
  BY DEF FirstIsNotAlone
<1> USE DEF objects, local
<1>1. TypeOK /\ InOrder /\ losses = 0
  BY LossesCounted DEF DataInv, ScalingInv
<1>2. 0 \in Index /\ 1 \in Index /\ spec.nodes >= 2 /\ (pc # "idle" => cl.nodes >= 2)
  BY TwoCopies DEF DataInv
<1>3. pod \in [Index -> Pod] /\ idx \in Int /\ \A i \in Index : pod[i] \in Pod
  BY <1>1, ScalingTypes DEF TypeOK
<1>4. CASE pod'[0] = pod[0] /\ pod'[1] = pod[1] /\ spec' = spec
  BY <1>1, <1>4 DEF DataInv, FirstIsNotAlone
<1>5. ASSUME NEW s \in Spec1, EditSpec(s) PROVE pod'[0].st = "ready" /\ pod'[1].st = "ready"
  <2>1. Ready = 0 .. spec.nodes - 1 /\ pod' = pod
    BY <1>5 DEF EditSpec, Replicated, AsSpecified
  <2>2. 0 \in Ready /\ 1 \in Ready
    BY <1>1, <1>2, <2>1, ScalingTypes
  <2>3. QED
    BY <2>1, <2>2 DEF Ready
<1>6. CASE CreatePod
  <2>1. cl = spec /\ spec' = spec /\ idx \notin Existing
    BY <1>1, <1>6, StaleTouchesNoPod DEF CreatePod
  <2>2. \A j \in Index : j # idx => pod'[j] = pod[j]
    BY <1>3, <1>6 DEF CreatePod
  <2>3. idx # 0
    <3>1. idx = 0 => pod'[0].hash = cl.cfg
      BY <1>2, <1>3, <1>6 DEF CreatePod
    <3>2. QED
      BY <2>1, <3>1
  <2>4. pod'[0] = pod[0]
    BY <1>2, <2>2, <2>3
  <2>5. pod[1].st = "ready"
    BY <1>1, <2>1, <2>4 DEF DataInv, FirstIsNotAlone
  <2>6. idx # 1
    BY <1>2, <2>1, <2>5 DEF Existing
  <2>7. QED
    BY <1>2, <1>4, <2>1, <2>2, <2>4, <2>6
<1>7. ASSUME NEW i \in Index, PodBecomesReady(i)
      PROVE  pod'[0].st = "ready" /\ pod'[1].st = "ready"
  <2>1. /\ spec' = spec /\ pod[i].st = "pending"
        /\ pod'[i] = [pod[i] EXCEPT !.st = "ready", !.cfg = map]
        /\ \A j \in Index : j # i => pod'[j] = pod[j]
    BY <1>3, <1>7 DEF PodBecomesReady
  <2>2. pod'[i].st = "ready" /\ pod'[i].hash = pod[i].hash
    <3>1. pod[i] \in [st : {"pending", "ready", "failed"}, hash : Configs,
                      cfg : Configs \cup {"none"}]
      BY <1>3, <2>1 DEF Pod, Absent
    <3>2. QED
      BY <2>1, <3>1
  <2>3. pod[0].st # "absent" /\ pod[0].hash # spec.cfg
    BY <1>2, <2>1, <2>2
  <2>4. pod[0].st = "ready" /\ pod[1].st = "ready"
    BY <1>1, <2>3 DEF DataInv, FirstIsNotAlone
  <2>5. QED
    BY <1>2, <2>1, <2>2, <2>4
<1>8. ASSUME NEW i, Delete(i), spec' = spec, i # 1
      PROVE  pod'[0].st = "ready" /\ pod'[1].st = "ready"
  <2>1. i # 0
    BY <1>1, <1>2, <1>8, DeleteEffects, PodTypes
  <2>2. QED
    BY <1>1, <1>2, <1>4, <1>8, <2>1, DeleteEffects
<1>9. CASE ScaleDown
  <2>1. Delete(idx) /\ spec' = spec /\ idx >= cl.nodes /\ pc # "idle"
    BY <1>9 DEF ScaleDown
  <2>2. idx # 1
    BY <1>1, <1>2, <2>1, ScalingTypes
  <2>3. QED
    BY <1>8, <2>1, <2>2
<1>10. CASE RestartPod \/ DeleteIsolatedPod
  <2>1. pc = "pods" /\ Delete(idx) /\ spec' = spec
    BY <1>10 DEF RestartPod, DeleteIsolatedPod
  <2>2. cl = spec
    BY <1>1, <1>10, <2>1, StaleTouchesNoPod
  <2>3. CASE idx = 1
    <3>1. pod[0].hash = spec.cfg
      BY <1>1, <1>2, <2>1, <2>2, <2>3 DEF InOrder, PodsInOrder
    <3>2. pod'[0] = pod[0]
      BY <1>1, <1>2, <2>1, <2>3, DeleteEffects
    <3>3. QED
      BY <2>1, <3>1, <3>2
  <2>4. QED
    BY <1>8, <2>1, <2>3
<1>11. CASE UNCHANGED <<pod, spec>>
  BY <1>4, <1>11
<1>12. ~DeleteFailedPod /\ ~PodIsLost /\ \A i \in Index : ~PodFails(i)
  BY <1>1, NothingLost, LossesCounted
<1>13. CASE Reconcile
  BY <1>6, <1>9, <1>10, <1>11, <1>12, <1>13
     DEF Reconcile, Begin, EnsureService, EnsureConfigMap, EnsureNetworkPolicy, ScaledDown,
         PodUnreachable, KeepPod, PodIsReady, WaitTimesOut, UpdateStatus
<1>14. QED
  BY <1>5, <1>7, <1>11, <1>12, <1>13
     DEF Next, vars, Regroup, Heal, Abort, Migrate, Partition, ObjectVanishes

\* The invariant is inductive.
LEMMA NextData == Replicated /\ DataInv /\ [Next]_vars => DataInv'
BY NextType, NextScaling, NextRank, NextAdmitted, NextFirst, NextFaults DEF DataInv, Replicated

\* The initial state.
LEMMA InitData == Init => DataInv
<1> SUFFICES ASSUME Init PROVE DataInv
  OBVIOUS
<1>1. TypeOK /\ ScalingInv
  BY InitType, InitScaling
<1>2. 0 \in Index
  BY ScalingAssumption DEF Index
<1>3. \A i \in Index : pod[i].st = "absent"
  BY PodTypes DEF Init
<1>4. RankOK
  BY DEF Init, RankOK
<1>5. AdmittedSpecs
  BY DEF Init, AdmittedSpecs
<1>6. FirstIsNotAlone
  BY <1>2, <1>3 DEF FirstIsNotAlone
<1>7. FaultsCounted
  BY <1>3 DEF Init, FaultsCounted, Left, MapLost
<1>8. QED
  BY <1>1, <1>4, <1>5, <1>6, <1>7 DEF DataInv

\* ensureClusterSize deletes no pod: one that is pending will start.
LEMMA NoPodIsIsolated ==
    ASSUME Replicated, TypeOK, InOrder, FaultsCounted, faults <= 1
    PROVE  ~DeleteIsolatedPod
<1> SUFFICES ASSUME DeleteIsolatedPod PROVE FALSE
  OBVIOUS
<1>1. PICK j \in Existing : pod[j].st = "pending"
  BY SmallHasPending DEF InOrder
<1>2. pc = "pods" /\ map = "none"
  BY <1>1 DEF DeleteIsolatedPod, Replicated
<1>3. Left(j) /\ MapLost /\ j \in Index
  BY <1>1, <1>2 DEF Left, MapLost, Existing
<1>4. faults >= 2 /\ faults \in Nat
  BY <1>3, ScalingTypes DEF FaultsCounted
<1>5. QED
  BY <1>4

\* Scaling and rolling restarts never make the data unavailable, for users who
\* wait and whose changes the webhook admits: safeDeletePodWithIndex waits for
\* migrations, and the loop of ensurePods for each pod, so that the pod that is
\* deleted is never the only one that is ready and has a copy.
THEOREM DataStays == Replicated /\ Spec => DataStaysAvailable
<1>1. Replicated /\ DataInv /\ [Next]_vars
      => [Available /\ losses' = 0 /\ faults' <= 1 => Available']_vars
  <2> SUFFICES ASSUME Replicated, DataInv, Next, Available, losses' = 0, faults' <= 1
               PROVE  Available'
    OBVIOUS
  <2> USE DEF objects, meshVars, bounds
  <2>1. TypeOK /\ InOrder /\ losses = 0
    BY LossesCounted DEF DataInv, ScalingInv
  <2>2. cl.nodes \in 1 .. MaxNodes /\ idx \in Int /\ 0 \in Index /\ 1 \in Index
    BY <2>1, ScalingTypes, TwoCopies DEF DataInv
  \* A pod that may be deleted goes, and another one is ready.
  <2>3. ASSUME NEW a, NEW b \in Ready, b # a, Deletable(a), Delete(a),
               copies \ {a} \subseteq copies'
        PROVE  Available'
    <3>1. \E j \in Ready \cap copies : j # a
      BY <2>1, <2>3, AnotherCopy DEF DataInv
    <3>2. Ready' = Ready \ {a}
      BY <2>1, <2>3, DeleteEffects
    <3>3. QED
      BY <2>3, <3>1, <3>2 DEF Available
  <2>4. CASE Ready \subseteq Ready' /\ copies' = copies
    BY <2>4 DEF Available
  <2>5. CASE ScaleDown
    <3>1. pc = "scale" /\ idx >= cl.nodes /\ Delete(idx) /\ copies' = copies \ ({idx} \cap Existing)
      BY <2>5 DEF ScaleDown
    <3>2. CASE pod' = pod /\ idx \notin Existing
      BY <2>4, <3>1, <3>2 DEF Ready
    <3>3. CASE idx \in Existing
      <4>1. Deletable(idx)
        BY <2>5, <3>3 DEF ScaleDown
      <4>2. pod' # pod
        BY <2>1, <3>1, <3>3, DeleteEffects, PodTypes DEF Existing
      <4>3. cl = spec
        BY <2>1, <2>5, <3>1, <4>2, StaleTouchesNoPod
      <4>4. ~(Existing \subseteq 0 .. spec.nodes - 1)
        BY <2>2, <3>1, <3>3, <4>3
      <4>5. PICK k \in 1 .. MaxNodes : Existing = Ready /\ Existing = 0 .. k - 1
        BY <2>1, <4>4 DEF InOrder, NoGaps
      <4>6. 0 \in Ready /\ 0 # idx
        BY <2>2, <3>1, <4>5
      <4>7. QED
        BY <2>3, <3>1, <4>1, <4>6
    <3>4. QED
      BY <2>1, <3>1, <3>2, <3>3, DeleteEffects
  <2>6. CASE RestartPod
    <3>1. /\ pc = "pods" /\ idx \in Ready /\ pod[idx].hash # cl.cfg
          /\ Deletable(idx) /\ Delete(idx) /\ copies' = copies
      BY <2>6 DEF RestartPod
    <3>2. cl = spec
      BY <2>1, <2>6, <3>1, StaleTouchesNoPod
    <3>3. CASE idx = 0
      <4>1. pod[0].st # "absent" /\ pod[0].hash # spec.cfg
        BY <3>1, <3>2, <3>3 DEF Ready
      <4>2. 1 \in Ready /\ 1 # idx
        BY <2>1, <2>2, <3>3, <4>1 DEF DataInv, FirstIsNotAlone, Ready
      <4>3. QED
        BY <2>3, <3>1, <4>2
    <3>4. CASE idx # 0
      <4>1. 0 < idx
        BY <2>1, <2>2, <3>1, <3>4 DEF InOrder, PodsInOrder
      <4>2. 0 \in Ready
        BY <2>1, <2>2, <3>1, <4>1 DEF InOrder, PodsInOrder, Ready
      <4>3. QED
        BY <2>3, <3>1, <3>4, <4>2
    <3>5. QED
      BY <3>3, <3>4
  <2>7. ~DeleteIsolatedPod
    <3>1. DeleteIsolatedPod => faults' = faults
      BY DEF DeleteIsolatedPod
    <3>2. QED
      BY <2>1, <3>1, NoPodIsIsolated DEF DataInv
  <2>8. ASSUME NEW i \in Index, Migrate(i) PROVE Available'
    <3>1. i \in Ready /\ pod' = pod
      BY <2>8 DEF Migrate
    <3>2. i \in copies'
      <4>1. i \in Missing(i)
        BY <2>8 DEF Migrate
      <4>2. i \in Owners(view[i])
        BY <4>1 DEF Missing
      <4>3. QED
        BY <2>8, <4>2 DEF Migrate
    <3>3. QED
      BY <3>1, <3>2 DEF Available, Ready
  <2>9. CASE UNCHANGED <<pod, copies>>
    BY <2>4, <2>9 DEF Ready
  <2>10. CASE CreatePod
    <3>1. idx \notin Ready /\ copies' = copies
      BY <2>10 DEF CreatePod, Ready, Existing
    <3>2. \A j \in Index : j # idx => pod'[j] = pod[j]
      BY <2>1, <2>10 DEF CreatePod, TypeOK
    <3>3. QED
      BY <2>4, <3>1, <3>2 DEF Ready
  <2>11. ASSUME NEW i \in Index, PodBecomesReady(i) PROVE Available'
    <3>1. i \notin Ready /\ copies' = copies
      BY <2>11 DEF PodBecomesReady, Ready
    <3>2. \A j \in Index : j # i => pod'[j] = pod[j]
      BY <2>1, <2>11 DEF PodBecomesReady, TypeOK
    <3>3. QED
      BY <2>4, <3>1, <3>2 DEF Ready
  <2>12. /\ ~DeleteFailedPod /\ ~PodIsLost /\ \A i \in Index : ~PodFails(i)
    BY <2>1, NothingLost, LossesCounted
  <2>13. CASE Reconcile
    BY <2>5, <2>6, <2>7, <2>9, <2>10, <2>12, <2>13
       DEF Reconcile, Begin, EnsureService, EnsureConfigMap, EnsureNetworkPolicy, ScaledDown,
           PodUnreachable, KeepPod, PodIsReady, WaitTimesOut, UpdateStatus
  <2>14. QED
    BY <2>8, <2>9, <2>11, <2>12, <2>13
       DEF Next, Regroup, Heal, Abort, EditSpec, Partition, ObjectVanishes
<1>2. Replicated => Replicated'
  BY DEF Replicated
<1>3. Replicated /\ Spec => []DataInv
  BY <1>2, InitData, NextData, PTL DEF Spec
<1>4. QED
  BY <1>1, <1>2, <1>3, PTL DEF Spec, DataStaysAvailable

=============================================================================
