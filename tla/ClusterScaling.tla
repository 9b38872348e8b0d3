--------------------------- MODULE ClusterScaling ---------------------------
(***************************************************************************)
(* The topology and the configuration of one Aerospike cluster: how        *)
(* MaybeReconcile (pkg/reconciler) brings the service, the config map, the *)
(* network policy and the pods in line with .spec.nodeCount and the rest   *)
(* of the spec, and what becomes of the data meanwhile.                    *)
(*                                                                         *)
(* The version does not change: upgrades are in ClusterReconciler.  The    *)
(* data is one record of the namespace, of which Aerospike keeps as many   *)
(* copies as the replication factor asks for.                              *)
(***************************************************************************)
EXTENDS Integers, FiniteSetsExt

CONSTANTS
    MaxNodes,           \* the largest .spec.nodeCount, 8 in the code
    ReplicationFactor,  \* of the namespace; 0: not set
    Configs,            \* what an aerospike.conf may say
    Bypass,             \* users scale with kubectl, without the webhook
    Calm,               \* users wait until the cluster is as they asked for,
                        \* and no pod goes while it is scaled down
    Prompt,             \* Aerospike notices that a node is gone before the
                        \* operator asks for migrations, and starts within
                        \* the minute that ensureClusterSize waits
    MaxEdits,           \* bound: changes of the spec
    MaxFaults,          \* bound: crashes, failed calls, deleted objects
    MaxLosses           \* bound: pods that fail or go, partitions

ASSUME ScalingAssumption ==
    /\ MaxNodes \in Nat \ {0}
    /\ ReplicationFactor \in 0 .. MaxNodes
    /\ "none" \notin Configs
    /\ Bypass \in BOOLEAN /\ Calm \in BOOLEAN /\ Prompt \in BOOLEAN
    /\ MaxEdits \in Nat /\ MaxFaults \in Nat /\ MaxLosses \in Nat

VARIABLES
    spec,     \* .spec: node count and configuration
    status,   \* .status; node count 0 before the first reconcile has ended
    map,      \* the configuration in the config map, "none" if there is none
    aux,      \* the service and the network policy that exist
    pod,      \* pod[i]: the pod with index i
    island,   \* pods that are cut off from the others
    view,     \* view[i]: the nodes of its cluster, as node i knows them
    copies,   \* the pods whose volume has a copy of the record
    rank,     \* the order in which nodes are chosen to hold the record
    pc,       \* where MaybeReconcile is
    cl,       \* its copy of the spec
    idx,      \* its pod index
    edits, faults, losses

objects == <<map, aux>>
meshVars == <<island, view, copies, rank>>
local == <<pc, cl, idx>>
bounds == <<edits, faults, losses>>
vars == <<spec, status, objects, pod, meshVars, local, bounds>>

Index == 0 .. MaxNodes - 1
Spec1 == [nodes : 1 .. MaxNodes, cfg : Configs]

\* hash: the annotation; cfg: what asinit has read from the config map.
Absent == [st |-> "absent", hash |-> "none", cfg |-> "none"]
Pod == [st : {"pending", "ready", "failed"}, hash : Configs,
        cfg : Configs \cup {"none"}] \cup {Absent}

Existing == {i \in Index : pod[i].st # "absent"}
Ready == {i \in Index : pod[i].st = "ready"}

TypeOK ==
    /\ spec \in Spec1
    /\ status \in Spec1 \cup {[nodes |-> 0, cfg |-> "none"]}
    /\ map \in Configs \cup {"none"}
    /\ aux \subseteq {"service", "policy"}
    /\ pod \in [Index -> Pod]
    /\ island \subseteq Index
    /\ view \in [Index -> SUBSET Index]
    /\ copies \subseteq Index
    /\ pc \in {"idle", "service", "map", "policy", "scale", "pods", "wait"}
    /\ cl \in Spec1
    /\ idx \in -1 .. MaxNodes
    /\ edits \in 0 .. MaxEdits /\ faults \in 0 .. MaxFaults /\ losses \in 0 .. MaxLosses

-----------------------------------------------------------------------------
(* Admission and validation.                                               *)

\* validateAerospikeCluster takes a missing replication factor for Aerospike's
\* default; validateReplicationFactor, in the reconciler, does not look at it.
EffectiveFactor == IF ReplicationFactor = 0 THEN 2 ELSE ReplicationFactor
Admitted(n) == EffectiveFactor <= n
Valid(n) == ReplicationFactor <= n

Init ==
    /\ spec \in {s \in Spec1 : Admitted(s.nodes)}
    /\ spec.cfg = CHOOSE c \in Configs : TRUE    \* any one will do
    /\ status = [nodes |-> 0, cfg |-> "none"]
    /\ map = "none"
    /\ aux = {}
    /\ pod = [i \in Index |-> Absent]
    /\ island = {}
    /\ view = [i \in Index |-> {}]
    /\ copies = {0}
    /\ rank \in {f \in [Index -> Index] : \A i, j \in Index : f[i] = f[j] => i = j}
    /\ pc = "idle" /\ cl = spec /\ idx = 0
    /\ edits = 0 /\ faults = 0 /\ losses = 0

\* The pods are what the spec asks for, and run the configuration it describes.
AsSpecified(s) ==
    /\ Existing = 0 .. s.nodes - 1
    /\ \A i \in Existing : pod[i].cfg = s.cfg

\* A user changes the node count or the configuration.
EditSpec(s) ==
    /\ edits < MaxEdits /\ s # spec
    /\ Admitted(s.nodes) \/ Bypass
    /\ Calm => AsSpecified(spec) /\ Existing = Ready /\ status = spec
    /\ spec' = s
    /\ edits' = edits + 1
    /\ UNCHANGED <<status, objects, pod, meshVars, local, faults, losses>>

-----------------------------------------------------------------------------
(* Aerospike.                                                              *)

\* The nodes that i can reach, itself included.
Reachable(i) == IF i \in island THEN Ready \cap island ELSE Ready \ island
ViewNow == [i \in Index |-> IF i \in Ready THEN Reachable(i) ELSE {}]

\* Heartbeats stop or start: the nodes agree on their clusters anew.
Regroup ==
    /\ view # ViewNow
    /\ view' = ViewNow
    /\ UNCHANGED <<spec, status, objects, pod, island, copies, rank, local, bounds>>

\* The nodes of a cluster that are to hold the record.
Owners(nodes) ==
    {i \in nodes : Cardinality({j \in nodes : rank[j] < rank[i]}) < EffectiveFactor}

\* The owners in the cluster of i that have no copy yet, while others do.
Missing(i) == IF view[i] \cap copies = {} THEN {} ELSE Owners(view[i]) \ copies

\* A copy arrives; those of other nodes go with the last one.
Migrate(i) ==
    /\ i \in Ready /\ i \in Missing(i)
    /\ LET kept == copies \cup {i}
       IN  copies' = IF Missing(i) = {i} THEN kept \ (view[i] \ Owners(view[i])) ELSE kept
    /\ UNCHANGED <<spec, status, objects, pod, island, view, rank, local, bounds>>

\* podHasMigrationsInProgress: the node receives or sends the record.
Migrating(i) == Missing(i) # {} /\ i \in Missing(i) \cup copies

-----------------------------------------------------------------------------
(* MaybeReconcile, up to the pods.                                         *)

Return == pc' = "idle" /\ idx' = 0 /\ cl' = spec

\* A spec that is not valid is left alone.
Begin ==
    /\ pc = "idle" /\ Valid(spec.nodes)
    /\ pc' = "service" /\ cl' = spec
    /\ UNCHANGED <<spec, status, objects, pod, meshVars, idx, bounds>>

EnsureService ==
    /\ pc = "service"
    /\ aux' = aux \cup {"service"}
    /\ pc' = "map"
    /\ UNCHANGED <<spec, status, map, pod, meshVars, cl, idx, bounds>>

\* The config map is created, or replaced when its data, its annotation or the
\* spec differ.
EnsureConfigMap ==
    /\ pc = "map"
    /\ map' = cl.cfg
    /\ pc' = "policy"
    /\ UNCHANGED <<spec, status, aux, pod, meshVars, cl, idx, bounds>>

\* Variant: the last pod is forgotten.
EnsureNetworkPolicyOffByOne ==
    /\ pc = "policy"
    /\ aux' = aux \cup {"policy"}
    /\ pc' = "scale" /\ idx' = Cardinality(Existing) - 2
    /\ UNCHANGED <<spec, status, map, pod, meshVars, cl, bounds>>

\* ... and ensurePods begins: the first index to delete comes from the number
\* of the pods.
EnsureNetworkPolicy ==
    /\ pc = "policy"
    /\ aux' = aux \cup {"policy"}
    /\ pc' = "scale" /\ idx' = Cardinality(Existing) - 1
    /\ UNCHANGED <<spec, status, map, pod, meshVars, cl, bounds>>

-----------------------------------------------------------------------------
(* safeDeletePodWithIndex: the pod must answer, and have no migrations.    *)

Delete(i) == pod' = [pod EXCEPT ![i] = Absent]

\* Variant: migrations are not waited for.
DeletableAtOnce(i) == i \in Ready /\ (Prompt => view = ViewNow)

Deletable(i) == i \in Ready /\ ~Migrating(i) /\ (Prompt => view = ViewNow)

\* Variant: the loop does not stop at the desired size.
ScaleDownUnbounded ==
    /\ pc = "scale"
    /\ idx \in Existing => Deletable(idx)
    /\ Delete(idx)
    /\ copies' = copies \ ({idx} \cap Existing)
    /\ idx' = idx - 1
    /\ UNCHANGED <<spec, status, objects, island, view, rank, pc, cl, bounds>>

\* The volume of a pod that is not wanted any more is mounted by no other.
ScaleDown ==
    /\ pc = "scale" /\ idx >= cl.nodes
    /\ idx \in Existing => Deletable(idx)
    /\ Delete(idx)
    /\ copies' = copies \ ({idx} \cap Existing)
    /\ idx' = idx - 1
    /\ UNCHANGED <<spec, status, objects, island, view, rank, pc, cl, bounds>>

ScaledDown ==
    /\ pc = "scale" /\ idx < cl.nodes
    /\ pc' = "pods" /\ idx' = 0
    /\ UNCHANGED <<spec, status, objects, pod, meshVars, cl, bounds>>

\* The pod to delete, to restart or to ask for the size of its cluster does not
\* answer: the error ends the reconcile.
PodUnreachable ==
    /\ \/ pc = "scale" /\ idx >= cl.nodes /\ pod[idx].st \in {"pending", "failed"}
       \/ pc = "pods" /\ idx < cl.nodes /\ pod[idx].st = "pending"
    /\ Return
    /\ UNCHANGED <<spec, status, objects, pod, meshVars, bounds>>

-----------------------------------------------------------------------------
(* The loop of ensurePods over the wanted indices.                         *)

NextPod == pc' = "pods" /\ idx' = idx + 1 /\ UNCHANGED cl

\* deletePod, without a look at migrations: the pod is in a failure state.
DeleteFailedPod ==
    /\ pc = "pods" /\ idx < cl.nodes /\ pod[idx].st = "failed"
    /\ Delete(idx)
    /\ UNCHANGED <<spec, status, objects, meshVars, local, bounds>>

\* The pod's annotation tells another configuration: safeRestartPodWithIndex.
RestartPod ==
    /\ pc = "pods" /\ idx < cl.nodes /\ idx \in Ready
    /\ pod[idx].hash # cl.cfg
    /\ Deletable(idx)
    /\ Delete(idx)
    /\ UNCHANGED <<spec, status, objects, meshVars, local, bounds>>

\* listClusterRunningPods and GetClusterSize.
Small(i) ==
    Cardinality(view[i]) < Cardinality({j \in Existing : pod[j].st # "failed"})

KeepPod ==
    /\ pc = "pods" /\ idx < cl.nodes /\ idx \in Ready
    /\ pod[idx].hash = cl.cfg /\ ~Small(idx)
    /\ NextPod
    /\ UNCHANGED <<spec, status, objects, pod, meshVars, bounds>>

\* ensureClusterSize: the cluster has been too small for a minute, in which the
\* pods that can start have started.
DeleteIsolatedPod ==
    /\ pc = "pods" /\ idx < cl.nodes /\ idx \in Ready
    /\ pod[idx].hash = cl.cfg /\ view = ViewNow /\ Small(idx)
    /\ Prompt => \A j \in Existing : pod[j].st = "pending" => map = "none"
    /\ Deletable(idx)
    /\ Delete(idx)
    /\ Return
    /\ UNCHANGED <<spec, status, objects, meshVars, bounds>>

\* createPodWithIndex, up to the creation of the pod: with the annotation of
\* the config map as it was ensured.
CreatePod ==
    /\ pc = "pods" /\ idx < cl.nodes /\ idx \notin Existing
    /\ pod' = [pod EXCEPT ![idx] = [st |-> "pending", hash |-> cl.cfg, cfg |-> "none"]]
    /\ pc' = "wait"
    /\ UNCHANGED <<spec, status, objects, meshVars, cl, idx, bounds>>

\* Variant: the pod is not waited for.
PodIsReadyAtOnce ==
    /\ pc = "wait"
    /\ NextPod
    /\ UNCHANGED <<spec, status, objects, pod, meshVars, bounds>>

\* ... and its wait until the pod is ready.
PodIsReady ==
    /\ pc = "wait" /\ idx \in Ready
    /\ NextPod
    /\ UNCHANGED <<spec, status, objects, pod, meshVars, bounds>>

\* The pod fails, and is deleted, or is deleted by another: an error.
PodIsLost ==
    /\ pc = "wait" /\ pod[idx].st \in {"failed", "absent"}
    /\ Delete(idx)
    /\ Return
    /\ UNCHANGED <<spec, status, objects, meshVars, bounds>>

\* The wait times out on a pod that cannot start without its config map.
WaitTimesOut ==
    /\ pc = "wait" /\ pod[idx].st = "pending" /\ map = "none"
    /\ Return
    /\ UNCHANGED <<spec, status, objects, pod, meshVars, bounds>>

\* updateStatus copies the spec that has been reconciled.
UpdateStatus ==
    /\ pc = "pods" /\ idx = cl.nodes
    /\ status' = cl
    /\ Return
    /\ UNCHANGED <<spec, objects, pod, meshVars, bounds>>

-----------------------------------------------------------------------------
(* The kubelet, and faults.                                                *)

\* The config map is mounted, asinit writes aerospike.conf and Aerospike loads
\* its data.
PodBecomesReady(i) ==
    /\ pod[i].st = "pending" /\ map # "none"
    /\ pod' = [pod EXCEPT ![i].st = "ready", ![i].cfg = map]
    /\ UNCHANGED <<spec, status, objects, meshVars, local, bounds>>

Fault ==
    /\ faults < MaxFaults
    /\ faults' = faults + 1
    /\ UNCHANGED <<edits, losses>>

Loss ==
    /\ losses < MaxLosses
    /\ losses' = losses + 1
    /\ Calm => Existing \subseteq 0 .. spec.nodes - 1
    /\ UNCHANGED <<edits, faults>>

\* A container ends and is not restarted, or the pod is evicted or deleted.
PodFails(i) ==
    /\ Loss /\ i \in Existing
    /\ \/ pod[i].st # "failed" /\ pod' = [pod EXCEPT ![i].st = "failed"]
       \/ Delete(i)
    /\ UNCHANGED <<spec, status, objects, meshVars, local>>

\* The network is partitioned, and heals.
Partition(is) ==
    /\ Loss /\ island = {} /\ is # {}
    /\ island' = is
    /\ UNCHANGED <<spec, status, objects, pod, view, copies, rank, local>>

Heal ==
    /\ island # {} /\ island' = {}
    /\ UNCHANGED <<spec, status, objects, pod, view, copies, rank, local, bounds>>

\* The service, the policy or the config map is deleted.
ObjectVanishes(o) ==
    /\ Fault
    /\ \/ o \in aux /\ aux' = aux \ {o} /\ UNCHANGED map
       \/ o = "map" /\ map' = "none" /\ UNCHANGED aux
    /\ UNCHANGED <<spec, status, pod, meshVars, local>>

\* The operator crashes, or a call fails, or a wait for a pod times out.
Abort ==
    /\ Fault /\ pc # "idle"
    /\ Return
    /\ UNCHANGED <<spec, status, objects, pod, meshVars>>

-----------------------------------------------------------------------------
Reconcile ==
    \/ Begin \/ EnsureService \/ EnsureConfigMap \/ EnsureNetworkPolicy
    \/ ScaleDown \/ ScaledDown \/ PodUnreachable
    \/ DeleteFailedPod \/ RestartPod \/ KeepPod \/ DeleteIsolatedPod
    \/ CreatePod \/ PodIsReady \/ PodIsLost \/ WaitTimesOut
    \/ UpdateStatus

Next ==
    \/ Reconcile \/ Regroup \/ Heal \/ Abort
    \/ \E s \in Spec1 : EditSpec(s)
    \/ \E i \in Index : Migrate(i) \/ PodBecomesReady(i) \/ PodFails(i)
    \/ \E is \in SUBSET (Index \ {0}) : Partition(is)
    \/ \E o \in {"service", "policy", "map"} : ObjectVanishes(o)

Spec == Init /\ [][Next]_vars

\* The 30 s resync brings the cluster back to the work queue; Aerospike, the
\* kubelet and the network do their part.
FairSpec ==
    /\ Spec
    /\ WF_vars(Reconcile) /\ WF_vars(Regroup) /\ WF_vars(Heal)
    /\ \A i \in Index : WF_vars(Migrate(i)) /\ WF_vars(PodBecomesReady(i))

-----------------------------------------------------------------------------
Available == Ready \cap copies # {}

\* Scaling and rolling restarts never make the data unavailable, even when the
\* operator is interrupted: the pod that is deleted is never the last one with
\* a copy (safeDeletePodWithIndex waits for migrations).  It takes two faults
\* for ensureClusterSize to delete it: a pod that was left pending, and the
\* config map deleted before it starts.
DataStaysAvailable ==
    [][Available /\ losses' = 0 /\ faults' <= 1 => Available']_vars

\* The status is the spec only once the pods are: "the correctness of this is
\* ensured by the reconcile loop" (status.go), though the spec may change and
\* the operator may start over while it runs.
StatusIsEarned == [][losses = 0 /\ status' # status => AsSpecified(status')]_vars

\* After the last change and the last fault, the cluster comes to be what the
\* spec asks for, with every copy of the data: whatever ensurePods has deleted
\* and ensureClusterSize has given up on meanwhile.
Converges ==
    <>[](/\ AsSpecified(spec) /\ Existing = Ready /\ status = spec
         /\ aux = {"service", "policy"} /\ map = spec.cfg
         /\ Owners(Ready) \subseteq copies)

=============================================================================
