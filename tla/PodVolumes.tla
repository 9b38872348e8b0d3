----------------------------- MODULE PodVolumes -----------------------------
(***************************************************************************)
(* The persistent volume claims of one pod: how the reconciler chooses,    *)
(* marks and creates them when it creates and deletes the pod (deletePod,  *)
(* createPodWithIndex and pvc.go of pkg/reconciler), and how the garbage   *)
(* collector deletes those nobody uses (pkg/garbagecollector/pvcs.go).     *)
(*                                                                         *)
(* A cluster has one Aerospike namespace, so a pod has one claim.  Both    *)
(* sides read claims from an informer and share nothing but the            *)
(* last-unmounted-on annotation.                                           *)
(***************************************************************************)
EXTENDS Integers, FiniteSetsExt

CONSTANTS
    TTL,          \* persistentVolumeClaimTTL in clock ticks; 0: no expiration
    Recreates,    \* the upgrade from version 1 to 2 has To42XYStrategy
    Events,       \* what may happen, of AllEvents
    MaxClaims,    \* bound: claims ever created
    MaxRequests,  \* bound: changes users ask for
    MaxFaults     \* bound: failed calls, crashes, failed and lost pods

\* Users upgrade, scale and reconfigure the cluster; the pod fails or is
\* deleted by others; a call fails or the operator crashes; the clock ticks
\* while a claim is being mounted; the informer lags when it is read.
AllEvents ==
    {"upgrade", "scale", "restart", "fail", "vanish", "abort", "slow", "lag"}

ASSUME VolumesAssumption ==
    /\ TTL \in Nat
    /\ Recreates \in BOOLEAN
    /\ Events \subseteq AllEvents
    /\ MaxClaims \in Nat /\ MaxRequests \in Nat /\ MaxFaults \in Nat

VARIABLES
    claim,     \* claim[k]: the k-th claim created for the pod
    seen,      \* the informer's copy of the claims
    pod,       \* the claim that the pod mounts; 0 when there is no pod
    podVer,    \* the version the pod runs
    failed,    \* the pod is in a failure state
    wanted,    \* .spec.nodeCount is larger than the index of the pod
    spec,      \* .spec.version
    status,    \* .status.version
    pc,        \* where the reconciler is
    then,      \* what it does once the pod is deleted: "create" or "return"
    recreate,  \* it is to create a new claim, whatever exists
    target,    \* the version of the pod it creates
    chosen,    \* the claim it works on
    gcPc,      \* where the garbage collector is
    gcClaim,   \* the claim it handles
    last,      \* history: the claim of the last pod
    usedBy,    \* history: the versions that have written to each claim
    requests,  \* number of changes users have asked for
    faults     \* number of faults so far

podVars == <<pod, podVer, failed, last, usedBy>>
userVars == <<wanted, spec, requests>>
localVars == <<pc, then, recreate, target, chosen>>
gcVars == <<gcPc, gcClaim>>
vars == <<claim, seen, podVars, userVars, status, localVars, gcVars, faults>>

Ids == 1 .. MaxClaims

\* age: the ticks since last-unmounted-on, up to TTL; -1 without annotation.
Claim == [st : {"none", "bound", "deleting", "gone"}, age : -1 .. TTL]
NewClaim == [st |-> "bound", age |-> -1]

Exists(c) == c.st \in {"bound", "deleting"}

\* The pod has never run: its claims are still to be made.
Init ==
    /\ claim = [k \in Ids |-> [st |-> "none", age |-> -1]]
    /\ seen = claim
    /\ pod = 0 /\ podVer = 1 /\ failed = FALSE
    /\ wanted = TRUE /\ spec = 1 /\ status = 1
    /\ pc = "idle" /\ then = "return" /\ recreate = FALSE
    /\ target = 1 /\ chosen = 0
    /\ gcPc = "idle" /\ gcClaim = 0
    /\ last = 0 /\ usedBy = [k \in Ids |-> {}]
    /\ requests = 0 /\ faults = 0

-----------------------------------------------------------------------------
(* ensurePods decides what to do with the pod.                             *)

Start(p, t, r) ==
    /\ pc = "idle"
    /\ pc' = p /\ then' = t /\ recreate' = r
    /\ target' = spec /\ chosen' = pod
    /\ UNCHANGED <<claim, seen, podVars, status, gcVars, faults>>

\* There is no pod: createPodWithIndex is called without the upgrade, which
\* may well be in progress.
StartCreate ==
    /\ wanted /\ pod = 0
    /\ Start("getClaim", "create", FALSE)
    /\ UNCHANGED userVars

\* The pod is in a failure state: it is deleted, and created the same way.
StartRepair ==
    /\ wanted /\ pod # 0 /\ failed
    /\ Start("unmount", "create", FALSE)
    /\ UNCHANGED userVars

\* maybeUpgradePodWithIndex, with the strategy of the upgrade.
StartUpgrade ==
    /\ wanted /\ pod # 0 /\ ~failed
    /\ status # spec /\ podVer # spec
    /\ Start("unmount", "create", Recreates)
    /\ UNCHANGED userVars

\* The configuration has changed, or ensureClusterSize gives up on the pod
\* and leaves it to the next reconcile to create another.
StartRestart(t) ==
    /\ "restart" \in Events /\ requests < MaxRequests
    /\ wanted /\ pod # 0 /\ ~failed /\ status = spec
    /\ Start("unmount", t, FALSE)
    /\ requests' = requests + 1
    /\ UNCHANGED <<wanted, spec>>

\* Scale down.  The pod has to answer, so a failed one stays.
StartScaleDown ==
    /\ ~wanted /\ pod # 0 /\ ~failed
    /\ Start("unmount", "return", FALSE)
    /\ UNCHANGED userVars

\* The reconcile is through with this pod and the others.
UpdateStatus ==
    /\ pc = "idle" /\ status # spec
    /\ wanted => pod # 0 /\ podVer = spec
    /\ status' = spec
    /\ UNCHANGED <<claim, seen, podVars, userVars, localVars, gcVars, faults>>

-----------------------------------------------------------------------------
(* deletePod.                                                              *)

Return ==
    /\ pc' = "idle" /\ then' = "return" /\ recreate' = FALSE
    /\ target' = 1 /\ chosen' = 0

\* Variant: the pod is deleted without signalUnmounted.
UnmountUnmarked ==
    /\ pc = "unmount" /\ Exists(claim[chosen])
    /\ pc' = "deletePod"
    /\ UNCHANGED <<claim, seen, podVars, userVars, status, then, recreate, target, chosen,
                   gcVars, faults>>

\* signalUnmounted, of the claim the pod was seen with.
Unmount ==
    /\ pc = "unmount" /\ Exists(claim[chosen])
    /\ claim' = [claim EXCEPT ![chosen].age = 0]
    /\ pc' = "deletePod"
    /\ UNCHANGED <<seen, podVars, userVars, status, then, recreate, target, chosen,
                   gcVars, faults>>

\* A claim that is being deleted goes with the pod that holds it.
Released(k) ==
    [claim EXCEPT ![k].st = IF @ = "deleting" THEN "gone" ELSE @]

DeletePod ==
    /\ pc = "deletePod" /\ pod # 0
    /\ claim' = Released(pod)
    /\ pod' = 0 /\ failed' = FALSE
    /\ \/ then = "create" /\ pc' = "getClaim" /\ UNCHANGED <<then, recreate, target, chosen>>
       \/ then = "return" /\ Return
    /\ UNCHANGED <<seen, podVer, last, usedBy, userVars, status, gcVars, faults>>

\* Somebody else has deleted the pod, or the claim: an error.
DeleteFails ==
    /\ \/ pc = "unmount" /\ ~Exists(claim[chosen])
       \/ pc = "deletePod" /\ pod = 0
    /\ Return
    /\ UNCHANGED <<claim, seen, podVars, userVars, status, gcVars, faults>>

-----------------------------------------------------------------------------
(* createPodWithIndex.                                                     *)

InformerRead == "lag" \notin Events => seen = claim

\* Variant: a claim that has expired is taken as well.
AvailableExpired ==
    {k \in Ids : Exists(seen[k]) /\ seen[k].age >= 0}

\* The claims getPersistentVolumeClaim may choose from.
Available ==
    {k \in Ids : /\ Exists(seen[k]) /\ seen[k].age >= 0
                 /\ TTL = 0 \/ seen[k].age < TTL}

\* Variant: the oldest one is reused.
GetOldestClaim ==
    /\ pc = "getClaim" /\ InformerRead
    /\ ~recreate /\ Available # {}
    /\ chosen' = Min(Available)
    /\ pc' = "mount"
    /\ UNCHANGED <<claim, seen, podVars, userVars, status, then, recreate, target,
                   gcVars, faults>>

\* The most recent one is reused.
GetClaim ==
    /\ pc = "getClaim" /\ InformerRead
    /\ ~recreate /\ Available # {}
    /\ chosen' = Max(Available)
    /\ pc' = "mount"
    /\ UNCHANGED <<claim, seen, podVars, userVars, status, then, recreate, target,
                   gcVars, faults>>

\* signalMounted removes the annotation.
Mount ==
    /\ pc = "mount" /\ Exists(claim[chosen])
    /\ claim' = [claim EXCEPT ![chosen].age = -1]
    /\ pc' = "createPod"
    /\ UNCHANGED <<seen, podVars, userVars, status, then, recreate, target, chosen,
                   gcVars, faults>>

MountFails ==
    /\ pc = "mount" /\ ~Exists(claim[chosen])
    /\ Return
    /\ UNCHANGED <<claim, seen, podVars, userVars, status, gcVars, faults>>

\* createPersistentVolumeClaim.
CreateClaim(k) ==
    /\ pc = "getClaim" /\ InformerRead
    /\ recreate \/ Available = {}
    /\ claim[k].st = "none" /\ \A j \in 1 .. k - 1 : claim[j].st # "none"
    /\ claim' = [claim EXCEPT ![k] = NewClaim]
    /\ chosen' = k
    /\ pc' = "createPod"
    /\ UNCHANGED <<seen, podVars, userVars, status, then, recreate, target, gcVars, faults>>

\* A pod whose claim is on its way out is created, but never starts.
CreatePod ==
    /\ pc = "createPod"
    /\ pod' = chosen /\ podVer' = target /\ failed' = FALSE
    /\ last' = chosen
    /\ usedBy' = [usedBy EXCEPT ![chosen] =
                    IF claim[chosen].st = "bound" THEN @ \cup {target} ELSE @]
    /\ pc' = "waitPod"
    /\ UNCHANGED <<claim, seen, userVars, status, then, recreate, target, chosen,
                   gcVars, faults>>

\* The pod is ready, or the wait ends with an error: the pod has been deleted
\* by others, or it cannot start.
WaitEnds ==
    /\ pc = "waitPod"
    /\ ~failed
    /\ Return
    /\ UNCHANGED <<claim, seen, podVars, userVars, status, gcVars, faults>>

\* The pod fails while it is waited for: deletePod, and an error.
PodFails ==
    /\ pc = "waitPod"
    /\ failed
    /\ pc' = "unmount" /\ then' = "return" /\ chosen' = pod
    /\ UNCHANGED <<claim, seen, podVars, userVars, status, recreate, target, gcVars, faults>>

Reconcile ==
    \/ StartCreate \/ StartRepair \/ StartUpgrade \/ StartScaleDown \/ UpdateStatus
    \/ Unmount \/ DeletePod \/ DeleteFails
    \/ GetClaim \/ Mount \/ MountFails \/ (\E k \in Ids : CreateClaim(k))
    \/ CreatePod \/ WaitEnds \/ PodFails

-----------------------------------------------------------------------------
(* The garbage collector: PVCsHandler.Handle.                              *)

\* The informer's copy of the claim has expired.
GCBegin(k) ==
    /\ gcPc = "idle" /\ InformerRead
    /\ Exists(seen[k])
    /\ TTL # 0 /\ seen[k].age >= TTL
    /\ gcPc' = "getPod" /\ gcClaim' = k
    /\ UNCHANGED <<claim, seen, podVars, userVars, status, localVars, faults>>

\* Variant: the pod is not looked at.
GCIgnorePod ==
    /\ gcPc = "getPod"
    /\ gcPc' = "delete" /\ UNCHANGED gcClaim
    /\ UNCHANGED <<claim, seen, podVars, userVars, status, localVars, faults>>

\* The claim is left alone when the pod mounts it.
GCGetPod ==
    /\ gcPc = "getPod"
    /\ \/ pod = gcClaim /\ gcPc' = "idle" /\ gcClaim' = 0
       \/ pod # gcClaim /\ gcPc' = "delete" /\ UNCHANGED gcClaim
    /\ UNCHANGED <<claim, seen, podVars, userVars, status, localVars, faults>>

\* A claim that a pod holds is only marked for deletion.
GCDelete ==
    /\ gcPc = "delete"
    /\ claim' = IF Exists(claim[gcClaim])
                THEN [claim EXCEPT ![gcClaim].st = IF pod = gcClaim THEN "deleting" ELSE "gone"]
                ELSE claim
    /\ gcPc' = "idle" /\ gcClaim' = 0
    /\ UNCHANGED <<seen, podVars, userVars, status, localVars, faults>>

GarbageCollect == (\E k \in Ids : GCBegin(k)) \/ GCGetPod \/ GCDelete

-----------------------------------------------------------------------------
(* The rest of the world.                                                  *)

Request(e) ==
    /\ e \in Events /\ requests < MaxRequests
    /\ requests' = requests + 1
    /\ UNCHANGED <<claim, seen, podVars, status, localVars, gcVars, faults>>

UserScales == Request("scale") /\ wanted' = ~wanted /\ UNCHANGED spec

UserUpgrades == Request("upgrade") /\ spec = 1 /\ spec' = 2 /\ UNCHANGED wanted

\* A call fails, or the operator crashes and the garbage collector with it.
Abort ==
    /\ "abort" \in Events /\ faults < MaxFaults
    /\ pc # "idle" \/ gcPc # "idle"
    /\ Return
    /\ \/ UNCHANGED gcVars
       \/ gcPc' = "idle" /\ gcClaim' = 0
    /\ faults' = faults + 1
    /\ UNCHANGED <<claim, seen, podVars, userVars, status>>

\* A container of the pod ends with an error, or its image cannot be pulled.
PodBreaks ==
    /\ "fail" \in Events /\ faults < MaxFaults
    /\ pod # 0 /\ ~failed
    /\ failed' = TRUE
    /\ faults' = faults + 1
    /\ UNCHANGED <<claim, seen, pod, podVer, last, usedBy, userVars, status, localVars, gcVars>>

\* The pod is deleted by hand, or evicted.
PodVanishes ==
    /\ "vanish" \in Events /\ faults < MaxFaults
    /\ pod # 0
    /\ claim' = Released(pod)
    /\ pod' = 0 /\ failed' = FALSE
    /\ faults' = faults + 1
    /\ UNCHANGED <<seen, podVer, last, usedBy, userVars, status, localVars, gcVars>>

SyncInformer ==
    /\ seen # claim
    /\ seen' = claim
    /\ UNCHANGED <<claim, podVars, userVars, status, localVars, gcVars, faults>>

\* Variant: the clock goes on beyond the time to live.
OlderForever(c) == [c EXCEPT !.age = IF @ >= 0 THEN @ + 1 ELSE @]

Older(c) == [c EXCEPT !.age = IF @ \in 0 .. TTL - 1 THEN @ + 1 ELSE @]

Tick ==
    /\ \E k \in Ids : claim[k].st = "bound" /\ claim[k].age \in 0 .. TTL - 1
    /\ "slow" \in Events \/ pc \notin {"mount", "createPod"}
    /\ claim' = [k \in Ids |-> Older(claim[k])]
    /\ seen' = [k \in Ids |-> Older(seen[k])]
    /\ UNCHANGED <<podVars, userVars, status, localVars, gcVars, faults>>

Next ==
    \/ Reconcile \/ GarbageCollect \/ SyncInformer \/ Tick
    \/ \E t \in {"create", "return"} : StartRestart(t)
    \/ UserScales \/ UserUpgrades \/ Abort \/ PodBreaks \/ PodVanishes

Spec == Init /\ [][Next]_vars

\* The work queues keep reconciler and collector going, the 30 s resync of
\* the informers hands them every object again, and time passes.
Fairness ==
    /\ WF_vars(Reconcile) /\ WF_vars(GarbageCollect)
    /\ WF_vars(SyncInformer) /\ WF_vars(Tick)

FairSpec == Spec /\ Fairness

-----------------------------------------------------------------------------
(* Properties.                                                             *)

\* Every variable has its type.
TypeOK ==
    /\ claim \in [Ids -> Claim] /\ seen \in [Ids -> Claim]
    /\ pod \in {0} \cup Ids /\ podVer \in {1, 2} /\ failed \in BOOLEAN
    /\ wanted \in BOOLEAN /\ spec \in {1, 2} /\ status \in {1, 2}
    /\ pc \in {"idle", "unmount", "deletePod", "getClaim", "mount", "createPod", "waitPod"}
    /\ then \in {"create", "return"} /\ recreate \in BOOLEAN
    /\ target \in {1, 2} /\ chosen \in {0} \cup Ids
    /\ gcPc \in {"idle", "getPod", "delete"} /\ gcClaim \in {0} \cup Ids
    /\ last \in {0} \cup Ids /\ usedBy \in [Ids -> SUBSET {1, 2}]
    /\ requests \in 0 .. MaxRequests /\ faults \in 0 .. MaxFaults

Expired(k) == TTL # 0 /\ claim[k].age = TTL

\* The claim of a pod is there as long as the pod is: collector and reconciler
\* never pick the same claim (getPersistentVolumeClaim, PVCsHandler.Handle).
MountedIsKept == pod # 0 => claim[pod].st = "bound"

\* The collector deletes a claim only when its time to live has elapsed since
\* it was last unmounted and no pod mounts it (Handle of PVCsHandler checks
\* both on copies that may have changed by the time of the deletion).
DeletesExpiredOnly ==
    [][\A k \in Ids : claim[k].st = "bound" /\ claim'[k].st # "bound"
                      => Expired(k) /\ pod # k]_vars

\* A pod that is restarted, or comes back after a scale down, finds the data
\* it had, unless they have expired or the upgrade replaces them
\* (signalUnmounted, getPersistentVolumeClaim).
DataIsKept ==
    [][pod = 0 /\ pod' # 0 /\ last # 0 /\ ~recreate
       => pod' = last \/ Expired(last) \/ claim[last].st = "gone"]_vars

\* Whatever happens, a fault costs one claim at most: all the others are used,
\* or carry the annotation that lets them be reused or collected
\* (signalMounted and signalUnmounted around the creation of the pod).
LeaksBounded ==
    pc = "idle"
    => Cardinality({k \in Ids : claim[k].st = "bound" /\ claim[k].age = -1 /\ pod # k})
         <= faults

\* Where the upgrade replaces claims, no pod of the new version uses a claim
\* of the old one (createPodWithIndex with To42XYStrategy).
FormatsApart == Recreates => \A k \in Ids : usedBy[k] # {1, 2}

\* A claim that is no longer used is deleted in the end.
UnusedGoes ==
    \A k \in Ids :
        claim[k].st = "bound" /\ pod # k /\ pc = "idle" /\ TTL # 0
        ~> claim[k].st # "bound" \/ pod = k

=============================================================================
