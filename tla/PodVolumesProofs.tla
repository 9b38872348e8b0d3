-------------------------- MODULE PodVolumesProofs --------------------------
(***************************************************************************)
(* Proofs about PodVolumes, for any time to live and any number of claims, *)
(* requests and faults.                                                    *)
(***************************************************************************)
EXTENDS PodVolumes, FiniteSetTheorems, WellFoundedInduction, TLAPS

(***************************************************************************)
(* The claim that getPersistentVolumeClaim chooses.                        *)
(***************************************************************************)

\* A set of natural numbers has a smallest element.
LEMMA SmallestExists ==
    ASSUME NEW S \in SUBSET Nat, S # {}
    PROVE  \E x \in S : \A y \in S : x <= y
<1> DEFINE R == OpToRel(<, Nat)
<1>1. IsWellFoundedOn(R, Nat)
  BY NatLessThanWellFounded
<1>2. \A x, y \in Nat : <<y, x>> \in R <=> y < x
  BY DEF OpToRel
<1> HIDE DEF R
<1>3. PICK x \in S : \A y \in S : ~ (<<y, x>> \in R)
  BY <1>1, WFMin
<1>4. \A y \in S : ~ (y < x)
  BY <1>2, <1>3
<1>5. \A y \in S : x <= y
  BY <1>4
<1>6. QED
  BY <1>5

\* The maximum of claims is one of them, and no later one is among them.
LEMMA MaxOfClaims ==
    ASSUME NEW S \in SUBSET Ids, S # {}
    PROVE  Max(S) \in S /\ \A y \in S : y <= Max(S)
<1> DEFINE T == {MaxClaims - x : x \in S}
<1>1. \A x \in S : x \in Nat /\ MaxClaims - x \in Nat
  BY VolumesAssumption DEF Ids
<1>2. T \in SUBSET Nat /\ T # {}
  <2>1. PICK x \in S : TRUE
    OBVIOUS
  <2>2. MaxClaims - x \in T
    OBVIOUS
  <2>3. QED
    BY <1>1, <2>2
<1>3. PICK t \in T : \A u \in T : t <= u
  BY <1>2, SmallestExists
<1>4. PICK x \in S : t = MaxClaims - x
  BY <1>3
<1>5. ASSUME NEW y \in S PROVE x >= y
  <2>1. MaxClaims - x <= MaxClaims - y
    BY <1>3, <1>4
  <2>2. QED
    BY <1>1, <2>1, VolumesAssumption
<1>6. QED
  BY <1>4, <1>5 DEF Max

(***************************************************************************)
(* Type correctness.                                                       *)
(***************************************************************************)

\* The claims and the informer's copies have their types.
ClaimsOK == claim \in [Ids -> Claim] /\ seen \in [Ids -> Claim]

\* The other variables have theirs.
StateOK ==
    /\ pod \in {0} \cup Ids /\ podVer \in {1, 2} /\ failed \in BOOLEAN
    /\ wanted \in BOOLEAN /\ spec \in {1, 2} /\ status \in {1, 2}
    /\ pc \in {"idle", "unmount", "deletePod", "getClaim", "mount", "createPod", "waitPod"}
    /\ then \in {"create", "return"} /\ recreate \in BOOLEAN
    /\ target \in {1, 2} /\ chosen \in {0} \cup Ids
    /\ gcPc \in {"idle", "getPod", "delete"} /\ gcClaim \in {0} \cup Ids
    /\ last \in {0} \cup Ids /\ usedBy \in [Ids -> SUBSET {1, 2}]
    /\ requests \in 0 .. MaxRequests /\ faults \in 0 .. MaxFaults

\* Together they are the type invariant, before and after a step.
LEMMA TypeParts ==
    /\ TypeOK <=> ClaimsOK /\ StateOK
    /\ TypeOK' <=> ClaimsOK' /\ StateOK'
BY DEF TypeOK, ClaimsOK, StateOK

\* What the steps write into a claim.
LEMMA ClaimWrites ==
    /\ NewClaim \in Claim
    /\ \A c \in Claim : /\ [c EXCEPT !.age = 0] \in Claim
                        /\ [c EXCEPT !.age = -1] \in Claim
                        /\ \A s \in {"deleting", "gone"} : [c EXCEPT !.st = s] \in Claim
                        /\ Older(c) \in Claim
<1>1. NewClaim \in Claim
  BY VolumesAssumption DEF NewClaim, Claim
<1>2. ASSUME NEW c \in Claim
      PROVE  /\ [c EXCEPT !.age = 0] \in Claim
             /\ [c EXCEPT !.age = -1] \in Claim
  BY VolumesAssumption DEF Claim
<1>3. ASSUME NEW c \in Claim, NEW s \in {"deleting", "gone"}
      PROVE  [c EXCEPT !.st = s] \in Claim
  BY DEF Claim
<1>4. ASSUME NEW c \in Claim
      PROVE  Older(c) \in Claim
  <2>1. (IF c.age \in 0 .. TTL - 1 THEN c.age + 1 ELSE c.age) \in -1 .. TTL
    BY VolumesAssumption DEF Claim
  <2>2. QED
    BY <2>1 DEF Older, Claim
<1>5. QED
  BY <1>1, <1>2, <1>3, <1>4

\* A claim that is released, or not, is a claim.
LEMMA ReleasedType ==
    ASSUME claim \in [Ids -> Claim], NEW k \in Ids
    PROVE  Released(k) \in [Ids -> Claim]
<1>1. claim[k] \in Claim
  OBVIOUS
<1>2. [claim[k] EXCEPT !.st = IF @ = "deleting" THEN "gone" ELSE @] \in Claim
  BY <1>1 DEF Claim
<1>3. Released(k) = [claim EXCEPT ![k] =
                        [claim[k] EXCEPT !.st = IF @ = "deleting" THEN "gone" ELSE @]]
  BY <1>1 DEF Released
<1>4. QED
  BY <1>2, <1>3

LEMMA InitType == Init => TypeOK
<1> SUFFICES ASSUME Init PROVE TypeOK
  OBVIOUS
<1>1. [st |-> "none", age |-> -1] \in Claim
  BY VolumesAssumption DEF Claim
<1>2. ClaimsOK
  BY <1>1 DEF Init, ClaimsOK
<1>3. StateOK
  <2>1. 0 \in 0 .. MaxRequests /\ 0 \in 0 .. MaxFaults
    BY VolumesAssumption
  <2>2. QED
    BY <2>1 DEF Init, StateOK
<1>4. QED
  BY <1>2, <1>3, TypeParts

\* The reconciler chooses a claim.
LEMMA AvailableType ==
    /\ Available \subseteq Ids
    /\ Available # {} => Max(Available) \in Available
<1>1. Available \subseteq Ids
  BY DEF Available
<1>2. QED
  BY <1>1, MaxOfClaims

\* Every step keeps the claims well typed.
LEMMA NextClaimsType ==
    ASSUME ClaimsOK, StateOK, Next
    PROVE  ClaimsOK'
<1> USE DEF ClaimsOK
<1>1. CASE UNCHANGED claim /\ (UNCHANGED seen \/ seen' = claim)
  BY <1>1
<1>2. CASE Unmount
  <2>1. claim' \in [Ids -> Claim]
    BY <1>2, ClaimWrites DEF Unmount
  <2>2. QED
    BY <1>2, <2>1 DEF Unmount
<1>3. CASE DeletePod \/ PodVanishes
  BY <1>3, ReleasedType DEF DeletePod, PodVanishes, StateOK
<1>4. CASE Mount
  <2>1. claim' \in [Ids -> Claim]
    BY <1>4, ClaimWrites DEF Mount
  <2>2. QED
    BY <1>4, <2>1 DEF Mount
<1>5. CASE \E k \in Ids : CreateClaim(k)
  BY <1>5, ClaimWrites DEF CreateClaim
<1>6. CASE GCDelete
  <2>1. claim' \in [Ids -> Claim]
    BY <1>6, ClaimWrites DEF GCDelete
  <2>2. QED
    BY <1>6, <2>1 DEF GCDelete
<1>7. CASE Tick
  BY <1>7, ClaimWrites DEF Tick
<1>8. QED
  BY <1>1, <1>2, <1>3, <1>4, <1>5, <1>6, <1>7
     DEF Next, Reconcile, GarbageCollect, StartCreate, StartRepair, StartUpgrade,
     StartScaleDown, StartRestart, Start, UpdateStatus, DeleteFails, GetClaim, MountFails,
     CreatePod, WaitEnds, PodFails, GCBegin, GCGetPod, SyncInformer, UserScales,
     UserUpgrades, Request, Abort, PodBreaks

\* A counter that is below its bound when it goes up stays within it.
LEMMA Counters ==
    ASSUME StateOK,
           \/ requests' = requests
           \/ requests < MaxRequests /\ requests' = requests + 1,
           \/ faults' = faults
           \/ faults < MaxFaults /\ faults' = faults + 1
    PROVE  requests' \in 0 .. MaxRequests /\ faults' \in 0 .. MaxFaults
<1>1. requests \in 0 .. MaxRequests /\ faults \in 0 .. MaxFaults
  BY DEF StateOK
<1>2. QED
  BY <1>1, VolumesAssumption

\* Every step of the reconciler keeps the rest of the state well typed.
LEMMA ReconcileStateType ==
    ASSUME StateOK, Reconcile \/ \E t \in {"create", "return"} : StartRestart(t)
    PROVE  StateOK'
<1>1. CASE \/ StartCreate \/ StartRepair \/ StartUpgrade \/ StartScaleDown
           \/ \E t \in {"create", "return"} : StartRestart(t)
  <2>1. requests' \in 0 .. MaxRequests
    BY <1>1, Counters DEF StartCreate, StartRepair, StartUpgrade, StartScaleDown,
       StartRestart, Start, userVars
  <2>2. UNCHANGED <<wanted, spec, podVars, status, gcVars, faults>>
    BY <1>1 DEF StartCreate, StartRepair, StartUpgrade, StartScaleDown, StartRestart,
       Start, userVars
  <2>3. \E p \in {"getClaim", "unmount"}, t \in {"create", "return"}, r \in BOOLEAN :
            Start(p, t, r)
    BY <1>1, VolumesAssumption DEF StartCreate, StartRepair, StartUpgrade, StartScaleDown,
       StartRestart
  <2>4. QED
    BY <2>1, <2>2, <2>3 DEF Start, StateOK, podVars, gcVars
<1>2. CASE UpdateStatus \/ DeleteFails \/ MountFails \/ WaitEnds
  BY <1>2 DEF UpdateStatus, DeleteFails, MountFails, WaitEnds, Return, StateOK, podVars,
     userVars, localVars, gcVars
<1>3. CASE Unmount \/ Mount \/ PodFails
  BY <1>3 DEF Unmount, Mount, PodFails, StateOK, podVars, userVars, gcVars
<1>4. CASE DeletePod
  BY <1>4 DEF DeletePod, Return, StateOK, userVars, gcVars
<1>5. CASE GetClaim
  BY <1>5, AvailableType DEF GetClaim, StateOK, podVars, userVars, gcVars
<1>6. CASE \E k \in Ids : CreateClaim(k)
  BY <1>6 DEF CreateClaim, StateOK, podVars, userVars, gcVars
<1>7. CASE CreatePod
  <2>1. usedBy' \in [Ids -> SUBSET {1, 2}]
    BY <1>7 DEF CreatePod, StateOK
  <2>2. QED
    BY <1>7, <2>1 DEF CreatePod, StateOK, userVars, gcVars
<1>8. QED
  BY <1>1, <1>2, <1>3, <1>4, <1>5, <1>6, <1>7 DEF Reconcile

LEMMA NextType ==
    ASSUME TypeOK, [Next]_vars
    PROVE  TypeOK'
<1>0. ClaimsOK /\ StateOK
  BY TypeParts
<1>1. CASE UNCHANGED vars
  BY <1>1 DEF TypeOK, vars, podVars, userVars, localVars, gcVars
<1>2. CASE Next
  <2>1. ClaimsOK'
    BY <1>0, <1>2, NextClaimsType
  <2>2. CASE Reconcile \/ \E t \in {"create", "return"} : StartRestart(t)
    BY <1>0, <2>1, <2>2, ReconcileStateType, TypeParts
  <2>3. CASE GarbageCollect \/ SyncInformer \/ Tick
    <3>1. StateOK'
      BY <1>0, <2>3 DEF GarbageCollect, GCBegin, GCGetPod, GCDelete, SyncInformer, Tick,
         StateOK, podVars, userVars, localVars, gcVars
    <3>2. QED
      BY <2>1, <3>1, TypeParts
  <2>4. CASE UserScales \/ UserUpgrades
    <3>1. requests' \in 0 .. MaxRequests
      BY <1>0, <2>4, Counters DEF UserScales, UserUpgrades, Request
    <3>2. wanted' \in BOOLEAN /\ spec' \in {1, 2}
      BY <1>0, <2>4 DEF UserScales, UserUpgrades, StateOK
    <3>3. UNCHANGED <<podVars, status, localVars, gcVars, faults>>
      BY <2>4 DEF UserScales, UserUpgrades, Request
    <3>4. StateOK'
      BY <1>0, <3>1, <3>2, <3>3 DEF StateOK, podVars, localVars, gcVars
    <3>5. QED
      BY <2>1, <3>4, TypeParts
  <2>5. CASE Abort \/ PodBreaks \/ PodVanishes
    <3>1. faults' \in 0 .. MaxFaults
      BY <1>0, <2>5, Counters DEF Abort, PodBreaks, PodVanishes, userVars
    <3>2. StateOK'
      <4>1. CASE Abort
        BY <1>0, <3>1, <4>1 DEF Abort, Return, StateOK, podVars, userVars, gcVars
      <4>2. CASE PodBreaks
        BY <1>0, <3>1, <4>2 DEF PodBreaks, StateOK, userVars, localVars, gcVars
      <4>3. CASE PodVanishes
        <5>1. pod' \in {0} \cup Ids /\ failed' \in BOOLEAN
          BY <4>3 DEF PodVanishes
        <5>2. UNCHANGED <<podVer, last, usedBy, userVars, status, localVars, gcVars>>
          BY <4>3 DEF PodVanishes
        <5>3. QED
          BY <1>0, <3>1, <5>1, <5>2 DEF StateOK, userVars, localVars, gcVars
      <4>4. QED
        BY <2>5, <4>1, <4>2, <4>3
    <3>3. QED
      BY <2>1, <3>2, TypeParts
  <2>6. QED
    BY <1>2, <2>2, <2>3, <2>4, <2>5 DEF Next
<1>3. QED
  BY <1>1, <1>2

\* Every variable keeps its type; in particular no claim grows older than the
\* time to live, and what getPersistentVolumeClaim chooses is a claim.
THEOREM TypeCorrect == Spec => []TypeOK
<1>1. Init => TypeOK
  BY InitType
<1>2. TypeOK /\ [Next]_vars => TypeOK'
  BY NextType
<1>3. QED
  BY <1>1, <1>2, PTL DEF Spec

(***************************************************************************)
(* The collector.  As long as the reconciler's calls succeed, reads are up *)
(* to date and the clock stands while a claim is being mounted, the claim  *)
(* of a pod carries no annotation, except while the pod is being deleted,  *)
(* and what the collector has in hand has expired, so that the reconciler  *)
(* does not choose it.                                                     *)
(***************************************************************************)

Steady == {"abort", "slow", "lag"} \cap Events = {}

\* Where the reconciler is, and the state of the claim it works on.
HandInv ==
    /\ failed => pod # 0
    /\ pc \in {"getClaim", "mount", "createPod"} => pod = 0
    /\ pc = "unmount" => /\ chosen \in Ids
                         /\ claim[chosen].st = "bound" /\ claim[chosen].age = -1
    /\ pc \in {"unmount", "deletePod"} /\ pod # 0 => pod = chosen
    /\ pc = "mount" => /\ chosen \in Ids
                       /\ claim[chosen].st = "bound" /\ claim[chosen].age >= 0
                       /\ ~Expired(chosen)
    /\ pc = "createPod" => /\ chosen \in Ids
                           /\ claim[chosen].st = "bound" /\ claim[chosen].age = -1

\* The claim of the pod.
PodInv ==
    /\ \A k \in Ids : claim[k].st # "deleting"
    /\ pod # 0 => claim[pod].st = "bound"
    /\ pod # 0 /\ pc # "deletePod" => claim[pod].age = -1

\* The claim the collector handles.
CollectorInv ==
    /\ gcPc # "idle" => gcClaim \in Ids /\ claim[gcClaim].st = "bound" /\ Expired(gcClaim)
    /\ gcPc = "delete" => pod # gcClaim

MountInv == HandInv /\ PodInv /\ CollectorInv

LEMMA NextMounted ==
    ASSUME Steady, TypeOK, MountInv, [Next]_vars
    PROVE  MountInv'
<1>0. /\ TTL \in Nat
      /\ \A k \in Ids : claim[k] \in Claim /\ claim[k].age \in -1 .. TTL /\ k \in Nat \ {0}
  BY VolumesAssumption DEF TypeOK, Claim, Ids
<1> USE DEF MountInv, HandInv, PodInv, CollectorInv, Expired
<1>1. CASE UNCHANGED vars
  BY <1>1 DEF vars, podVars, localVars, gcVars
<1>2. CASE \/ StartCreate \/ StartRepair \/ StartUpgrade \/ StartScaleDown
           \/ \E t \in {"create", "return"} : StartRestart(t)
  BY <1>2 DEF StartCreate, StartRepair, StartUpgrade, StartScaleDown, StartRestart, Start,
     TypeOK, podVars, gcVars
<1>3. CASE UpdateStatus \/ DeleteFails \/ MountFails \/ WaitEnds \/ PodFails
  BY <1>3 DEF UpdateStatus, DeleteFails, MountFails, WaitEnds, PodFails, Return, TypeOK,
     podVars, localVars, gcVars
<1>4. CASE Unmount
  BY <1>0, <1>4 DEF Unmount, TypeOK, Claim, podVars, gcVars
<1>5. CASE DeletePod
  BY <1>0, <1>5 DEF DeletePod, Released, Return, TypeOK, Claim, podVars, gcVars
<1>6. CASE GetClaim
  BY <1>0, <1>6, AvailableType DEF GetClaim, Available, InformerRead, Steady, Exists,
     TypeOK, podVars, gcVars
<1>7. CASE Mount
  BY <1>0, <1>7 DEF Mount, TypeOK, Claim, podVars, gcVars
<1>8. CASE \E k \in Ids : CreateClaim(k)
  BY <1>0, <1>8 DEF CreateClaim, NewClaim, TypeOK, podVars, gcVars
<1>9. CASE CreatePod
  BY <1>0, <1>9 DEF CreatePod, TypeOK, gcVars
<1>10. CASE GarbageCollect
  <2>1. ASSUME NEW k \in Ids, GCBegin(k)
        PROVE  MountInv'
    <3>1. claim[k].st = "bound" /\ Expired(k)
      BY <1>0, <2>1 DEF GCBegin, InformerRead, Steady, Exists
    <3>2. QED
      BY <2>1, <3>1 DEF GCBegin, podVars, localVars
  <2>2. CASE GCGetPod
    BY <2>2 DEF GCGetPod, podVars, localVars
  <2>3. CASE GCDelete
    <3>1. /\ \A k \in Ids \ {gcClaim} : claim'[k] = claim[k]
          /\ claim'[gcClaim].st = "gone"
          /\ claim'[gcClaim].age = claim[gcClaim].age
      BY <1>0, <2>3 DEF GCDelete, Exists, TypeOK, Claim
    <3>2. gcClaim # pod /\ (pc \in {"unmount", "mount", "createPod"} => gcClaim # chosen)
      BY <1>0, <2>3 DEF GCDelete
    <3>3. QED
      BY <2>3, <3>1, <3>2 DEF GCDelete, TypeOK, podVars, localVars
  <2>4. QED
    BY <1>10, <2>1, <2>2, <2>3 DEF GarbageCollect
<1>11. CASE SyncInformer \/ UserScales \/ UserUpgrades \/ PodBreaks
  BY <1>11 DEF SyncInformer, UserScales, UserUpgrades, Request, PodBreaks, podVars,
     localVars, gcVars
<1>12. CASE PodVanishes
  BY <1>0, <1>12 DEF PodVanishes, Released, TypeOK, Claim, localVars, gcVars
<1>13. CASE Tick
  BY <1>0, <1>13 DEF Tick, Older, Steady, TypeOK, Claim, podVars, localVars, gcVars
<1>14. CASE Abort
  BY <1>14 DEF Abort, Steady
<1>15. QED
  BY <1>1, <1>2, <1>3, <1>4, <1>5, <1>6, <1>7, <1>8, <1>9, <1>10, <1>11, <1>12, <1>13,
     <1>14 DEF Next, Reconcile

LEMMA InitMounted == Init => MountInv
BY DEF Init, MountInv, HandInv, PodInv, CollectorInv

\* The claim of a pod is there as long as the pod is, for any time to live
\* and however often pods fail, vanish or are replaced: the collector and the
\* reconciler never pick the same claim.
THEOREM MountedIsAlwaysKept ==
    ASSUME Steady
    PROVE  Spec => []MountedIsKept
<1>1. Init => MountInv
  BY InitMounted
<1>2. TypeOK /\ MountInv /\ [Next]_vars => MountInv'
  BY NextMounted
<1>3. MountInv => MountedIsKept
  BY DEF MountInv, PodInv, MountedIsKept
<1>4. QED
  BY <1>1, <1>2, <1>3, TypeCorrect, PTL DEF Spec

\* A claim is deleted only by the collector, when it has expired and no pod
\* mounts it, though both have been read earlier.
THEOREM OnlyExpiredIsDeleted ==
    ASSUME Steady
    PROVE  Spec => DeletesExpiredOnly
<1>1. ASSUME TypeOK, MountInv, [Next]_vars
      PROVE  [\A k \in Ids : claim[k].st = "bound" /\ claim'[k].st # "bound"
                             => Expired(k) /\ pod # k]_vars
  <2>1. SUFFICES ASSUME Next, NEW k \in Ids, claim[k].st = "bound", claim'[k].st # "bound"
                 PROVE  Expired(k) /\ pod # k
    BY <1>1
  <2>2. CASE GCDelete
    <3>1. k = gcClaim
      BY <1>1, <2>1, <2>2 DEF GCDelete, TypeOK, Claim
    <3>2. QED
      BY <1>1, <2>2, <3>1 DEF GCDelete, MountInv, CollectorInv
  <2>3. CASE DeletePod \/ PodVanishes \/ Unmount \/ Mount
    <3>1. CASE Unmount \/ Mount
      BY <1>1, <2>1, <3>1 DEF Unmount, Mount, TypeOK, Claim
    <3>2. CASE claim' = Released(pod)
      BY <1>1, <2>1, <3>2 DEF Released, TypeOK, Claim
    <3>3. QED
      BY <2>3, <3>1, <3>2 DEF DeletePod, PodVanishes
  <2>4. CASE \E j \in Ids : CreateClaim(j)
    BY <1>1, <2>1, <2>4 DEF CreateClaim, NewClaim, TypeOK
  <2>5. CASE Tick
    BY <1>1, <2>1, <2>5 DEF Tick, Older, TypeOK, Claim
  <2>6. CASE UNCHANGED claim
    BY <2>1, <2>6
  <2>7. QED
    BY <2>1, <2>2, <2>3, <2>4, <2>5, <2>6
       DEF Next, Reconcile, GarbageCollect, StartCreate, StartRepair, StartUpgrade,
       StartScaleDown, StartRestart, Start, UpdateStatus, DeleteFails, GetClaim, MountFails,
       CreatePod, WaitEnds, PodFails, GCBegin, GCGetPod, SyncInformer, UserScales,
       UserUpgrades, Request, Abort, PodBreaks
<1>2. Init => MountInv
  BY InitMounted
<1>3. TypeOK /\ MountInv /\ [Next]_vars => MountInv'
  BY NextMounted
<1>4. QED
  BY <1>1, <1>2, <1>3, TypeCorrect, PTL DEF Spec, DeletesExpiredOnly

(***************************************************************************)
(* Data.  When pods do not vanish either, claims are unmounted in the      *)
(* order in which they are created, so that an earlier one has always been *)
(* unmounted for longer: the claim of the last pod is the last to expire,  *)
(* and the one that is chosen.                                             *)
(***************************************************************************)

Undisturbed == Steady /\ "vanish" \notin Events

\* Earlier claims are older.
OrderInv ==
    \A j, k \in Ids : j < k =>
        /\ claim[j].st = "none" => claim[k].st = "none"
        /\ claim[j].st = "bound" /\ claim[k].st = "bound"
           => claim[j].age >= 0 /\ claim[j].age >= claim[k].age
        /\ claim[j].st = "bound" /\ claim[k].st = "gone" => Expired(j)

\* The claim of the last pod cannot be chosen.
LastUnavailable ==
    last # 0 => claim[last].st = "gone" \/ Expired(last)

\* The claim of the last pod is the last one, but for the one in hand.
LastInv ==
    /\ \A k \in Ids : k > last /\ claim[k].st # "none" => pc = "createPod" /\ k = chosen
    /\ last # 0 => claim[last].st \in {"bound", "gone"}
    /\ pod # 0 => pod = last
    /\ pc \in {"unmount", "deletePod", "waitPod"} => pod # 0
    /\ pc = "deletePod" => claim[pod].age >= 0
    /\ pod = 0 /\ last # 0 /\ pc # "createPod" /\ claim[last].st = "bound"
       => claim[last].age >= 0
    /\ pc = "mount" => chosen = last
    /\ pc = "createPod" /\ chosen # last => chosen > last /\ (recreate \/ LastUnavailable)

DataInv == OrderInv /\ LastInv

\* When the last pod's claim is not available, no other is.
LEMMA LastIsChosen ==
    ASSUME Undisturbed, TypeOK, MountInv, DataInv, pc = "getClaim", InformerRead
    PROVE  /\ Available # {} => Max(Available) = last
           /\ Available = {} => LastUnavailable
<1>0. /\ TTL \in Nat
      /\ \A k \in Ids : claim[k].st \in {"none", "bound", "deleting", "gone"}
                        /\ claim[k].age \in -1 .. TTL /\ k \in Nat \ {0}
      /\ last \in {0} \cup Ids
  BY VolumesAssumption DEF TypeOK, Claim, Ids
<1>1. \A k \in Ids : k \in Available <=> claim[k].st = "bound" /\ claim[k].age >= 0 /\ ~Expired(k)
  <2>1. seen = claim
    BY DEF InformerRead, Undisturbed, Steady
  <2>2. \A k \in Ids : claim[k].st # "deleting"
    BY DEF MountInv, PodInv
  <2>3. QED
    BY <1>0, <2>1, <2>2 DEF Available, Exists, Expired
<1>2. pod = 0
  BY DEF MountInv, HandInv
<1>3. \A k \in Available : k <= last
  BY <1>0, <1>1, AvailableType DEF DataInv, LastInv
<1>4. last \in Available \/ LastUnavailable
  BY <1>0, <1>1, <1>2 DEF DataInv, LastInv, LastUnavailable
<1>5. ASSUME LastUnavailable, NEW k \in Available
      PROVE  FALSE
  <2>1. k \in Ids /\ claim[k].st = "bound" /\ claim[k].age >= 0 /\ ~Expired(k)
    BY <1>1, AvailableType
  <2>2. k < last /\ last \in Ids
    BY <1>0, <1>3, <1>5, <2>1 DEF LastUnavailable
  <2>3. CASE claim[last].st = "gone"
    BY <2>1, <2>2, <2>3 DEF DataInv, OrderInv
  <2>4. CASE claim[last].st # "gone"
    <3>1. claim[last].st = "bound" /\ Expired(last)
      BY <1>0, <1>5, <2>2, <2>4 DEF DataInv, LastInv, LastUnavailable
    <3>2. claim[k].age >= claim[last].age
      BY <2>1, <2>2, <3>1 DEF DataInv, OrderInv
    <3>3. QED
      BY <1>0, <2>1, <3>1, <3>2 DEF Expired
  <2>5. QED
    BY <2>3, <2>4
<1>6. ASSUME Available # {}
      PROVE  Max(Available) = last
  <2>1. last \in Available
    BY <1>4, <1>5, <1>6
  <2>2. Max(Available) \in Available /\ last <= Max(Available)
    BY <1>6, <2>1, AvailableType, MaxOfClaims
  <2>3. Max(Available) <= last
    BY <1>3, <2>2
  <2>4. Max(Available) \in Nat /\ last \in Nat
    BY <1>0, <2>1, <2>2, AvailableType
  <2>5. QED
    BY <2>2, <2>3, <2>4
<1>7. QED
  BY <1>4, <1>6

LEMMA NextData ==
    ASSUME Undisturbed, TypeOK, MountInv, DataInv, [Next]_vars
    PROVE  DataInv'
<1>0. /\ TTL \in Nat
      /\ \A k \in Ids : claim[k].st \in {"none", "bound", "gone"}
                        /\ claim[k].age \in -1 .. TTL /\ k \in Nat \ {0}
      /\ last \in {0} \cup Ids /\ pod \in {0} \cup Ids /\ chosen \in {0} \cup Ids
  BY VolumesAssumption DEF TypeOK, Claim, Ids, MountInv, PodInv
<1> USE DEF DataInv, OrderInv, LastInv, LastUnavailable, Expired
<1>1. CASE UNCHANGED vars
  BY <1>1 DEF vars, podVars, localVars
<1>2. CASE \/ StartCreate \/ StartRepair \/ StartUpgrade \/ StartScaleDown
           \/ \E t \in {"create", "return"} : StartRestart(t)
  BY <1>0, <1>2 DEF StartCreate, StartRepair, StartUpgrade, StartScaleDown, StartRestart,
     Start, podVars
<1>3. CASE UpdateStatus \/ DeleteFails \/ MountFails \/ WaitEnds
  BY <1>0, <1>3 DEF UpdateStatus, DeleteFails, MountFails, WaitEnds, Return, podVars,
     localVars, MountInv, HandInv, Exists
<1>4. CASE PodFails
  BY <1>0, <1>4 DEF PodFails, podVars, MountInv, HandInv
<1>5. CASE Unmount
  <2>1. chosen = last /\ last \in Ids /\ pod = last
    BY <1>0, <1>5 DEF Unmount, MountInv, HandInv
  <2>2. /\ \A k \in Ids : claim'[k].st = claim[k].st
        /\ \A k \in Ids \ {last} : claim'[k].age = claim[k].age
        /\ claim'[last].age = 0
    BY <1>5, <2>1 DEF Unmount, TypeOK, Claim
  <2>3. OrderInv'
    BY <1>0, <1>5, <2>1, <2>2 DEF Unmount
  <2>4. QED
    BY <1>0, <1>5, <2>1, <2>2, <2>3 DEF Unmount, podVars
<1>6. CASE DeletePod
  <2>1. claim' = claim
    BY <1>0, <1>6 DEF DeletePod, Released, TypeOK, Claim
  <2>2. QED
    BY <1>0, <1>6, <2>1 DEF DeletePod, Return
<1>7. CASE GetClaim
  BY <1>0, <1>7, LastIsChosen DEF GetClaim, podVars
<1>8. CASE Mount
  <2>1. chosen = last /\ last \in Ids /\ pod = 0
    BY <1>0, <1>8 DEF Mount, MountInv, HandInv
  <2>2. /\ \A k \in Ids : claim'[k].st = claim[k].st
        /\ \A k \in Ids \ {last} : claim'[k].age = claim[k].age
        /\ claim'[last].age = -1
    BY <1>8, <2>1 DEF Mount, TypeOK, Claim
  <2>3. OrderInv'
    BY <1>0, <1>8, <2>1, <2>2 DEF Mount
  <2>4. QED
    BY <1>0, <1>8, <2>1, <2>2, <2>3 DEF Mount, podVars
<1>9. ASSUME NEW k \in Ids, CreateClaim(k)
      PROVE  DataInv'
  <2>1. pod = 0 /\ (recreate \/ LastUnavailable)
    BY <1>9, LastIsChosen DEF CreateClaim, MountInv, HandInv
  <2>2. k > last /\ \A j \in Ids : j > last => claim[j].st = "none"
    BY <1>0, <1>9 DEF CreateClaim
  <2>3. /\ \A j \in Ids \ {k} : claim'[j] = claim[j]
        /\ claim'[k].st = "bound" /\ claim'[k].age = -1
    BY <1>9 DEF CreateClaim, NewClaim, TypeOK
  <2>4. \A j \in Ids : j < k => claim[j].st # "none"
    BY <1>0, <1>9 DEF CreateClaim, Ids
  <2>5. \A j \in Ids : j # k /\ claim[j].st = "bound" => j <= last /\ claim[j].age >= 0
    BY <1>0, <1>9, <2>1, <2>2 DEF CreateClaim
  <2>6. OrderInv'
    BY <1>0, <2>2, <2>3, <2>4, <2>5
  <2>7. QED
    BY <1>0, <1>9, <2>1, <2>2, <2>3, <2>6 DEF CreateClaim, podVars
<1>10. CASE CreatePod
  BY <1>0, <1>10 DEF CreatePod, MountInv, HandInv
<1>11. CASE (\E k \in Ids : GCBegin(k)) \/ GCGetPod
  BY <1>11 DEF GCBegin, GCGetPod, podVars, localVars
<1>12. CASE GCDelete
  <2>1. gcClaim \in Ids /\ claim[gcClaim].st = "bound" /\ Expired(gcClaim) /\ pod # gcClaim
    BY <1>12 DEF GCDelete, MountInv, CollectorInv
  <2>2. /\ \A k \in Ids \ {gcClaim} : claim'[k] = claim[k]
        /\ claim'[gcClaim].st = "gone" /\ claim'[gcClaim].age = claim[gcClaim].age
    BY <1>12, <2>1 DEF GCDelete, Exists, TypeOK, Claim
  <2>3. OrderInv'
    BY <1>0, <2>1, <2>2
  <2>4. QED
    BY <1>0, <1>12, <2>1, <2>2, <2>3 DEF GCDelete, podVars, localVars
<1>13. CASE SyncInformer \/ UserScales \/ UserUpgrades \/ PodBreaks
  BY <1>13 DEF SyncInformer, UserScales, UserUpgrades, Request, PodBreaks, podVars,
     localVars
<1>14. CASE Tick
  <2>1. \A k \in Ids : /\ claim'[k].st = claim[k].st
                       /\ claim'[k].age = IF claim[k].age \in 0 .. TTL - 1
                                          THEN claim[k].age + 1 ELSE claim[k].age
    BY <1>14 DEF Tick, Older, TypeOK, Claim
  <2>2. OrderInv'
    BY <1>0, <2>1
  <2>3. QED
    BY <1>0, <1>14, <2>1, <2>2 DEF Tick, podVars, localVars
<1>15. CASE Abort \/ PodVanishes
  BY <1>15 DEF Abort, PodVanishes, Undisturbed, Steady
<1>16. QED
  BY <1>1, <1>2, <1>3, <1>4, <1>5, <1>6, <1>7, <1>8, <1>9, <1>10, <1>11, <1>12, <1>13,
     <1>14, <1>15 DEF Next, Reconcile, GarbageCollect

\* A pod that is restarted or comes back mounts the claim of the last one,
\* unless that has expired, is gone, or the upgrade replaces it: for any number
\* of claims, whatever the collector does meanwhile.
THEOREM DataIsAlwaysKept ==
    ASSUME Undisturbed
    PROVE  Spec => DataIsKept
<1> DEFINE Inv == MountInv /\ DataInv
<1>1. ASSUME TypeOK, Inv, [Next]_vars
      PROVE  [pod = 0 /\ pod' # 0 /\ last # 0 /\ ~recreate
              => pod' = last \/ Expired(last) \/ claim[last].st = "gone"]_vars
  <2>1. SUFFICES ASSUME Next, pod = 0, pod' # 0, last # 0, ~recreate
                 PROVE  pod' = last \/ Expired(last) \/ claim[last].st = "gone"
    BY <1>1
  <2>2. CASE CreatePod
    BY <1>1, <2>1, <2>2 DEF CreatePod, DataInv, LastInv, LastUnavailable
  <2>3. CASE UNCHANGED pod \/ pod' = 0
    BY <2>1, <2>3
  <2>4. QED
    BY <2>1, <2>2, <2>3
       DEF Next, Reconcile, GarbageCollect, StartCreate, StartRepair, StartUpgrade,
       StartScaleDown, StartRestart, Start, UpdateStatus, Unmount, DeletePod, DeleteFails,
       GetClaim, Mount, MountFails, CreateClaim, WaitEnds, PodFails, GCBegin, GCGetPod,
       GCDelete, SyncInformer, Tick, UserScales, UserUpgrades, Request, Abort, PodBreaks,
       PodVanishes, podVars
<1>2. Init => Inv
  BY InitMounted DEF Init, DataInv, OrderInv, LastInv, LastUnavailable
<1>3. TypeOK /\ Inv /\ [Next]_vars => Inv'
  BY NextMounted, NextData DEF Undisturbed
<1> HIDE DEF Inv
<1>4. QED
  BY <1>1, <1>2, <1>3, TypeCorrect, PTL DEF Spec, DataIsKept

(***************************************************************************)
(* Leaks.  Whatever happens: a claim is neither used nor marked only when  *)
(* the reconciler has it in hand, or because of a fault of its own.        *)
(***************************************************************************)

\* Claims that no pod uses, that are not marked and not in hand.
Leaked ==
    {k \in Ids : /\ claim[k].st = "bound" /\ claim[k].age = -1 /\ pod # k
                 /\ pc = "createPod" => chosen # k}

\* The pod whose claim is marked is the one that is deleted.
DeletionInv ==
    /\ failed => pod # 0
    /\ pc \in {"getClaim", "mount", "createPod"} => pod = 0
    /\ pc \in {"unmount", "deletePod"} /\ pod # 0 => pod = chosen
    /\ pc = "deletePod" /\ pod # 0 => claim[pod].age >= 0

LeakInv == DeletionInv /\ Cardinality(Leaked) <= faults

LEMMA NextDeletion ==
    ASSUME TypeOK, DeletionInv, [Next]_vars
    PROVE  DeletionInv'
<1>0. TTL \in Nat /\ pod \in {0} \cup Ids /\ 0 \notin Ids
  BY VolumesAssumption DEF TypeOK, Ids
<1> USE DEF DeletionInv
<1>1. CASE UNCHANGED vars
  BY <1>1 DEF vars, podVars, localVars
<1>2. CASE \/ StartCreate \/ StartRepair \/ StartUpgrade \/ StartScaleDown
           \/ \E t \in {"create", "return"} : StartRestart(t)
  BY <1>2 DEF StartCreate, StartRepair, StartUpgrade, StartScaleDown, StartRestart, Start,
     podVars
<1>3. CASE UpdateStatus \/ DeleteFails \/ MountFails \/ WaitEnds \/ PodFails
  BY <1>3 DEF UpdateStatus, DeleteFails, MountFails, WaitEnds, PodFails, Return, podVars,
     localVars
<1>4. CASE Unmount
  BY <1>0, <1>4 DEF Unmount, TypeOK, Claim, podVars
<1>5. CASE DeletePod
  BY <1>5 DEF DeletePod, Return
<1>6. CASE GetClaim \/ Mount \/ \E k \in Ids : CreateClaim(k)
  BY <1>6 DEF GetClaim, Mount, CreateClaim, podVars
<1>7. CASE CreatePod
  BY <1>7 DEF CreatePod
<1>8. CASE (\E k \in Ids : GCBegin(k)) \/ GCGetPod
  BY <1>8 DEF GCBegin, GCGetPod, podVars, localVars
<1>9. CASE GCDelete
  <2>1. \A k \in Ids : claim'[k].age = claim[k].age
    BY <1>9 DEF GCDelete, TypeOK, Claim
  <2>2. QED
    BY <1>0, <1>9, <2>1 DEF GCDelete, podVars, localVars
<1>10. CASE SyncInformer \/ UserScales \/ UserUpgrades \/ PodBreaks
  BY <1>10 DEF SyncInformer, UserScales, UserUpgrades, Request, PodBreaks, podVars,
     localVars
<1>11. CASE Abort
  BY <1>11 DEF Abort, Return, podVars
<1>12. CASE PodVanishes
  BY <1>12 DEF PodVanishes, localVars
<1>13. CASE Tick
  <2>1. \A k \in Ids : claim[k].age >= 0 => claim'[k].age >= 0
    BY <1>0, <1>13 DEF Tick, Older, TypeOK, Claim
  <2>2. QED
    BY <1>0, <1>13, <2>1 DEF Tick, podVars, localVars
<1>14. QED
  BY <1>1, <1>2, <1>3, <1>4, <1>5, <1>6, <1>7, <1>8, <1>9, <1>10, <1>11, <1>12, <1>13
     DEF Next, Reconcile, GarbageCollect

\* Only a fault adds a claim to those that are leaked, and it adds one.
LEMMA NextLeaked ==
    ASSUME TypeOK, DeletionInv, [Next]_vars
    PROVE  \/ Leaked' \subseteq Leaked /\ faults' \in {faults, faults + 1}
           \/ /\ faults' = faults + 1
              /\ \E k \in Ids : Leaked' \subseteq Leaked \cup {k}
<1>0. /\ TTL \in Nat /\ pod \in {0} \cup Ids /\ 0 \notin Ids
      /\ chosen \in {0} \cup Ids
  BY VolumesAssumption DEF TypeOK, Ids
<1> USE DEF Leaked
<1>1. CASE UNCHANGED vars
  BY <1>1 DEF vars, podVars, localVars
<1>2. CASE \/ StartCreate \/ StartRepair \/ StartUpgrade \/ StartScaleDown
           \/ \E t \in {"create", "return"} : StartRestart(t)
  BY <1>2 DEF StartCreate, StartRepair, StartUpgrade, StartScaleDown, StartRestart, Start,
     podVars
<1>3. CASE UpdateStatus \/ DeleteFails \/ MountFails \/ WaitEnds \/ PodFails
  BY <1>3 DEF UpdateStatus, DeleteFails, MountFails, WaitEnds, PodFails, Return, podVars,
     localVars
<1>4. CASE Unmount
  BY <1>0, <1>4 DEF Unmount, TypeOK, Claim, podVars
<1>5. CASE DeletePod
  <2>1. /\ pod \in Ids /\ claim[pod].age >= 0
        /\ \A k \in Ids : /\ claim'[k].age = claim[k].age
                          /\ claim'[k].st = "bound" => claim[k].st = "bound"
    <3>1. pod \in Ids /\ claim[pod].age >= 0
      BY <1>0, <1>5 DEF DeletePod, DeletionInv
    <3>2. QED
      BY <1>5, <3>1 DEF DeletePod, Released, TypeOK, Claim
  <2>2. pc' # "createPod" /\ pc # "createPod" /\ faults' = faults
    BY <1>5 DEF DeletePod, Return
  <2>3. Leaked' \subseteq Leaked
    <3>1. claim[pod].age # -1
      BY <2>1
    <3>2. QED
      BY <2>1, <2>2, <3>1
  <2>4. QED
    BY <2>2, <2>3
<1>6. CASE GetClaim
  BY <1>6 DEF GetClaim, podVars
<1>7. CASE Mount
  <2>1. \A k \in Ids : /\ claim'[k].st = claim[k].st
                       /\ k # chosen => claim'[k].age = claim[k].age
    BY <1>7 DEF Mount, TypeOK, Claim
  <2>2. QED
    BY <1>7, <2>1 DEF Mount, podVars
<1>8. CASE \E k \in Ids : CreateClaim(k)
  BY <1>8 DEF CreateClaim, TypeOK, podVars
<1>9. CASE CreatePod
  BY <1>0, <1>9 DEF CreatePod, DeletionInv
<1>10. CASE (\E k \in Ids : GCBegin(k)) \/ GCGetPod
  BY <1>10 DEF GCBegin, GCGetPod, podVars, localVars
<1>11. CASE GCDelete
  <2>1. \A k \in Ids : /\ claim'[k].age = claim[k].age
                       /\ claim'[k].st = "bound" => claim[k].st = "bound"
    BY <1>11 DEF GCDelete, TypeOK, Claim
  <2>2. QED
    BY <1>11, <2>1 DEF GCDelete, podVars, localVars
<1>12. CASE SyncInformer \/ UserScales \/ UserUpgrades \/ PodBreaks
  BY <1>12 DEF SyncInformer, UserScales, UserUpgrades, Request, PodBreaks, podVars,
     localVars
<1>13. CASE Abort
  <2>1. UNCHANGED <<claim, pod>> /\ pc' = "idle" /\ faults' = faults + 1
    BY <1>13 DEF Abort, Return, podVars
  <2>2. CASE pc = "createPod" /\ chosen \in Ids
    <3>1. Leaked' \subseteq Leaked \cup {chosen}
      BY <2>1, <2>2
    <3>2. QED
      BY <2>1, <2>2, <3>1
  <2>3. CASE ~(pc = "createPod" /\ chosen \in Ids)
    BY <1>0, <2>1, <2>3
  <2>4. QED
    BY <2>2, <2>3
<1>14. CASE PodVanishes
  <2>1. /\ pod \in Ids /\ pod' = 0 /\ UNCHANGED <<pc, chosen>> /\ faults' = faults + 1
        /\ \A k \in Ids : /\ claim'[k].age = claim[k].age
                          /\ claim'[k].st = "bound" => claim[k].st = "bound"
    BY <1>0, <1>14 DEF PodVanishes, Released, TypeOK, Claim, localVars
  <2>2. Leaked' \subseteq Leaked \cup {pod}
    BY <2>1
  <2>3. QED
    BY <2>1, <2>2
<1>15. CASE Tick
  <2>1. \A k \in Ids : /\ claim'[k].st = claim[k].st
                       /\ claim'[k].age = -1 => claim[k].age = -1
    BY <1>0, <1>15 DEF Tick, Older, TypeOK, Claim
  <2>2. QED
    BY <1>15, <2>1 DEF Tick, podVars, localVars
<1>16. QED
  BY <1>1, <1>2, <1>3, <1>4, <1>5, <1>6, <1>7, <1>8, <1>9, <1>10, <1>11, <1>12, <1>13,
     <1>14, <1>15 DEF Next, Reconcile, GarbageCollect

LEMMA NextLeaks ==
    ASSUME TypeOK, LeakInv, [Next]_vars
    PROVE  LeakInv'
<1>1. DeletionInv'
  BY NextDeletion DEF LeakInv
<1>2. IsFiniteSet(Ids)
  BY VolumesAssumption, FS_Interval DEF Ids
<1>3. IsFiniteSet(Leaked) /\ Cardinality(Leaked) \in Nat
  <2>1. Leaked \in SUBSET Ids
    BY DEF Leaked
  <2>2. QED
    BY <1>2, <2>1, FS_Subset, FS_CardinalityType
<1>4. faults \in Nat
  BY VolumesAssumption DEF TypeOK
<1>5. CASE Leaked' \subseteq Leaked /\ faults' \in {faults, faults + 1}
  <2>1. Cardinality(Leaked') \in Nat /\ Cardinality(Leaked') <= Cardinality(Leaked)
    BY <1>3, <1>5, FS_Subset, FS_CardinalityType
  <2>2. QED
    BY <1>1, <1>3, <1>4, <1>5, <2>1 DEF LeakInv
<1>6. ASSUME faults' = faults + 1, NEW k \in Ids, Leaked' \subseteq Leaked \cup {k}
      PROVE  LeakInv'
  <2>1. /\ IsFiniteSet(Leaked \cup {k})
        /\ Cardinality(Leaked \cup {k}) <= Cardinality(Leaked) + 1
    BY <1>3, FS_AddElement
  <2>2. /\ Cardinality(Leaked') <= Cardinality(Leaked \cup {k})
        /\ Cardinality(Leaked') \in Nat /\ Cardinality(Leaked \cup {k}) \in Nat
    BY <1>6, <2>1, FS_Subset, FS_CardinalityType
  <2>3. QED
    BY <1>1, <1>3, <1>4, <1>6, <2>1, <2>2 DEF LeakInv
<1>7. QED
  BY <1>5, <1>6, NextLeaked DEF LeakInv

\* Whatever happens - failed calls, crashes, lost pods, stale reads - the
\* claims that are neither used nor marked are at most as many as the faults.
THEOREM LeaksAreBounded == Spec => []LeaksBounded
<1>1. Init => LeakInv
  <2> SUFFICES ASSUME Init PROVE LeakInv
    OBVIOUS
  <2>1. Leaked = {}
    BY DEF Init, Leaked
  <2>2. QED
    BY <2>1, FS_EmptySet DEF Init, LeakInv, DeletionInv
<1>2. TypeOK /\ LeakInv /\ [Next]_vars => LeakInv'
  BY NextLeaks
<1>3. LeakInv => LeaksBounded
  <2> SUFFICES ASSUME LeakInv, pc = "idle"
               PROVE  Cardinality({k \in Ids : claim[k].st = "bound" /\ claim[k].age = -1
                                               /\ pod # k}) <= faults
    BY DEF LeaksBounded
  <2>1. Leaked = {k \in Ids : claim[k].st = "bound" /\ claim[k].age = -1 /\ pod # k}
    BY DEF Leaked
  <2>2. QED
    BY <2>1 DEF LeakInv
<1>4. QED
  BY <1>1, <1>2, <1>3, TypeCorrect, PTL DEF Spec
=============================================================================
