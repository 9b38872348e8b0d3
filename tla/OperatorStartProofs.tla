------------------------ MODULE OperatorStartProofs ------------------------
(***************************************************************************)
(* Proofs about OperatorStart, for any number of replicas, definitions,    *)
(* resources, faults and writes.                                           *)
(***************************************************************************)
EXTENDS OperatorStart, TLAPS

(***************************************************************************)
(* Type correctness.                                                       *)
(***************************************************************************)

PCs == {"down", "secret", "config", "reconfig", "standby"} \cup Leading

\* The variables of a replica have their types.
LocalOK ==
    /\ pc \in [Replicas -> PCs]
    /\ stopping \subseteq Replicas
    /\ cert \in [Replicas -> Certificates]
    /\ hook \in [Replicas -> {"off", "starting", "ready"}]
    /\ at \in [Replicas -> CRDs]
    /\ got \in [Replicas -> Nat]
    /\ todo \in [Replicas -> SUBSET (Objects \X Nat)]

\* The variables of the API server have theirs.
StoreOK ==
    /\ crd \in [CRDs -> CRD]
    /\ stored \in [Objects -> {"none", "v1alpha1", "v1alpha2"}]
    /\ noted \subseteq Objects
    /\ rev \in [Objects -> Nat]

\* The other variables have theirs.
OtherOK ==
    /\ secret \in Certificates
    /\ config \in [bundle : Certificates, ver : Nat]
    /\ leader \in Replicas \cup {"none"}
    /\ faults \in 0 .. MaxFaults /\ writes \in 0 .. MaxWrites

\* Together they are the type invariant, before and after a step.
LEMMA TypeParts ==
    /\ TypeOK <=> LocalOK /\ StoreOK /\ OtherOK
    /\ TypeOK' <=> LocalOK' /\ StoreOK' /\ OtherOK'
BY DEF TypeOK, LocalOK, StoreOK, OtherOK, PCs

\* The end of a process leaves its variables well typed.
LEMMA ExitType ==
    ASSUME LocalOK, NEW r \in Replicas, Exit(r)
    PROVE  LocalOK'
<1>1. 1 \in CRDs
  BY StartAssumption DEF CRDs
<1>2. QED
  BY <1>1 DEF Exit, LocalOK, PCs, Certificates

\* So does the step of a process to its next call.
LEMMA GotoType ==
    ASSUME LocalOK, NEW r \in Replicas, NEW step \in PCs, Goto(r, step)
    PROVE  pc' \in [Replicas -> PCs]
BY DEF Goto, LocalOK

\* So does the end of a converter.
LEMMA ConvertedType ==
    ASSUME LocalOK, NEW r \in Replicas, Converted(r)
    PROVE  LocalOK'
<1>1. CASE /\ at[r] < NumCRDs
           /\ at' = [at EXCEPT ![r] = @ + 1]
           /\ Goto(r, "list")
           /\ UNCHANGED <<stopping, cert, hook, got, todo>>
  <2>1. at[r] + 1 \in CRDs
    BY <1>1, StartAssumption DEF LocalOK, CRDs
  <2>2. at' \in [Replicas -> CRDs]
    BY <1>1, <2>1 DEF LocalOK
  <2>3. QED
    BY <1>1, <2>2, GotoType DEF LocalOK, PCs, Leading
<1>2. CASE Goto(r, "running") /\ UNCHANGED localVars
  BY <1>2, GotoType DEF LocalOK, PCs, Leading, localVars
<1>3. CASE Exit(r)
  BY <1>3, ExitType
<1>4. QED
  BY <1>1, <1>2, <1>3 DEF Converted

LEMMA InitType == Init => TypeOK
<1> SUFFICES ASSUME Init PROVE TypeOK
  OBVIOUS
<1>1. 1 \in CRDs
  BY StartAssumption DEF CRDs
<1>2. LocalOK
  BY <1>1 DEF Init, LocalOK, PCs, Certificates
<1>3. NoCRD \in CRD /\ OldCRD \in CRD
  BY DEF NoCRD, OldCRD, CRD
<1>4. StoreOK
  BY <1>3 DEF Init, StoreOK
<1>5. OtherOK
  BY StartAssumption DEF Init, OtherOK, Certificates
<1>6. QED
  BY <1>2, <1>4, <1>5, TypeParts

\* A converter's list holds resources and their resourceVersions.
LEMMA UnconvertedType ==
    ASSUME StoreOK, NEW i \in CRDs
    PROVE  Unconverted(i) \subseteq Objects \X Nat
BY DEF StoreOK, Unconverted

\* A fault that is counted stays within the bound.
LEMMA ErrorsType ==
    ASSUME OtherOK, NEW call, NEW n \in Errors(call)
    PROVE  n \in {0, 1} /\ faults + n \in 0 .. MaxFaults
BY StartAssumption DEF OtherOK, Errors

\* The webhook's part of a replica keeps the types.
LEMMA WebhookType ==
    ASSUME TypeOK, NEW r \in Replicas,
           \/ Start(r) \/ EnsureTLSSecret(r) \/ CreateWebhookConfig(r)
           \/ UpdateWebhookConfig(r) \/ WebhookConfigConflict(r) \/ Serve(r)
    PROVE  TypeOK'
<1>0. LocalOK /\ StoreOK /\ OtherOK
  BY TypeParts
<1>1. CASE Start(r)
  BY <1>0, <1>1, TypeParts DEF Start, Goto, LocalOK, StoreOK, OtherOK, PCs,
     webhookVars, storeVars, localVars, bounds
<1>2. CASE EnsureTLSSecret(r)
  <2>1. secret' \in Certificates
    BY <1>0, <1>2 DEF EnsureTLSSecret, OtherOK, Certificates
  <2>2. LocalOK' /\ OtherOK'
    BY <1>0, <1>2, <2>1 DEF EnsureTLSSecret, Goto, LocalOK, OtherOK, PCs, bounds
  <2>3. StoreOK'
    BY <1>0, <1>2 DEF EnsureTLSSecret, StoreOK, storeVars
  <2>4. QED
    BY <2>2, <2>3, TypeParts
<1>3. CASE CreateWebhookConfig(r)
  <2>1. StoreOK'
    BY <1>0, <1>3 DEF CreateWebhookConfig, StoreOK, storeVars
  <2>2. OtherOK'
    BY <1>0, <1>3 DEF CreateWebhookConfig, OtherOK, LocalOK, bounds
  <2>3. LocalOK'
    BY <1>0, <1>3 DEF CreateWebhookConfig, Registered, Goto, LocalOK, OtherOK, PCs
  <2>4. QED
    BY <2>1, <2>2, <2>3, TypeParts
<1>4. CASE UpdateWebhookConfig(r)
  <2>1. StoreOK'
    BY <1>0, <1>4 DEF UpdateWebhookConfig, StoreOK, storeVars
  <2>2. OtherOK'
    BY <1>0, <1>4 DEF UpdateWebhookConfig, OtherOK, LocalOK, bounds
  <2>3. LocalOK'
    BY <1>0, <1>4 DEF UpdateWebhookConfig, Registered, Goto, LocalOK, PCs
  <2>4. QED
    BY <2>1, <2>2, <2>3, TypeParts
<1>5. CASE WebhookConfigConflict(r)
  BY <1>0, <1>5, ExitType, TypeParts DEF WebhookConfigConflict, StoreOK, OtherOK,
     webhookVars, storeVars, bounds
<1>6. CASE Serve(r)
  <2>1. PICK n \in Errors("listen") :
            /\ hook' = [hook EXCEPT ![r] = IF n = 0 THEN "ready" ELSE "off"]
            /\ faults' = faults + n
    BY <1>6 DEF Serve
  <2>2. faults' \in 0 .. MaxFaults
    BY <1>0, <2>1, ErrorsType
  <2>3. hook' \in [Replicas -> {"off", "starting", "ready"}]
    BY <1>0, <2>1 DEF LocalOK
  <2>4. QED
    BY <1>0, <1>6, <2>2, <2>3, TypeParts DEF Serve, LocalOK, StoreOK, OtherOK,
       webhookVars, storeVars
<1>7. QED
  BY <1>1, <1>2, <1>3, <1>4, <1>5, <1>6

\* The steps of a leader up to the converters keep the types.
LEMMA RegisterType ==
    ASSUME TypeOK, NEW r \in Replicas,
           \/ Acquire(r) \/ StoppedLeading(r) \/ CreateCRD(r) \/ UpdateCRD(r)
           \/ AwaitCRD(r) \/ WaitReady(r)
    PROVE  TypeOK'
<1>0. LocalOK /\ StoreOK /\ OtherOK
  BY TypeParts
<1>1. CASE Acquire(r)
  <2>1. faults' \in 0 .. MaxFaults
    BY <1>0, <1>1, StartAssumption DEF Acquire, OtherOK
  <2>2. LocalOK'
    BY <1>0, <1>1, GotoType DEF Acquire, LocalOK, PCs, Leading, localVars
  <2>3. QED
    BY <1>0, <1>1, <2>1, <2>2, TypeParts DEF Acquire, StoreOK, OtherOK,
       webhookVars, storeVars
<1>2. CASE StoppedLeading(r)
  BY <1>0, <1>2, ExitType, TypeParts DEF StoppedLeading, StoreOK, OtherOK,
     webhookVars, storeVars, bounds
<1>3. CASE CreateCRD(r)
  <2> DEFINE i == at[r]
             missing == crd[i].spec = "none"
             new == [spec |-> "new", established |-> FALSE,
                     versions |-> {"v1alpha2"}, ver |-> 0]
  <2>1. i \in CRDs /\ crd[i] \in CRD
    BY <1>0 DEF LocalOK, StoreOK
  <2>2. PICK n \in IF missing THEN {0} ELSE Errors("create") :
            /\ crd' = IF missing THEN [crd EXCEPT ![i] = new] ELSE crd
            /\ got' = [got EXCEPT ![r] = crd[i].ver]
            /\ Goto(r, IF missing \/ n = 1 THEN "await" ELSE "update")
            /\ faults' = faults + n
    BY <1>3 DEF CreateCRD
  <2>3. faults' \in 0 .. MaxFaults
    <3>1. CASE missing
      BY <1>0, <2>2, <3>1 DEF OtherOK
    <3>2. CASE ~missing
      BY <1>0, <2>2, <3>2, ErrorsType
    <3>3. QED
      BY <3>1, <3>2
  <2>4. new \in CRD
    BY DEF CRD
  <2>5. StoreOK'
    BY <1>0, <1>3, <2>1, <2>2, <2>4 DEF CreateCRD, StoreOK
  <2>6. crd[i].ver \in Nat
    BY <2>1 DEF CRD
  <2>7. LocalOK'
    BY <1>0, <1>3, <2>2, <2>6, GotoType DEF CreateCRD, LocalOK, PCs, Leading
  <2>8. QED
    BY <1>0, <1>3, <2>3, <2>5, <2>7, TypeParts DEF CreateCRD, OtherOK, webhookVars
<1>4. CASE UpdateCRD(r)
  <2> DEFINE i == at[r]
  <2>1. i \in CRDs /\ crd[i] \in CRD
    BY <1>0 DEF LocalOK, StoreOK
  <2>2. LocalOK'
    <3>1. CASE Exit(r)
      BY <1>0, <3>1, ExitType
    <3>2. CASE Goto(r, "await") /\ UNCHANGED localVars
      BY <1>0, <3>2, GotoType DEF LocalOK, PCs, Leading, localVars
    <3>3. QED
      BY <1>4, <3>1, <3>2 DEF UpdateCRD
  <2>3. StoreOK'
    <3>1. [crd[i] EXCEPT !.spec = "new", !.ver = @ + 1,
                         !.versions = @ \cup {"v1alpha2"}] \in CRD
      <4>1. crd[i].versions \cup {"v1alpha2"} \in SUBSET {"v1alpha1", "v1alpha2"}
        BY <2>1 DEF CRD
      <4>2. crd[i].ver + 1 \in Nat
        BY <2>1 DEF CRD
      <4>3. QED
        BY <2>1, <4>1, <4>2 DEF CRD
    <3>2. \/ crd' = crd
          \/ crd' = [crd EXCEPT ![i] =
                        [crd[i] EXCEPT !.spec = "new", !.ver = @ + 1,
                                       !.versions = @ \cup {"v1alpha2"}]]
      BY <1>0, <1>4, <2>1 DEF UpdateCRD, StoreOK, CRD
    <3>3. crd' \in [CRDs -> CRD]
      BY <1>0, <2>1, <3>1, <3>2 DEF StoreOK
    <3>4. QED
      BY <1>0, <1>4, <3>3 DEF UpdateCRD, StoreOK
  <2>4. QED
    BY <1>0, <1>4, <2>2, <2>3, TypeParts DEF UpdateCRD, OtherOK, webhookVars, bounds
<1>5. CASE AwaitCRD(r)
  <2>1. at[r] \in CRDs
    BY <1>0 DEF LocalOK
  <2>2. at' \in [Replicas -> CRDs]
    BY <1>0, <1>5, <2>1, StartAssumption DEF AwaitCRD, LocalOK, CRDs
  <2>3. LocalOK'
    BY <1>0, <1>5, <2>2, GotoType DEF AwaitCRD, LocalOK, PCs, Leading
  <2>4. QED
    BY <1>0, <1>5, <2>3, TypeParts DEF AwaitCRD, StoreOK, OtherOK, webhookVars,
       storeVars, bounds
<1>6. CASE WaitReady(r)
  <2>1. LocalOK'
    BY <1>0, <1>6, GotoType DEF WaitReady, LocalOK, PCs, Leading, localVars
  <2>2. QED
    BY <1>0, <1>6, <2>1, TypeParts DEF WaitReady, StoreOK, OtherOK, webhookVars,
       storeVars, bounds
<1>7. QED
  BY <1>1, <1>2, <1>3, <1>4, <1>5, <1>6

\* The converters' steps keep the types.
LEMMA ConvertType ==
    ASSUME TypeOK, NEW r \in Replicas,
           ListObjects(r) \/ ConvertObject(r) \/ DropStoredVersion(r)
    PROVE  TypeOK'
<1>0. LocalOK /\ StoreOK /\ OtherOK
  BY TypeParts
<1> DEFINE i == at[r]
<1>i. i \in CRDs /\ crd[i] \in CRD /\ crd[i].ver \in Nat
  BY <1>0 DEF LocalOK, StoreOK, CRD
<1>1. CASE ListObjects(r)
  <2>1. PICK n \in Errors("convert") :
            /\ IF n = 1 \/ "v1alpha1" \notin crd[i].versions
               THEN Converted(r)
               ELSE /\ got' = [got EXCEPT ![r] = crd[i].ver]
                    /\ todo' = [todo EXCEPT ![r] = Unconverted(i)]
                    /\ Goto(r, "convert")
                    /\ UNCHANGED <<stopping, cert, hook, at>>
            /\ faults' = faults + n
    BY <1>1 DEF ListObjects
  <2>2. faults' \in 0 .. MaxFaults
    BY <1>0, <2>1, ErrorsType
  <2>3. LocalOK'
    <3>1. CASE Converted(r)
      BY <1>0, <3>1, ConvertedType
    <3>2. CASE ~Converted(r)
      <4>1. Unconverted(i) \in SUBSET (Objects \X Nat)
        BY <1>0, <1>i, UnconvertedType
      <4>2. todo' \in [Replicas -> SUBSET (Objects \X Nat)]
        BY <1>0, <2>1, <3>2, <4>1 DEF LocalOK
      <4>3. QED
        BY <1>0, <1>i, <2>1, <3>2, <4>2, GotoType DEF LocalOK, PCs, Leading
    <3>3. QED
      BY <3>1, <3>2
  <2>4. QED
    BY <1>0, <1>1, <2>2, <2>3, TypeParts DEF ListObjects, StoreOK, OtherOK,
       webhookVars, storeVars
<1>2. CASE ConvertObject(r)
  <2>1. PICK x \in todo[r] :
            \/ /\ stored' = [stored EXCEPT ![x[1]] = StorageVersion(crd[i].spec)]
               /\ noted' = noted \cup {x[1]}
               /\ rev' = [rev EXCEPT ![x[1]] = @ + 1]
               /\ todo' = [todo EXCEPT ![r] = @ \ {x}]
               /\ UNCHANGED <<pc, stopping, cert, hook, at, got>>
            \/ /\ Exit(r)
               /\ UNCHANGED <<stored, noted, rev>>
    BY <1>2 DEF ConvertObject
  <2>2. x[1] \in Objects
    BY <1>0, <2>1 DEF LocalOK
  <2>3. StoreOK'
    <3>1. StorageVersion(crd[i].spec) \in {"none", "v1alpha1", "v1alpha2"}
      BY DEF StorageVersion
    <3>2. QED
      BY <1>0, <1>2, <2>1, <2>2, <3>1 DEF ConvertObject, StoreOK
  <2>4. LocalOK'
    <3>1. CASE Exit(r)
      BY <1>0, <3>1, ExitType
    <3>2. CASE ~Exit(r)
      BY <1>0, <2>1, <3>2 DEF LocalOK
    <3>3. QED
      BY <3>1, <3>2
  <2>5. QED
    BY <1>0, <1>2, <2>3, <2>4, TypeParts DEF ConvertObject, OtherOK, webhookVars,
       bounds
<1>3. CASE DropStoredVersion(r)
  <2>1. LocalOK'
    BY <1>0, <1>3, ConvertedType, ExitType DEF DropStoredVersion
  <2>2. [crd[i] EXCEPT !.versions = @ \ {"v1alpha1"}, !.ver = @ + 1] \in CRD
    <3>1. crd[i].versions \ {"v1alpha1"} \in SUBSET {"v1alpha1", "v1alpha2"}
      BY <1>i DEF CRD
    <3>2. crd[i].ver + 1 \in Nat
      BY <1>i
    <3>3. QED
      BY <1>i, <3>1, <3>2 DEF CRD
  <2>3. \/ crd' = crd
        \/ crd' = [crd EXCEPT ![i] =
                      [crd[i] EXCEPT !.versions = @ \ {"v1alpha1"}, !.ver = @ + 1]]
    BY <1>0, <1>3, <1>i DEF DropStoredVersion, StoreOK, CRD
  <2>4. crd' \in [CRDs -> CRD]
    BY <1>0, <1>i, <2>2, <2>3 DEF StoreOK
  <2>5. QED
    BY <1>0, <1>3, <2>1, <2>4, TypeParts DEF DropStoredVersion, StoreOK, OtherOK,
       webhookVars, bounds
<1>4. QED
  BY <1>1, <1>2, <1>3

\* Faults, users and the API server keep the types.
LEMMA EnvironmentType ==
    ASSUME TypeOK,
           \/ \E r \in Replicas : Crash(r) \/ Shutdown(r) \/ Kill(r)
           \/ \E i \in CRDs : Establish(i)
           \/ \E o \in Objects : WriteObject(o) \/ DeleteObject(o)
    PROVE  TypeOK'
<1>0. LocalOK /\ StoreOK /\ OtherOK
  BY TypeParts
<1>1. ASSUME NEW r \in Replicas, Crash(r) \/ Shutdown(r) \/ Kill(r)
      PROVE  TypeOK'
  <2>1. LocalOK'
    <3>1. CASE Exit(r)
      BY <1>0, <3>1, ExitType
    <3>2. CASE ~Exit(r)
      BY <1>0, <1>1, <3>2 DEF Crash, Shutdown, Kill, LocalOK
    <3>3. QED
      BY <3>1, <3>2
  <2>2. faults' \in 0 .. MaxFaults
    BY <1>0, <1>1, StartAssumption DEF Crash, Shutdown, Kill, OtherOK, bounds
  <2>3. QED
    BY <1>0, <1>1, <2>1, <2>2, TypeParts DEF Crash, Shutdown, Kill, StoreOK, OtherOK,
       webhookVars, storeVars, bounds
<1>2. ASSUME NEW i \in CRDs, Establish(i)
      PROVE  TypeOK'
  <2>1. crd[i] \in CRD /\ crd[i].ver + 1 \in Nat
    BY <1>0 DEF StoreOK, CRD
  <2>2. [crd[i] EXCEPT !.established = TRUE, !.ver = @ + 1] \in CRD
    BY <2>1 DEF CRD
  <2>3. crd' = [crd EXCEPT ![i] =
                   [crd[i] EXCEPT !.established = TRUE, !.ver = @ + 1]]
    BY <1>0, <1>2, <2>1 DEF Establish, StoreOK, CRD
  <2>4. crd' \in [CRDs -> CRD]
    BY <1>0, <2>2, <2>3 DEF StoreOK
  <2>5. QED
    BY <1>0, <1>2, <2>4, TypeParts DEF Establish, LocalOK, StoreOK, OtherOK,
       webhookVars, localVars, bounds
<1>3. ASSUME NEW o \in Objects, WriteObject(o) \/ DeleteObject(o)
      PROVE  TypeOK'
  <2>1. StorageVersion(crd[o[1]].spec) \in {"none", "v1alpha1", "v1alpha2"}
    BY DEF StorageVersion
  <2>2. StoreOK'
    BY <1>0, <1>3, <2>1 DEF WriteObject, DeleteObject, StoreOK
  <2>3. writes' \in 0 .. MaxWrites
    BY <1>0, <1>3, StartAssumption DEF WriteObject, DeleteObject, OtherOK
  <2>4. QED
    BY <1>0, <1>3, <2>2, <2>3, TypeParts DEF WriteObject, DeleteObject, LocalOK,
       OtherOK, webhookVars, localVars
<1>4. QED
  BY <1>1, <1>2, <1>3

LEMMA NextType ==
    ASSUME TypeOK, [Next]_vars
    PROVE  TypeOK'
<1>1. CASE UNCHANGED vars
  BY <1>1 DEF TypeOK, vars, webhookVars, storeVars, localVars, bounds
<1>2. CASE Next
  BY <1>2, WebhookType, RegisterType, ConvertType, EnvironmentType DEF Next, Step
<1>3. QED
  BY <1>1, <1>2

\* Every variable keeps its type: in particular a converter's list holds
\* resources only, the definition that a replica works on is one that exists,
\* and faults and writes stay within their bounds.
THEOREM TypeCorrect == Spec => []TypeOK
<1>1. Init => TypeOK
  BY InitType
<1>2. TypeOK /\ [Next]_vars => TypeOK'
  BY NextType
<1>3. QED
  BY <1>1, <1>2, PTL DEF Spec

(***************************************************************************)
(* Certificates.  The secret is written once, so that every certificate in *)
(* use is the secret's; a replica writes the configuration before its      *)
(* webhook starts, and every write of it is the secret's as well.          *)
(***************************************************************************)

CertificateInv ==
    /\ \A r \in Replicas : cert[r] # "none" => cert[r] = secret
    /\ \A r \in Replicas : pc[r] \in {"config", "reconfig"} => cert[r] # "none"
    /\ \A r \in Replicas :
          hook[r] # "off" => cert[r] # "none" /\ config.bundle = secret
    /\ \A r \in Replicas : pc[r] \in {"down", "secret"} => hook[r] = "off"

\* The end of a process takes its certificate and its webhook with it.
LEMMA ExitCertificates ==
    ASSUME TypeOK, CertificateInv, NEW r \in Replicas, Exit(r), UNCHANGED webhookVars
    PROVE  CertificateInv'
BY DEF TypeOK, CertificateInv, Exit, webhookVars

\* A step that leaves the webhook's variables alone and does not return to
\* its registration.
LEMMA LaterCertificates ==
    ASSUME TypeOK, CertificateInv, NEW r \in Replicas,
           NEW step \in Leading, Goto(r, step), UNCHANGED <<webhookVars, cert, hook>>
    PROVE  CertificateInv'
BY DEF TypeOK, CertificateInv, Goto, webhookVars, Leading

\* The configuration is registered with the certificate of the secret.
LEMMA RegisteredCertificates ==
    ASSUME TypeOK, CertificateInv, NEW r \in Replicas,
           cert[r] # "none", Registered(r), UNCHANGED <<secret, cert>>,
           config'.bundle = cert[r]
    PROVE  CertificateInv'
BY DEF TypeOK, CertificateInv, Registered, Goto

LEMMA NextCertificates ==
    ASSUME TypeOK, CertificateInv, [Next]_vars
    PROVE  CertificateInv'
<1>1. CASE UNCHANGED vars
  BY <1>1 DEF CertificateInv, vars, webhookVars, localVars
<1>2. ASSUME NEW r \in Replicas,
             \/ Start(r) \/ Step(r) \/ Serve(r) \/ StoppedLeading(r) \/ Kill(r)
             \/ Crash(r) \/ Shutdown(r)
      PROVE  CertificateInv'
  <2>1. CASE Start(r)
    BY <2>1 DEF TypeOK, CertificateInv, Start, Goto, webhookVars, localVars
  <2>2. CASE EnsureTLSSecret(r)
    <3>1. secret' # "none" /\ (secret # "none" => secret' = secret)
      BY <2>2, StartAssumption DEF EnsureTLSSecret
    <3>2. secret = "none" => \A q \in Replicas : cert[q] = "none" /\ hook[q] = "off"
      BY DEF TypeOK, CertificateInv
    <3>3. QED
      BY <2>2, <3>1, <3>2 DEF EnsureTLSSecret, TypeOK, CertificateInv, Goto
  <2>3. CASE CreateWebhookConfig(r)
    <3>1. cert[r] # "none"
      BY <2>3 DEF CreateWebhookConfig, CertificateInv
    <3>2. CASE config.bundle = "none"
      <4>1. config'.bundle = cert[r]
        BY <2>3, <3>2 DEF CreateWebhookConfig, TypeOK
      <4>2. QED
        BY <2>3, <3>1, <3>2, <4>1, RegisteredCertificates DEF CreateWebhookConfig
    <3>3. CASE config.bundle # "none"
      BY <2>3, <3>1, <3>3 DEF CreateWebhookConfig, TypeOK, CertificateInv, Goto
    <3>4. QED
      BY <3>2, <3>3
  <2>4. CASE UpdateWebhookConfig(r)
    <3>1. cert[r] # "none" /\ config'.bundle = cert[r]
      BY <2>4 DEF UpdateWebhookConfig, CertificateInv
    <3>2. QED
      BY <2>4, <3>1, RegisteredCertificates DEF UpdateWebhookConfig
  <2>5. CASE Serve(r)
    BY <2>5 DEF Serve, TypeOK, CertificateInv, webhookVars
  <2>6. CASE Exit(r) /\ UNCHANGED webhookVars
    BY <2>6, ExitCertificates
  <2>7. CASE Shutdown(r) /\ ~Exit(r)
    BY <2>7 DEF Shutdown, TypeOK, CertificateInv, webhookVars
  <2>8. CASE \/ Acquire(r) \/ CreateCRD(r) \/ AwaitCRD(r) \/ WaitReady(r)
             \/ UpdateCRD(r) /\ ~Exit(r)
    <3>1. UNCHANGED <<webhookVars, cert, hook>>
      BY <2>8 DEF Acquire, CreateCRD, AwaitCRD, WaitReady, UpdateCRD, localVars
    <3>2. \E step \in Leading : Goto(r, step)
      BY <2>8 DEF Acquire, CreateCRD, AwaitCRD, WaitReady, UpdateCRD, Leading
    <3>3. QED
      BY <3>1, <3>2, LaterCertificates
  <2>9. CASE (ListObjects(r) \/ ConvertObject(r) \/ DropStoredVersion(r)) /\ ~Exit(r)
    <3>1. Converted(r) /\ ~Exit(r) => /\ UNCHANGED <<cert, hook>>
                                      /\ \E step \in Leading : Goto(r, step)
      BY DEF Converted, localVars, Leading
    <3>2. UNCHANGED <<webhookVars, cert, hook>>
      BY <2>9, <3>1 DEF ListObjects, ConvertObject, DropStoredVersion
    <3>3. pc' = pc \/ \E step \in Leading : Goto(r, step)
      BY <2>9, <3>1 DEF ListObjects, ConvertObject, DropStoredVersion, Leading
    <3>4. CASE pc' = pc
      BY <3>2, <3>4 DEF CertificateInv, webhookVars
    <3>5. QED
      BY <3>2, <3>3, <3>4, LaterCertificates
  <2>10. QED
    BY <1>2, <2>1, <2>2, <2>3, <2>4, <2>5, <2>6, <2>7, <2>8, <2>9
       DEF Step, WebhookConfigConflict, StoppedLeading, Kill, Crash, Shutdown,
       UpdateCRD, ListObjects, ConvertObject, DropStoredVersion
<1>3. CASE \/ \E i \in CRDs : Establish(i)
           \/ \E o \in Objects : WriteObject(o) \/ DeleteObject(o)
  BY <1>3 DEF Establish, WriteObject, DeleteObject, CertificateInv, webhookVars, localVars
<1>4. QED
  BY <1>1, <1>2, <1>3 DEF Next

\* A webhook that is ready serves the certificate that the configuration names,
\* for any number of replicas that start, crash and race one another.
THEOREM CertificatesAlwaysMatch == Spec => []CertificatesMatch
<1>1. Init => CertificateInv
  BY DEF Init, CertificateInv
<1>2. TypeOK /\ CertificateInv /\ [Next]_vars => CertificateInv'
  BY NextCertificates
<1>3. CertificateInv => CertificatesMatch
  BY DEF CertificateInv, CertificatesMatch
<1>4. QED
  BY <1>1, <1>2, <1>3, TypeCorrect, PTL DEF Spec

(***************************************************************************)
(* Stored versions.  A definition that has become "new" stays so, and from *)
(* then on no resource of its kind is written as v1alpha1; a leader has    *)
(* made every definition new before it converts anything, and the list of  *)
(* a converter holds, as they are now, all the resources that are still    *)
(* stored as v1alpha1.                                                     *)
(***************************************************************************)

\* What a definition says of itself.
DefinitionsInv ==
    \A i \in CRDs :
        /\ crd[i].spec = "none" => ~crd[i].established
        /\ crd[i].spec = "old" => "v1alpha1" \in crd[i].versions
        /\ crd[i].spec = "new" => "v1alpha2" \in crd[i].versions

\* What a definition says of the resources of its kind.
ResourcesInv ==
    \A o \in Objects :
        /\ crd[o[1]].spec = "none" => stored[o] = "none"
        /\ stored[o] = "v1alpha2" => crd[o[1]].spec = "new"
        /\ o \in noted => crd[o[1]].spec = "new" /\ stored[o] = "v1alpha2"

StoreInv == DefinitionsInv /\ ResourcesInv /\ StoredVersionsTell

Registering == {"create", "update"}
Converting == {"wait", "list", "convert", "running"}

\* How far a leader has come with the definitions.
Progress(r) ==
    /\ pc[r] \notin Leading => at[r] = 1
    /\ \A i \in CRDs :
          /\ pc[r] \in Registering /\ i < at[r] => crd[i].spec = "new"
          /\ pc[r] = "await" /\ i <= at[r] => crd[i].spec = "new"
          /\ pc[r] \in Converting => crd[i].spec = "new"

\* A converter has listed what is left to convert, all of one kind.
Listed(r) ==
    pc[r] = "convert" =>
        /\ \A x \in todo[r] : x[1][1] = at[r]
        /\ \A o \in Objects :
              o[1] = at[r] /\ stored[o] = "v1alpha1" => <<o, rev[o]>> \in todo[r]

VersionInv == StoreInv /\ \A r \in Replicas : Progress(r) /\ Listed(r)

\* What no step takes back.
StoreKept ==
    /\ \A i \in CRDs : crd[i].spec = "new" => crd'[i].spec = "new"
    /\ \A o \in Objects : crd[o[1]].spec = "new" /\ stored'[o] = "v1alpha1"
                            => stored[o] = "v1alpha1" /\ rev'[o] = rev[o]

\* Every resource is of a kind that has a definition.
LEMMA ObjectKind == \A o \in Objects : o[1] \in CRDs
BY DEF Objects

LEMMA ConvertObjectStore ==
    ASSUME TypeOK, VersionInv, NEW r \in Replicas, ConvertObject(r)
    PROVE  StoreInv' /\ StoreKept
<1>1. PICK x \in todo[r] :
          \/ /\ stored' = [stored EXCEPT ![x[1]] = StorageVersion(crd[at[r]].spec)]
             /\ noted' = noted \cup {x[1]}
             /\ rev' = [rev EXCEPT ![x[1]] = @ + 1]
          \/ UNCHANGED <<stored, noted, rev>>
  BY DEF ConvertObject
<1>2. x[1] \in Objects /\ x[1][1] = at[r] /\ crd[at[r]].spec = "new"
  BY <1>1 DEF ConvertObject, TypeOK, VersionInv, Listed, Progress, Converting
<1>3. StorageVersion(crd[at[r]].spec) = "v1alpha2"
  BY <1>2 DEF StorageVersion
<1>4. crd' = crd
  BY DEF ConvertObject
<1>5. DefinitionsInv' /\ ResourcesInv'
  BY <1>1, <1>2, <1>3, <1>4 DEF TypeOK, VersionInv, StoreInv, DefinitionsInv, ResourcesInv
<1>6. "v1alpha2" \in crd[at[r]].versions
  BY <1>2 DEF TypeOK, VersionInv, StoreInv, DefinitionsInv
<1>7. StoredVersionsTell'
  BY <1>1, <1>2, <1>3, <1>4, <1>6 DEF TypeOK, VersionInv, StoreInv, StoredVersionsTell
<1>8. StoreKept
  BY <1>1, <1>2, <1>3, <1>4 DEF StoreKept, TypeOK
<1>9. QED
  BY <1>5, <1>7, <1>8 DEF StoreInv

LEMMA DropStoredVersionStore ==
    ASSUME TypeOK, VersionInv, NEW r \in Replicas, DropStoredVersion(r)
    PROVE  StoreInv' /\ StoreKept
<1> DEFINE i == at[r]
<1>1. i \in CRDs /\ crd[i] \in CRD
  BY DEF TypeOK
<1>2. UNCHANGED <<stored, noted, rev>>
  BY DEF DropStoredVersion
<1>3. CASE crd' = crd
  BY <1>2, <1>3 DEF StoreKept, VersionInv, StoreInv, DefinitionsInv, ResourcesInv,
     StoredVersionsTell
<1>4. CASE /\ crd[i].spec = "new"
           /\ crd' = [crd EXCEPT ![i].versions = @ \ {"v1alpha1"}, ![i].ver = @ + 1]
  <2>1. \A j \in CRDs : /\ crd'[j].spec = crd[j].spec
                        /\ crd'[j].established = crd[j].established
                        /\ j # i => crd'[j].versions = crd[j].versions
    BY <1>1, <1>4 DEF TypeOK, CRD
  <2>2. crd'[i].versions = crd[i].versions \ {"v1alpha1"}
    BY <1>1, <1>4 DEF TypeOK, CRD
  <2>3. \A o \in Objects : o[1] = i => stored[o] # "v1alpha1"
    BY DEF DropStoredVersion, VersionInv, Listed
  <2>4. DefinitionsInv'
    BY <1>4, <2>1, <2>2 DEF VersionInv, StoreInv, DefinitionsInv
  <2>5. ResourcesInv' /\ StoreKept
    BY <1>2, <2>1, ObjectKind DEF VersionInv, StoreInv, ResourcesInv, StoreKept
  <2>6. StoredVersionsTell'
    BY <1>2, <2>1, <2>2, <2>3, ObjectKind DEF VersionInv, StoreInv, StoredVersionsTell
  <2>7. QED
    BY <2>4, <2>5, <2>6 DEF StoreInv
<1>5. QED
  BY <1>3, <1>4 DEF DropStoredVersion

LEMMA RegisterStore ==
    ASSUME TypeOK, VersionInv, NEW r \in Replicas, CreateCRD(r) \/ UpdateCRD(r)
    PROVE  StoreInv' /\ StoreKept
<1> DEFINE i == at[r]
<1>1. i \in CRDs /\ crd[i] \in CRD
  BY DEF TypeOK
<1>2. UNCHANGED <<stored, noted, rev>>
  BY DEF CreateCRD, UpdateCRD
<1>3. CASE crd' = crd
  BY <1>2, <1>3 DEF StoreKept, VersionInv, StoreInv, DefinitionsInv, ResourcesInv,
     StoredVersionsTell
<1>4. CASE /\ crd[i].spec = "none"
           /\ crd' = [crd EXCEPT ![i] = [spec |-> "new", established |-> FALSE,
                                         versions |-> {"v1alpha2"}, ver |-> 0]]
  <2>1. DefinitionsInv' /\ StoreKept
    BY <1>1, <1>2, <1>4 DEF TypeOK, VersionInv, StoreInv, DefinitionsInv, StoreKept
  <2>2. \A o \in Objects : o[1] = i => stored[o] = "none"
    BY <1>4 DEF VersionInv, StoreInv, ResourcesInv
  <2>3. ResourcesInv' /\ StoredVersionsTell'
    BY <1>1, <1>2, <1>4, <2>2, ObjectKind
       DEF TypeOK, VersionInv, StoreInv, ResourcesInv, StoredVersionsTell
  <2>4. QED
    BY <2>1, <2>3 DEF StoreInv
<1>5. CASE crd' = [crd EXCEPT ![i].spec = "new", ![i].ver = @ + 1,
                              ![i].versions = @ \cup {"v1alpha2"}]
  <2>1. /\ crd'[i].spec = "new"
        /\ crd'[i].versions = crd[i].versions \cup {"v1alpha2"}
        /\ \A j \in CRDs \ {i} : crd'[j] = crd[j]
    BY <1>1, <1>5 DEF TypeOK, CRD
  <2>2. DefinitionsInv' /\ StoreKept
    BY <1>2, <2>1 DEF VersionInv, StoreInv, DefinitionsInv, StoreKept
  <2>3. ResourcesInv' /\ StoredVersionsTell'
    BY <1>2, <2>1, ObjectKind DEF VersionInv, StoreInv, ResourcesInv, StoredVersionsTell
  <2>4. QED
    BY <2>2, <2>3 DEF StoreInv
<1>6. QED
  BY <1>3, <1>4, <1>5 DEF CreateCRD, UpdateCRD

LEMMA EnvironmentStore ==
    ASSUME TypeOK, VersionInv,
           \/ \E i \in CRDs : Establish(i)
           \/ \E o \in Objects : WriteObject(o) \/ DeleteObject(o)
    PROVE  StoreInv' /\ StoreKept
<1>1. ASSUME NEW i \in CRDs, Establish(i)
      PROVE  StoreInv' /\ StoreKept
  <2>1. \A j \in CRDs : /\ crd'[j].spec = crd[j].spec
                        /\ crd'[j].versions = crd[j].versions
                        /\ crd[j].spec = "none" => crd'[j].established = crd[j].established
    BY <1>1 DEF Establish, TypeOK, CRD
  <2>2. UNCHANGED <<stored, noted, rev>>
    BY <1>1 DEF Establish
  <2>3. QED
    BY <2>1, <2>2, ObjectKind DEF VersionInv, StoreInv, DefinitionsInv, ResourcesInv,
       StoredVersionsTell, StoreKept
<1>2. ASSUME NEW o \in Objects, WriteObject(o)
      PROVE  StoreInv' /\ StoreKept
  <2>1. crd[o[1]].spec # "none" /\ crd[o[1]] \in CRD
    BY <1>2, ObjectKind DEF WriteObject, VersionInv, StoreInv, DefinitionsInv, TypeOK
  <2>2. /\ crd[o[1]].spec = "new" => StorageVersion(crd[o[1]].spec) = "v1alpha2"
        /\ crd[o[1]].spec = "old" => StorageVersion(crd[o[1]].spec) = "v1alpha1"
    BY DEF StorageVersion
  <2>3. crd[o[1]].spec \in {"old", "new"}
    BY <2>1 DEF CRD
  <2>4. UNCHANGED <<crd, noted>>
    BY <1>2 DEF WriteObject
  <2>5. DefinitionsInv' /\ ResourcesInv' /\ StoreKept
    BY <1>2, <2>2, <2>3, <2>4 DEF WriteObject, TypeOK, VersionInv, StoreInv,
       DefinitionsInv, ResourcesInv, StoreKept
  <2>6. StorageVersion(crd[o[1]].spec) \in crd[o[1]].versions
    BY <2>2, <2>3, ObjectKind DEF VersionInv, StoreInv, DefinitionsInv
  <2>7. StoredVersionsTell'
    BY <1>2, <2>4, <2>6 DEF WriteObject, TypeOK, VersionInv, StoreInv, StoredVersionsTell
  <2>8. QED
    BY <2>5, <2>7 DEF StoreInv
<1>3. ASSUME NEW o \in Objects, DeleteObject(o)
      PROVE  StoreInv' /\ StoreKept
  BY <1>3 DEF DeleteObject, TypeOK, VersionInv, StoreInv, DefinitionsInv, ResourcesInv,
     StoredVersionsTell, StoreKept
<1>4. QED
  BY <1>1, <1>2, <1>3

\* A replica that does not move keeps its place, whatever the others do.
LEMMA Stays ==
    ASSUME TypeOK, VersionInv, StoreKept, NEW q \in Replicas,
           pc'[q] = pc[q], at'[q] = at[q], todo'[q] = todo[q]
    PROVE  Progress(q)' /\ Listed(q)'
<1>1. Progress(q) /\ Listed(q)
  BY DEF VersionInv
<1>2. Progress(q)'
  BY <1>1 DEF Progress, StoreKept
<1>3. ASSUME pc[q] = "convert", NEW o \in Objects, o[1] = at[q], stored'[o] = "v1alpha1"
      PROVE  <<o, rev'[o]>> \in todo[q]
  <2>1. crd[o[1]].spec = "new"
    BY <1>1, <1>3, ObjectKind DEF Progress, Converting
  <2>2. stored[o] = "v1alpha1" /\ rev'[o] = rev[o]
    BY <1>3, <2>1 DEF StoreKept
  <2>3. QED
    BY <1>1, <1>3, <2>2 DEF Listed
<1>4. Listed(q)'
  BY <1>1, <1>3 DEF Listed
<1>5. QED
  BY <1>2, <1>4

\* Only the replica that takes a step moves.
OthersStay(r) ==
    \A q \in Replicas \ {r} : pc'[q] = pc[q] /\ at'[q] = at[q] /\ todo'[q] = todo[q]

LEMMA ExitStays ==
    ASSUME TypeOK, NEW r \in Replicas, Exit(r)
    PROVE  OthersStay(r) /\ Progress(r)' /\ Listed(r)'
BY DEF TypeOK, Exit, OthersStay, Progress, Listed, Registering, Converting, Leading

\* The end of a converter, or of the process.
LEMMA ConvertedStays ==
    ASSUME TypeOK, StoreKept, NEW r \in Replicas, Converted(r),
           pc[r] \in Converting, Progress(r)
    PROVE  OthersStay(r) /\ Progress(r)' /\ Listed(r)'
<1>1. CASE Exit(r)
  BY <1>1, ExitStays
<1>2. CASE ~Exit(r)
  <2>1. pc'[r] \in {"list", "running"} /\ OthersStay(r)
    BY <1>2 DEF Converted, Goto, TypeOK, OthersStay, localVars
  <2>2. \A i \in CRDs : crd'[i].spec = "new"
    BY DEF Progress, StoreKept
  <2>3. QED
    BY <2>1, <2>2 DEF Progress, Listed, Registering, Converting, Leading
<1>3. QED
  BY <1>1, <1>2

\* A step that leaves the definitions and the resources alone.
LEMMA SameStore ==
    ASSUME VersionInv, UNCHANGED storeVars
    PROVE  StoreInv' /\ StoreKept
BY DEF VersionInv, StoreInv, DefinitionsInv, ResourcesInv, StoredVersionsTell, StoreKept,
   storeVars

\* A step of a replica keeps the store's part and its own; the others stay.
Moves(r) ==
    /\ StoreInv' /\ StoreKept
    /\ OthersStay(r)
    /\ Progress(r)' /\ Listed(r)'

LEMMA WebhookMoves ==
    ASSUME TypeOK, VersionInv, NEW r \in Replicas,
           \/ Start(r) \/ EnsureTLSSecret(r) \/ CreateWebhookConfig(r)
           \/ UpdateWebhookConfig(r) \/ WebhookConfigConflict(r) \/ Serve(r)
           \/ StoppedLeading(r) \/ Crash(r) \/ Shutdown(r) \/ Kill(r)
    PROVE  Moves(r)
<1>1. StoreInv' /\ StoreKept
  <2>1. UNCHANGED storeVars
    BY DEF Start, EnsureTLSSecret, CreateWebhookConfig, UpdateWebhookConfig,
       WebhookConfigConflict, Serve, StoppedLeading, Crash, Shutdown, Kill
  <2>2. QED
    BY <2>1, SameStore
<1>2. CASE Exit(r)
  BY <1>1, <1>2, ExitStays DEF Moves
<1>3. CASE ~Exit(r) /\ (Serve(r) \/ Shutdown(r))
  <2>1. UNCHANGED <<pc, at, todo>>
    BY <1>3 DEF Serve, Shutdown
  <2>2. QED
    BY <1>1, <2>1, Stays DEF Moves, OthersStay
<1>4. CASE ~Exit(r) /\ ~Serve(r) /\ ~Shutdown(r)
  <2>1. UNCHANGED <<at, todo>>
    BY <1>4 DEF Start, EnsureTLSSecret, CreateWebhookConfig, UpdateWebhookConfig,
       WebhookConfigConflict, StoppedLeading, Crash, Kill, localVars
  <2>2. \E step \in {"secret", "config", "reconfig", "standby"} : Goto(r, step)
    BY <1>4 DEF Start, EnsureTLSSecret, CreateWebhookConfig, UpdateWebhookConfig,
       WebhookConfigConflict, StoppedLeading, Crash, Kill, Registered
  <2>3. OthersStay(r) /\ pc'[r] \in {"secret", "config", "reconfig", "standby"}
    BY <2>1, <2>2 DEF OthersStay, Goto, TypeOK
  <2>4. at'[r] = 1
    BY <1>4, <2>1 DEF Start, EnsureTLSSecret, CreateWebhookConfig, UpdateWebhookConfig,
       WebhookConfigConflict, StoppedLeading, Crash, Kill, VersionInv, Progress, Leading
  <2>5. QED
    BY <1>1, <2>3, <2>4 DEF Moves, Progress, Listed, Registering, Converting, Leading
<1>5. QED
  BY <1>2, <1>3, <1>4

LEMMA RegisterMoves ==
    ASSUME "create" \notin Failures, TypeOK, VersionInv, NEW r \in Replicas,
           \/ Acquire(r) \/ CreateCRD(r) \/ UpdateCRD(r) \/ AwaitCRD(r) \/ WaitReady(r)
    PROVE  Moves(r)
<1>0. Progress(r) /\ at[r] \in CRDs
  BY DEF VersionInv, TypeOK
<1>1. CASE Acquire(r)
  <2>1. StoreInv' /\ StoreKept
    BY <1>1, SameStore DEF Acquire
  <2>2. pc' = [pc EXCEPT ![r] = "create"] /\ UNCHANGED <<at, todo>>
    BY <1>1 DEF Acquire, Goto, localVars
  <2>3. at[r] = 1
    BY <1>0, <1>1 DEF Acquire, Progress, Leading
  <2>4. \A i \in CRDs : ~(i < 1)
    BY StartAssumption DEF CRDs
  <2>5. Progress(r)' /\ Listed(r)'
    BY <2>2, <2>3, <2>4 DEF TypeOK, Progress, Listed, Registering, Converting, Leading
  <2>6. QED
    BY <2>1, <2>2, <2>5 DEF Moves, OthersStay
<1>2. CASE CreateCRD(r)
  <2>1. StoreInv' /\ StoreKept
    BY <1>2, RegisterStore
  <2>2. Errors("create") = {0}
    BY DEF Errors
  <2>3. UNCHANGED <<at, todo>>
    BY <1>2 DEF CreateCRD
  <2>4. \/ pc' = [pc EXCEPT ![r] = "update"]
        \/ pc' = [pc EXCEPT ![r] = "await"] /\ crd'[at[r]].spec = "new"
    <3>1. CASE crd[at[r]].spec = "none"
      <4>1. PICK n \in {0} :
                /\ crd' = [crd EXCEPT ![at[r]] = [spec |-> "new", established |-> FALSE,
                                                  versions |-> {"v1alpha2"}, ver |-> 0]]
                /\ Goto(r, "await")
        BY <1>2, <3>1 DEF CreateCRD
      <4>2. QED
        BY <1>0, <4>1 DEF Goto, TypeOK
    <3>2. CASE crd[at[r]].spec # "none"
      <4>1. PICK n \in Errors("create") :
                Goto(r, IF crd[at[r]].spec = "none" \/ n = 1 THEN "await" ELSE "update")
        BY <1>2, <3>2 DEF CreateCRD
      <4>2. n = 0
        BY <2>2
      <4>3. QED
        BY <3>2, <4>1, <4>2 DEF Goto
    <3>3. QED
      BY <3>1, <3>2
  <2>5. \A i \in CRDs : i < at[r] => crd'[i].spec = "new"
    BY <1>0, <1>2, <2>1 DEF CreateCRD, Progress, Registering, StoreKept
  <2>6. \A i \in CRDs : i <= at[r] => i < at[r] \/ i = at[r]
    BY <1>0, StartAssumption DEF CRDs
  <2>7. Progress(r)' /\ Listed(r)'
    BY <2>3, <2>4, <2>5, <2>6 DEF TypeOK, Progress, Listed, Registering, Converting, Leading
  <2>8. QED
    BY <2>1, <2>3, <2>4, <2>7 DEF Moves, OthersStay, TypeOK
<1>3. CASE UpdateCRD(r)
  <2>1. StoreInv' /\ StoreKept
    BY <1>3, RegisterStore
  <2>2. CASE Exit(r)
    BY <2>1, <2>2, ExitStays DEF Moves
  <2>3. CASE ~Exit(r)
    <3>1. pc' = [pc EXCEPT ![r] = "await"] /\ UNCHANGED <<at, todo>>
      BY <1>3, <2>3 DEF UpdateCRD, Goto, localVars
    <3>2. crd'[at[r]].spec = "new"
      BY <1>0, <1>3, <2>3 DEF UpdateCRD, TypeOK, CRD
    <3>3. \A i \in CRDs : i < at[r] => crd'[i].spec = "new"
      BY <1>0, <1>3, <2>1 DEF UpdateCRD, Progress, Registering, StoreKept
    <3>4. \A i \in CRDs : i <= at[r] => i < at[r] \/ i = at[r]
      BY <1>0, StartAssumption DEF CRDs
    <3>5. Progress(r)' /\ Listed(r)'
      BY <3>1, <3>2, <3>3, <3>4 DEF TypeOK, Progress, Listed, Registering, Converting,
         Leading
    <3>6. QED
      BY <2>1, <3>1, <3>5 DEF Moves, OthersStay, TypeOK
  <2>4. QED
    BY <2>2, <2>3
<1>4. CASE AwaitCRD(r)
  <2>1. StoreInv' /\ StoreKept /\ crd' = crd
    BY <1>4, SameStore DEF AwaitCRD, storeVars
  <2>2. OthersStay(r) /\ UNCHANGED todo
    BY <1>4 DEF AwaitCRD, Goto, OthersStay, TypeOK
  <2>3. CASE at[r] < NumCRDs
    <3>1. pc'[r] = "create" /\ at'[r] = at[r] + 1
      BY <1>4, <2>3 DEF AwaitCRD, Goto, TypeOK
    <3>2. \A i \in CRDs : i < at[r] + 1 => i <= at[r]
      BY <1>0, StartAssumption DEF CRDs
    <3>3. QED
      BY <1>0, <1>4, <2>1, <2>2, <3>1, <3>2 DEF AwaitCRD, Moves, Progress, Listed,
         Registering, Converting, Leading
  <2>4. CASE ~(at[r] < NumCRDs)
    <3>1. pc'[r] = "wait"
      BY <1>4, <2>4 DEF AwaitCRD, Goto, TypeOK
    <3>2. \A i \in CRDs : i <= at[r]
      BY <1>0, <2>4, StartAssumption DEF CRDs
    <3>3. QED
      BY <1>0, <1>4, <2>1, <2>2, <3>1, <3>2 DEF AwaitCRD, Moves, Progress, Listed,
         Registering, Converting, Leading
  <2>5. QED
    BY <2>3, <2>4
<1>5. CASE WaitReady(r)
  <2>1. StoreInv' /\ StoreKept /\ crd' = crd
    BY <1>5, SameStore DEF WaitReady, storeVars
  <2>2. pc' = [pc EXCEPT ![r] = "list"] /\ UNCHANGED <<at, todo>>
    BY <1>5 DEF WaitReady, Goto, localVars
  <2>3. \A i \in CRDs : crd[i].spec = "new"
    BY <1>0, <1>5 DEF WaitReady, Progress, Converting
  <2>4. QED
    BY <2>1, <2>2, <2>3 DEF Moves, OthersStay, TypeOK, Progress, Listed, Registering,
       Converting, Leading
<1>6. QED
  BY <1>1, <1>2, <1>3, <1>4, <1>5

LEMMA ConvertMoves ==
    ASSUME TypeOK, VersionInv, NEW r \in Replicas,
           ListObjects(r) \/ ConvertObject(r) \/ DropStoredVersion(r)
    PROVE  Moves(r)
<1>0. Progress(r) /\ Listed(r) /\ at[r] \in CRDs /\ pc[r] \in Converting
  BY DEF VersionInv, TypeOK, ListObjects, ConvertObject, DropStoredVersion, Converting
<1>1. CASE ListObjects(r)
  <2>1. StoreInv' /\ StoreKept /\ UNCHANGED storeVars
    BY <1>1, SameStore DEF ListObjects
  <2>2. CASE Converted(r)
    BY <1>0, <2>1, <2>2, ConvertedStays DEF Moves
  <2>3. CASE ~Converted(r)
    <3>1. /\ pc' = [pc EXCEPT ![r] = "convert"] /\ UNCHANGED at
          /\ todo' = [todo EXCEPT ![r] = Unconverted(at[r])]
      BY <1>1, <2>3 DEF ListObjects, Goto
    <3>2. \A x \in Unconverted(at[r]) : x[1][1] = at[r]
      BY DEF Unconverted
    <3>3. ASSUME NEW o \in Objects, o[1] = at[r], stored[o] = "v1alpha1"
          PROVE  <<o, rev[o]>> \in Unconverted(at[r])
      <4>1. o \notin noted
        BY <3>3 DEF VersionInv, StoreInv, ResourcesInv
      <4>2. QED
        BY <3>3, <4>1 DEF Unconverted
    <3>4. OthersStay(r)
      BY <3>1 DEF OthersStay, TypeOK
    <3>5. pc'[r] = "convert" /\ at'[r] = at[r] /\ todo'[r] = Unconverted(at[r])
      BY <3>1 DEF TypeOK
    <3>6. Progress(r)'
      BY <1>0, <2>1, <3>5 DEF Progress, StoreKept, Registering, Converting, Leading
    <3>7. Listed(r)'
      BY <2>1, <3>2, <3>3, <3>5 DEF Listed, storeVars
    <3>8. QED
      BY <2>1, <3>4, <3>6, <3>7 DEF Moves
  <2>4. QED
    BY <2>2, <2>3
<1>2. CASE ConvertObject(r)
  <2>1. StoreInv' /\ StoreKept
    BY <1>2, ConvertObjectStore
  <2>2. CASE Exit(r)
    BY <2>1, <2>2, ExitStays DEF Moves
  <2>3. CASE ~Exit(r)
    <3>1. PICK x \in todo[r] :
              /\ stored' = [stored EXCEPT ![x[1]] = StorageVersion(crd[at[r]].spec)]
              /\ rev' = [rev EXCEPT ![x[1]] = @ + 1]
              /\ todo' = [todo EXCEPT ![r] = @ \ {x}]
              /\ UNCHANGED <<pc, at>>
      BY <1>2, <2>3 DEF ConvertObject
    <3>2. OthersStay(r) /\ todo'[r] = todo[r] \ {x}
      BY <3>1 DEF OthersStay, TypeOK
    <3>3. x[1] \in Objects /\ crd[at[r]].spec = "new"
      BY <1>0, <3>1 DEF TypeOK, Progress, Converting
    <3>4. stored'[x[1]] = "v1alpha2"
      BY <3>1, <3>3 DEF StorageVersion, TypeOK
    <3>5. ASSUME NEW o \in Objects, o[1] = at[r], stored'[o] = "v1alpha1"
          PROVE  <<o, rev'[o]>> \in todo'[r]
      <4>1. o # x[1]
        BY <3>4, <3>5
      <4>2. stored[o] = "v1alpha1" /\ rev'[o] = rev[o]
        BY <3>1, <3>5, <4>1 DEF TypeOK
      <4>3. <<o, rev[o]>> \in todo[r]
        BY <1>0, <1>2, <3>5, <4>2 DEF Listed, ConvertObject
      <4>4. QED
        BY <3>2, <4>1, <4>2, <4>3
    <3>6. Listed(r)'
      BY <1>0, <1>2, <3>1, <3>2, <3>5 DEF Listed, ConvertObject
    <3>7. Progress(r)'
      BY <1>0, <2>1, <3>1 DEF Progress, StoreKept
    <3>8. QED
      BY <2>1, <3>2, <3>6, <3>7 DEF Moves
  <2>4. QED
    BY <2>2, <2>3
<1>3. CASE DropStoredVersion(r)
  <2>1. StoreInv' /\ StoreKept
    BY <1>3, DropStoredVersionStore
  <2>2. Converted(r) \/ Exit(r)
    BY <1>3 DEF DropStoredVersion
  <2>3. QED
    BY <1>0, <2>1, <2>2, ConvertedStays, ExitStays DEF Moves
<1>4. QED
  BY <1>1, <1>2, <1>3

LEMMA InitVersions == Init => VersionInv
<1> SUFFICES ASSUME Init PROVE VersionInv
  OBVIOUS
<1>1. DefinitionsInv /\ ResourcesInv
  BY ObjectKind DEF Init, DefinitionsInv, ResourcesInv, NoCRD, OldCRD
<1>2. StoredVersionsTell
  BY ObjectKind DEF Init, StoredVersionsTell, NoCRD, OldCRD
<1>3. \A r \in Replicas : Progress(r) /\ Listed(r)
  BY DEF Init, Progress, Listed, Registering, Converting
<1>4. QED
  BY <1>1, <1>2, <1>3 DEF VersionInv, StoreInv

\* Every step keeps the store's invariant and what the store never takes back.
LEMMA NextVersions ==
    ASSUME "create" \notin Failures, TypeOK, VersionInv, [Next]_vars
    PROVE  VersionInv' /\ StoreKept
<1>1. ASSUME NEW r \in Replicas, Moves(r)
      PROVE  VersionInv' /\ StoreKept
  BY <1>1, Stays DEF Moves, OthersStay, VersionInv
<1>2. ASSUME StoreInv', StoreKept, UNCHANGED <<pc, at, todo>>
      PROVE  VersionInv' /\ StoreKept
  BY <1>2, Stays DEF VersionInv
<1>3. CASE UNCHANGED vars
  BY <1>2, <1>3, SameStore DEF vars, localVars
<1>4. CASE \/ \E i \in CRDs : Establish(i)
           \/ \E o \in Objects : WriteObject(o) \/ DeleteObject(o)
  <2>1. UNCHANGED <<pc, at, todo>>
    BY <1>4 DEF Establish, WriteObject, DeleteObject, localVars
  <2>2. QED
    BY <1>2, <1>4, <2>1, EnvironmentStore
<1>5. CASE \E r \in Replicas :
              \/ Start(r) \/ Step(r) \/ Serve(r) \/ StoppedLeading(r) \/ Kill(r)
              \/ Crash(r) \/ Shutdown(r)
  BY <1>1, <1>5, WebhookMoves, RegisterMoves, ConvertMoves DEF Step
<1>6. QED
  BY <1>3, <1>4, <1>5 DEF Next

\* A resource that is stored in a version is accounted for in its definition's
\* stored versions, whatever crashes, late leaders and users do between a
\* converter's steps, as long as createCRD does not fail silently.
THEOREM StoredVersionsAlwaysTell ==
    ASSUME "create" \notin Failures
    PROVE  Spec => []StoredVersionsTell
<1>1. Init => VersionInv
  BY InitVersions
<1>2. TypeOK /\ VersionInv /\ [Next]_vars => VersionInv'
  BY NextVersions
<1>3. VersionInv => StoredVersionsTell
  BY DEF VersionInv, StoreInv
<1>4. QED
  BY <1>1, <1>2, <1>3, TypeCorrect, PTL DEF Spec

(***************************************************************************)
(* Conversion.  A leader that has come to the i-th converter has seen the  *)
(* earlier ones leave nothing stored as v1alpha1, and nothing becomes so   *)
(* again.                                                                  *)
(***************************************************************************)

ConvertedInv ==
    \A r \in Replicas, o \in Objects :
        /\ pc[r] \in {"wait", "list", "convert"} /\ o[1] < at[r] => stored[o] # "v1alpha1"
        /\ pc[r] = "running" => stored[o] # "v1alpha1"

\* A replica that does not move, or ends, has nothing more to convert.
LEMMA StaysConverted ==
    ASSUME TypeOK, VersionInv, ConvertedInv, StoreKept, NEW q \in Replicas,
           \/ pc'[q] = pc[q] /\ at'[q] = at[q]
           \/ pc'[q] \notin Converting,
           NEW o \in Objects
    PROVE  /\ pc'[q] \in {"wait", "list", "convert"} /\ o[1] < at'[q]
                 => stored'[o] # "v1alpha1"
           /\ pc'[q] = "running" => stored'[o] # "v1alpha1"
<1>1. pc[q] \in Converting => crd[o[1]].spec = "new"
  BY ObjectKind DEF VersionInv, Progress
<1>2. pc[q] \in Converting /\ stored[o] # "v1alpha1" => stored'[o] # "v1alpha1"
  BY <1>1 DEF StoreKept
<1>3. QED
  BY <1>2 DEF ConvertedInv, Converting

\* The converter of a definition ends when nothing of its kind is stored as
\* v1alpha1.
LEMMA ConvertedConverts ==
    ASSUME TypeOK, VersionInv, ConvertedInv, StoreKept, NEW r \in Replicas,
           Converted(r), pc[r] \in {"list", "convert"},
           \A o \in Objects : o[1] = at[r] => stored[o] # "v1alpha1"
    PROVE  ConvertedInv'
<1>1. \A q \in Replicas \ {r} : pc'[q] = pc[q] /\ at'[q] = at[q]
  BY DEF Converted, Goto, Exit, localVars, TypeOK
<1>2. CASE Exit(r)
  <2>1. pc'[r] \notin Converting
    BY <1>2 DEF Exit, TypeOK, Converting
  <2>2. QED
    BY <1>1, <2>1, StaysConverted DEF ConvertedInv
<1>3. CASE ~Exit(r)
  <2>1. \/ pc'[r] = "list" /\ at'[r] = at[r] + 1
        \/ pc'[r] = "running" /\ at[r] = NumCRDs
    BY <1>3 DEF Converted, Goto, TypeOK
  <2>2. at[r] \in CRDs
    BY DEF TypeOK
  <2>3. ASSUME NEW o \in Objects,
               \/ pc'[r] = "list" /\ o[1] < at'[r]
               \/ pc'[r] = "running"
        PROVE  stored'[o] # "v1alpha1"
    <3>1. o[1] < at[r] \/ o[1] = at[r]
      BY <2>1, <2>2, <2>3, ObjectKind, StartAssumption DEF CRDs
    <3>2. stored[o] # "v1alpha1"
      BY <3>1 DEF ConvertedInv
    <3>3. crd[o[1]].spec = "new"
      BY ObjectKind DEF VersionInv, Progress, Converting
    <3>4. QED
      BY <3>2, <3>3 DEF StoreKept
  <2>4. \A o \in Objects :
            /\ pc'[r] \in {"wait", "list", "convert"} /\ o[1] < at'[r]
                  => stored'[o] # "v1alpha1"
            /\ pc'[r] = "running" => stored'[o] # "v1alpha1"
    BY <2>1, <2>3
  <2>5. QED
    BY <1>1, <2>4, StaysConverted DEF ConvertedInv
<1>4. QED
  BY <1>2, <1>3

LEMMA NextConverted ==
    ASSUME "create" \notin Failures, "convert" \notin Failures,
           TypeOK, VersionInv, ConvertedInv, [Next]_vars
    PROVE  ConvertedInv'
<1>0. StoreKept
  BY NextVersions
<1>1. ASSUME NEW r \in Replicas,
             \A q \in Replicas \ {r} : pc'[q] = pc[q] /\ at'[q] = at[q],
             \/ pc'[r] = pc[r] /\ at'[r] = at[r]
             \/ pc'[r] \notin Converting
      PROVE  ConvertedInv'
  BY <1>0, <1>1, StaysConverted DEF ConvertedInv
<1>2. ASSUME UNCHANGED <<pc, at>>
      PROVE  ConvertedInv'
  BY <1>0, <1>2, StaysConverted DEF ConvertedInv
<1>3. CASE \/ UNCHANGED vars
           \/ \E i \in CRDs : Establish(i)
           \/ \E o \in Objects : WriteObject(o) \/ DeleteObject(o)
  BY <1>2, <1>3 DEF vars, Establish, WriteObject, DeleteObject, localVars
<1>4. ASSUME NEW r \in Replicas, Exit(r)
      PROVE  ConvertedInv'
  <2>1. /\ \A q \in Replicas \ {r} : pc'[q] = pc[q] /\ at'[q] = at[q]
        /\ pc'[r] \notin Converting
    BY <1>4 DEF Exit, TypeOK, Converting
  <2>2. QED
    BY <1>1, <2>1
<1>5. ASSUME NEW r \in Replicas, NEW step \in PCs \ Converting, Goto(r, step), UNCHANGED at
      PROVE  ConvertedInv'
  <2>1. /\ \A q \in Replicas \ {r} : pc'[q] = pc[q] /\ at'[q] = at[q]
        /\ pc'[r] \notin Converting
    BY <1>5 DEF Goto, TypeOK
  <2>2. QED
    BY <1>1, <2>1
<1>6. ASSUME NEW r \in Replicas,
             \/ Start(r) \/ EnsureTLSSecret(r) \/ CreateWebhookConfig(r)
             \/ UpdateWebhookConfig(r) \/ WebhookConfigConflict(r) \/ Serve(r)
             \/ Acquire(r) \/ CreateCRD(r) \/ UpdateCRD(r)
             \/ StoppedLeading(r) \/ Crash(r) \/ Shutdown(r) \/ Kill(r)
      PROVE  ConvertedInv'
  <2>1. CASE Exit(r)
    BY <1>4, <2>1
  <2>2. CASE ~Exit(r)
    <3>1. UNCHANGED at
      BY <1>6, <2>2 DEF Start, EnsureTLSSecret, CreateWebhookConfig, UpdateWebhookConfig,
         WebhookConfigConflict, Serve, Acquire, CreateCRD, UpdateCRD, StoppedLeading,
         Crash, Shutdown, Kill, localVars
    <3>2. \/ UNCHANGED pc
          \/ \E step \in {"secret", "config", "reconfig", "standby",
                          "create", "update", "await"} : Goto(r, step)
      BY <1>6, <2>2 DEF Start, EnsureTLSSecret, CreateWebhookConfig, UpdateWebhookConfig,
         WebhookConfigConflict, Serve, Acquire, CreateCRD, UpdateCRD, StoppedLeading,
         Crash, Shutdown, Kill, Registered
    <3>3. QED
      BY <1>2, <1>5, <3>1, <3>2 DEF PCs, Leading, Converting
  <2>3. QED
    BY <2>1, <2>2
<1>7. ASSUME NEW r \in Replicas, AwaitCRD(r) \/ WaitReady(r)
      PROVE  ConvertedInv'
  <2>1. \A q \in Replicas \ {r} : pc'[q] = pc[q] /\ at'[q] = at[q]
    BY <1>7 DEF AwaitCRD, WaitReady, Goto, TypeOK, localVars
  <2>2. UNCHANGED stored
    BY <1>7 DEF AwaitCRD, WaitReady, storeVars
  <2>3. \A o \in Objects : ~(o[1] < 1)
    BY ObjectKind, StartAssumption DEF CRDs
  <2>4. \/ pc'[r] = "create"
        \/ pc'[r] = "wait" /\ at'[r] = 1
        \/ pc[r] = "wait" /\ pc'[r] = "list" /\ at'[r] = at[r]
    BY <1>7 DEF AwaitCRD, WaitReady, Goto, TypeOK, localVars
  <2>5. QED
    BY <1>0, <2>1, <2>2, <2>3, <2>4, StaysConverted DEF ConvertedInv
<1>8. ASSUME NEW r \in Replicas, ListObjects(r)
      PROVE  ConvertedInv'
  <2>1. Errors("convert") = {0}
    BY DEF Errors
  <2>2. CASE "v1alpha1" \notin crd[at[r]].versions
    <3>1. Converted(r) /\ pc[r] \in {"list", "convert"}
      BY <1>8, <2>1, <2>2 DEF ListObjects
    <3>2. \A o \in Objects : o[1] = at[r] => stored[o] # "v1alpha1"
      BY <2>2 DEF VersionInv, StoreInv, StoredVersionsTell
    <3>3. QED
      BY <1>0, <3>1, <3>2, ConvertedConverts
  <2>3. CASE "v1alpha1" \in crd[at[r]].versions
    <3>1. pc[r] = "list" /\ pc' = [pc EXCEPT ![r] = "convert"] /\ UNCHANGED <<at, stored>>
      BY <1>8, <2>1, <2>3 DEF ListObjects, Goto, storeVars
    <3>2. QED
      BY <1>0, <3>1, StaysConverted DEF ConvertedInv, TypeOK
  <2>4. QED
    BY <2>2, <2>3
<1>9. ASSUME NEW r \in Replicas, ConvertObject(r)
      PROVE  ConvertedInv'
  BY <1>2, <1>4, <1>9 DEF ConvertObject
<1>10. ASSUME NEW r \in Replicas, DropStoredVersion(r)
       PROVE  ConvertedInv'
  <2>1. pc[r] \in {"list", "convert"}
    BY <1>10 DEF DropStoredVersion
  <2>2. \A o \in Objects : o[1] = at[r] => stored[o] # "v1alpha1"
    BY <1>10 DEF DropStoredVersion, VersionInv, Listed
  <2>3. QED
    BY <1>0, <1>4, <1>10, <2>1, <2>2, ConvertedConverts DEF DropStoredVersion
<1>11. QED
  BY <1>3, <1>6, <1>7, <1>8, <1>9, <1>10 DEF Next, Step

\* The controllers run only when nothing is stored as v1alpha1 any more, for
\* any number of leaders that die, are replaced or lose races half-way, as long
\* as neither createCRD nor a converter gives up silently.
THEOREM ConversionComesFirst ==
    ASSUME "create" \notin Failures, "convert" \notin Failures
    PROVE  Spec => []ConvertedFirst
<1>1. Init => VersionInv /\ ConvertedInv
  BY InitVersions DEF Init, ConvertedInv
<1>2. TypeOK /\ VersionInv /\ ConvertedInv /\ [Next]_vars => VersionInv' /\ ConvertedInv'
  BY NextVersions, NextConverted
<1>3. ConvertedInv => ConvertedFirst
  BY DEF ConvertedInv, ConvertedFirst
<1>4. QED
  BY <1>1, <1>2, <1>3, TypeCorrect, PTL DEF Spec
=============================================================================
