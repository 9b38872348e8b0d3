---------------------------- MODULE OperatorStart ----------------------------
(***************************************************************************)
(* How replicas of the operator start: each publishes its certificate and  *)
(* the webhook's configuration and serves admission reviews                *)
(* (pkg/admission/webhook.go); one of them is elected, registers the       *)
(* custom resource definitions (pkg/crd/registry.go), rewrites resources   *)
(* that are stored as v1alpha1 (pkg/crd/converters) and runs the           *)
(* controllers (cmd/operator/main.go).                                     *)
(*                                                                         *)
(* A fatal error ends the process, and Kubernetes starts it again.  No     *)
(* assumption is made on time: a leader that has been slow to renew its    *)
(* lease may go on for a while beside its successor.                       *)
(***************************************************************************)
EXTENDS Integers

CONSTANTS
    Replicas,   \* the operator's pods
    NumCRDs,    \* custom resource definitions, 3 in the code
    Copies,     \* resources of each kind
    Failures,   \* the errors that may occur, of AllFailures
    MaxFaults,  \* bound: errors, crashes, shutdowns, late leaders
    MaxWrites   \* bound: writes of users

\* Fetching a definition fails, in createCRD or in a converter; the webhook
\* cannot listen.
AllFailures == {"create", "convert", "listen"}

ASSUME StartAssumption ==
    /\ NumCRDs \in Nat \ {0}
    /\ Failures \subseteq AllFailures
    /\ MaxFaults \in Nat /\ MaxWrites \in Nat
    /\ {"none", "old"} \cap Replicas = {}

VARIABLES
    secret,    \* a certificate: who has made it; "none"
    config,    \* the webhook's configuration
    leader,    \* who holds the lease
    crd,       \* crd[i]: the i-th definition
    stored,    \* stored[o]: the version a resource is stored as; "none"
    noted,     \* resources with the annotation converted-from
    rev,       \* rev[o]: the resource's resourceVersion
    pc,        \* pc[r]: where a replica is
    stopping,  \* replicas that have been told to stop
    cert,      \* cert[r]: the certificate a replica uses
    hook,      \* hook[r]: its webhook
    at,        \* at[r]: the definition it works on
    got,       \* got[r]: the resourceVersion it has fetched
    todo,      \* todo[r]: resources that it has listed, as it has read them
    faults, writes

webhookVars == <<secret, config>>
storeVars == <<crd, stored, noted, rev>>
localVars == <<stopping, cert, hook, at, got, todo>>
bounds == <<faults, writes>>
vars == <<webhookVars, leader, storeVars, pc, localVars, bounds>>

CRDs == 1 .. NumCRDs
Objects == CRDs \X Copies
Certificates == Replicas \cup {"none", "old"}

\* spec "old": an earlier release's, with v1alpha1 as its only version.
CRD == [spec : {"none", "old", "new"}, established : BOOLEAN,
        versions : SUBSET {"v1alpha1", "v1alpha2"}, ver : Nat]
NoCRD == [spec |-> "none", established |-> FALSE, versions |-> {}, ver |-> 0]
OldCRD == [spec |-> "old", established |-> TRUE, versions |-> {"v1alpha1"}, ver |-> 0]

StorageVersion(spec) == IF spec = "new" THEN "v1alpha2" ELSE "v1alpha1"

Leading == {"create", "update", "await", "wait", "list", "convert", "running"}

TypeOK ==
    /\ secret \in Certificates
    /\ config \in [bundle : Certificates, ver : Nat]
    /\ leader \in Replicas \cup {"none"}
    /\ crd \in [CRDs -> CRD]
    /\ stored \in [Objects -> {"none", "v1alpha1", "v1alpha2"}]
    /\ noted \subseteq Objects
    /\ rev \in [Objects -> Nat]
    /\ pc \in [Replicas ->
                 {"down", "secret", "config", "reconfig", "standby"} \cup Leading]
    /\ stopping \subseteq Replicas
    /\ cert \in [Replicas -> Certificates]
    /\ hook \in [Replicas -> {"off", "starting", "ready"}]
    /\ at \in [Replicas -> CRDs]
    /\ got \in [Replicas -> Nat]
    /\ todo \in [Replicas -> SUBSET (Objects \X Nat)]
    /\ faults \in 0 .. MaxFaults /\ writes \in 0 .. MaxWrites

\* A first installation, or one that replaces an earlier release, whose
\* secret may have been deleted to have the certificate renewed.
Init ==
    /\ \/ /\ secret = "none"
          /\ config = [bundle |-> "none", ver |-> 0]
          /\ crd = [i \in CRDs |-> NoCRD]
          /\ stored = [o \in Objects |-> "none"]
       \/ /\ secret \in {"none", "old"}
          /\ config = [bundle |-> "old", ver |-> 0]
          /\ crd = [i \in CRDs |-> OldCRD]
          /\ stored \in [Objects -> {"none", "v1alpha1"}]
    /\ leader = "none"
    /\ noted = {}
    /\ rev = [o \in Objects |-> 0]
    /\ pc = [r \in Replicas |-> "down"]
    /\ stopping = {}
    /\ cert = [r \in Replicas |-> "none"]
    /\ hook = [r \in Replicas |-> "off"]
    /\ at = [r \in Replicas |-> 1]
    /\ got = [r \in Replicas |-> 0]
    /\ todo = [r \in Replicas |-> {}]
    /\ faults = 0 /\ writes = 0

Goto(r, step) == pc' = [pc EXCEPT ![r] = step]

\* The process ends.
Exit(r) ==
    /\ pc' = [pc EXCEPT ![r] = "down"]
    /\ stopping' = stopping \ {r}
    /\ cert' = [cert EXCEPT ![r] = "none"]
    /\ hook' = [hook EXCEPT ![r] = "off"]
    /\ at' = [at EXCEPT ![r] = 1]
    /\ got' = [got EXCEPT ![r] = 0]
    /\ todo' = [todo EXCEPT ![r] = {}]

\* The number of errors in a call's outcome; the code goes on after each of
\* AllFailures.
Errors(call) == IF call \in Failures /\ faults < MaxFaults THEN {0, 1} ELSE {0}

Available == \E r \in Replicas : hook[r] = "ready" /\ cert[r] = config.bundle

-----------------------------------------------------------------------------
(* The webhook: Register and Run.                                          *)

Start(r) ==
    /\ pc[r] = "down"
    /\ Goto(r, "secret")
    /\ UNCHANGED <<webhookVars, leader, storeVars, localVars, bounds>>

\* Variant: a replica uses the certificate it has made.
KeepOwnCertificate(r) ==
    /\ pc[r] = "secret"
    /\ secret' = IF secret = "none" THEN r ELSE secret
    /\ cert' = [cert EXCEPT ![r] = r]
    /\ Goto(r, "config")
    /\ UNCHANGED <<config, leader, storeVars, stopping, hook, at, got, todo, bounds>>

\* The secret is created, or the one that exists is used.
EnsureTLSSecret(r) ==
    /\ pc[r] = "secret"
    /\ secret' = IF secret = "none" THEN r ELSE secret
    /\ cert' = [cert EXCEPT ![r] = secret']
    /\ Goto(r, "config")
    /\ UNCHANGED <<config, leader, storeVars, stopping, hook, at, got, todo, bounds>>

\* main goes on to the election, and the webhook is started beside it.
Registered(r) ==
    /\ Goto(r, "standby")
    /\ hook' = [hook EXCEPT ![r] = IF r \in stopping THEN "off" ELSE "starting"]

\* Variant: a configuration that exists is left alone.
CreateWebhookConfigOnce(r) ==
    /\ pc[r] = "config"
    /\ config' = IF config.bundle = "none" THEN [config EXCEPT !.bundle = cert[r]] ELSE config
    /\ Registered(r)
    /\ UNCHANGED <<secret, leader, storeVars, stopping, cert, at, got, todo, bounds>>

\* The configuration is created, or the one that exists is fetched.  It differs
\* from the one in the code, if only by the API server's defaults.
CreateWebhookConfig(r) ==
    /\ pc[r] = "config"
    /\ IF config.bundle = "none"
       THEN /\ config' = [config EXCEPT !.bundle = cert[r]]
            /\ Registered(r) /\ UNCHANGED got
       ELSE /\ got' = [got EXCEPT ![r] = config.ver]
            /\ Goto(r, "reconfig") /\ UNCHANGED <<config, hook>>
    /\ UNCHANGED <<secret, leader, storeVars, stopping, cert, at, todo, bounds>>

UpdateWebhookConfig(r) ==
    /\ pc[r] = "reconfig" /\ got[r] = config.ver
    /\ config' = IF config.bundle = cert[r] THEN config
                 ELSE [bundle |-> cert[r], ver |-> config.ver + 1]
    /\ Registered(r)
    /\ UNCHANGED <<secret, leader, storeVars, stopping, cert, at, got, todo, bounds>>

\* Another replica has written the configuration since: a fatal error.
WebhookConfigConflict(r) ==
    /\ pc[r] = "reconfig" /\ got[r] # config.ver
    /\ Exit(r)
    /\ UNCHANGED <<webhookVars, leader, storeVars, bounds>>

\* The readiness probe succeeds.  An error is logged, and the process goes on
\* without its webhook.
Serve(r) ==
    /\ hook[r] = "starting"
    /\ \E n \in Errors("listen") :
          /\ hook' = [hook EXCEPT ![r] = IF n = 0 THEN "ready" ELSE "off"]
          /\ faults' = faults + n
    /\ UNCHANGED <<webhookVars, leader, storeVars, pc, stopping, cert, at, got, todo, writes>>

-----------------------------------------------------------------------------
(* Leader election, by client-go.  The lease is free, its holder does not  *)
(* renew it because it is down, or the holder is late.                     *)

Acquire(r) ==
    /\ pc[r] = "standby"
    /\ LET late == leader # "none" /\ leader # r /\ pc[leader] \in Leading
       IN  /\ late => faults < MaxFaults
           /\ faults' = IF late THEN faults + 1 ELSE faults
    /\ leader' = r
    /\ Goto(r, "create")
    /\ UNCHANGED <<webhookVars, storeVars, localVars, writes>>

\* OnStoppedLeading.
StoppedLeading(r) ==
    /\ pc[r] \in Leading /\ leader # r
    /\ Exit(r)
    /\ UNCHANGED <<webhookVars, leader, storeVars, bounds>>

-----------------------------------------------------------------------------
(* RegisterCRDs: createCRD and awaitCRD for one definition after another.  *)

\* The definition is created, or the one that exists is fetched; it differs, if
\* only by defaults.  When it cannot be fetched, createCRD returns no error.
CreateCRD(r) ==
    /\ pc[r] = "create"
    /\ LET i == at[r]
           missing == crd[i].spec = "none"
       IN  \E n \in IF missing THEN {0} ELSE Errors("create") :
              /\ crd' = IF missing
                        THEN [crd EXCEPT ![i] = [spec |-> "new", established |-> FALSE,
                                                 versions |-> {"v1alpha2"}, ver |-> 0]]
                        ELSE crd
              /\ got' = [got EXCEPT ![r] = crd[i].ver]
              /\ Goto(r, IF missing \/ n = 1 THEN "await" ELSE "update")
              /\ faults' = faults + n
    /\ UNCHANGED <<webhookVars, leader, stored, noted, rev, stopping, cert, hook, at,
                   todo, writes>>

\* The API server adds the new storage version to the stored versions.
UpdateCRD(r) ==
    /\ pc[r] = "update"
    /\ LET i == at[r]
       IN  \/ /\ got[r] = crd[i].ver
              /\ crd' = IF crd[i].spec = "new" THEN crd
                        ELSE [crd EXCEPT ![i].spec = "new", ![i].ver = @ + 1,
                                         ![i].versions = @ \cup {"v1alpha2"}]
              /\ Goto(r, "await")
              /\ UNCHANGED localVars
           \/ got[r] # crd[i].ver /\ Exit(r) /\ UNCHANGED crd
    /\ UNCHANGED <<webhookVars, leader, stored, noted, rev, bounds>>

\* The API server establishes a definition.
Establish(i) ==
    /\ crd[i].spec # "none" /\ ~crd[i].established
    /\ crd' = [crd EXCEPT ![i].established = TRUE, ![i].ver = @ + 1]
    /\ UNCHANGED <<webhookVars, leader, stored, noted, rev, pc, localVars, bounds>>

\* Variant: the loop over the definitions runs once too often.
AwaitOneTooMany(r) ==
    /\ pc[r] = "await" /\ crd[at[r]].established
    /\ IF at[r] <= NumCRDs
       THEN at' = [at EXCEPT ![r] = @ + 1] /\ Goto(r, "create")
       ELSE at' = [at EXCEPT ![r] = 1] /\ Goto(r, "wait")
    /\ UNCHANGED <<webhookVars, leader, storeVars, stopping, cert, hook, got, todo, bounds>>

\* The definition is established; the next one, or the converters, follow.
AwaitCRD(r) ==
    /\ pc[r] = "await" /\ crd[at[r]].established
    /\ IF at[r] < NumCRDs
       THEN at' = [at EXCEPT ![r] = @ + 1] /\ Goto(r, "create")
       ELSE at' = [at EXCEPT ![r] = 1] /\ Goto(r, "wait")
    /\ UNCHANGED <<webhookVars, leader, storeVars, stopping, cert, hook, got, todo, bounds>>

-----------------------------------------------------------------------------
(* WaitReady and ConvertResources.                                         *)

\* The service has an endpoint: the address of a pod that runs, be it ready
\* or not.
WaitReady(r) ==
    /\ pc[r] = "wait"
    /\ \E q \in Replicas : pc[q] # "down"
    /\ Goto(r, "list")
    /\ UNCHANGED <<webhookVars, leader, storeVars, localVars, bounds>>

\* Variant: the controllers run after the first converter.
ConvertedTooSoon(r) ==
    \/ /\ r \notin stopping
       /\ Goto(r, "running")
       /\ UNCHANGED localVars
    \/ r \in stopping /\ Exit(r)

\* The next converter, or the controllers: they stop at once, and the process
\* with them, when the replica has been told to stop.
Converted(r) ==
    \/ /\ at[r] < NumCRDs
       /\ at' = [at EXCEPT ![r] = @ + 1]
       /\ Goto(r, "list")
       /\ UNCHANGED <<stopping, cert, hook, got, todo>>
    \/ /\ at[r] = NumCRDs /\ r \notin stopping
       /\ Goto(r, "running")
       /\ UNCHANGED localVars
    \/ at[r] = NumCRDs /\ r \in stopping /\ Exit(r)

\* The resources to convert: those that have no annotation.
Unconverted(i) ==
    {<<o, rev[o]>> : o \in {p \in Objects : p[1] = i /\ stored[p] # "none" /\ p \notin noted}}

\* The definition and the resources are fetched.  When one of them cannot be,
\* the converter returns no error and leaves everything as it is.
ListObjects(r) ==
    /\ pc[r] = "list"
    /\ LET i == at[r]
       IN  \E n \in Errors("convert") :
              /\ IF n = 1 \/ "v1alpha1" \notin crd[i].versions
                 THEN Converted(r)
                 ELSE /\ got' = [got EXCEPT ![r] = crd[i].ver]
                      /\ todo' = [todo EXCEPT ![r] = Unconverted(i)]
                      /\ Goto(r, "convert")
                      /\ UNCHANGED <<stopping, cert, hook, at>>
              /\ faults' = faults + n
    /\ UNCHANGED <<webhookVars, leader, storeVars, writes>>

\* Variant: an update that is refused is tried again as it is.
ConvertObjectAgain(r) ==
    /\ pc[r] = "convert"
    /\ \E x \in todo[r] :
          LET o == x[1]
          IN  /\ Available /\ stored[o] # "none" /\ rev[o] = x[2]
              /\ stored' = [stored EXCEPT ![o] = StorageVersion(crd[at[r]].spec)]
              /\ noted' = noted \cup {o}
              /\ rev' = [rev EXCEPT ![o] = @ + 1]
              /\ todo' = [todo EXCEPT ![r] = @ \ {x}]
    /\ UNCHANGED <<webhookVars, leader, crd, pc, stopping, cert, hook, at, got, bounds>>

\* A resource is written with the annotation, in the storage version.
ConvertObject(r) ==
    /\ pc[r] = "convert"
    /\ \E x \in todo[r] :
          LET o == x[1]
          IN  \/ /\ Available /\ stored[o] # "none" /\ rev[o] = x[2]
                 /\ stored' = [stored EXCEPT ![o] = StorageVersion(crd[at[r]].spec)]
                 /\ noted' = noted \cup {o}
                 /\ rev' = [rev EXCEPT ![o] = @ + 1]
                 /\ todo' = [todo EXCEPT ![r] = @ \ {x}]
                 /\ UNCHANGED <<pc, stopping, cert, hook, at, got>>
              \/ /\ ~Available \/ stored[o] = "none" \/ rev[o] # x[2]
                 /\ Exit(r)
                 /\ UNCHANGED <<stored, noted, rev>>
    /\ UNCHANGED <<webhookVars, leader, crd, bounds>>

\* Variant: resources may still be left to convert.
DropStoredVersionEarly(r) ==
    /\ pc[r] = "convert"
    /\ LET i == at[r]
           accepted == got[r] = crd[i].ver /\ crd[i].spec = "new"
       IN  \/ /\ accepted
              /\ crd' = [crd EXCEPT ![i].versions = @ \ {"v1alpha1"}, ![i].ver = @ + 1]
              /\ Converted(r)
           \/ ~accepted /\ Exit(r) /\ UNCHANGED crd
    /\ UNCHANGED <<webhookVars, leader, stored, noted, rev, bounds>>

\* v1alpha1 is removed from the stored versions as they were fetched.  The API
\* server refuses to remove the storage version.
DropStoredVersion(r) ==
    /\ pc[r] = "convert" /\ todo[r] = {}
    /\ LET i == at[r]
           accepted == got[r] = crd[i].ver /\ crd[i].spec = "new"
       IN  \/ /\ accepted
              /\ crd' = [crd EXCEPT ![i].versions = @ \ {"v1alpha1"}, ![i].ver = @ + 1]
              /\ Converted(r)
           \/ ~accepted /\ Exit(r) /\ UNCHANGED crd
    /\ UNCHANGED <<webhookVars, leader, stored, noted, rev, bounds>>

-----------------------------------------------------------------------------
(* Faults and users.                                                       *)

\* The process dies; so it does on every error that is fatal.
Crash(r) ==
    /\ pc[r] # "down" /\ faults < MaxFaults
    /\ faults' = faults + 1
    /\ Exit(r)
    /\ UNCHANGED <<webhookVars, leader, storeVars, writes>>

\* SIGTERM closes the webhook and stops the controllers.  What precedes them
\* takes no notice of it.
Shutdown(r) ==
    /\ pc[r] # "down" /\ r \notin stopping /\ faults < MaxFaults
    /\ faults' = faults + 1
    /\ \/ pc[r] = "running" /\ Exit(r)
       \/ /\ pc[r] # "running"
          /\ stopping' = stopping \cup {r}
          /\ hook' = [hook EXCEPT ![r] = "off"]
          /\ UNCHANGED <<pc, cert, at, got, todo>>
    /\ UNCHANGED <<webhookVars, leader, storeVars, writes>>

\* The grace period ends.
Kill(r) ==
    /\ r \in stopping
    /\ Exit(r)
    /\ UNCHANGED <<webhookVars, leader, storeVars, bounds>>

\* A user creates or updates a resource, which the webhook must admit.
WriteObject(o) ==
    /\ writes < MaxWrites /\ crd[o[1]].established /\ Available
    /\ writes' = writes + 1
    /\ stored' = [stored EXCEPT ![o] = StorageVersion(crd[o[1]].spec)]
    /\ rev' = [rev EXCEPT ![o] = @ + 1]
    /\ UNCHANGED <<webhookVars, leader, crd, noted, pc, localVars, faults>>

DeleteObject(o) ==
    /\ writes < MaxWrites /\ stored[o] # "none"
    /\ writes' = writes + 1
    /\ stored' = [stored EXCEPT ![o] = "none"]
    /\ noted' = noted \ {o}
    /\ rev' = [rev EXCEPT ![o] = @ + 1]
    /\ UNCHANGED <<webhookVars, leader, crd, pc, localVars, faults>>

-----------------------------------------------------------------------------
Step(r) ==
    \/ EnsureTLSSecret(r) \/ CreateWebhookConfig(r) \/ UpdateWebhookConfig(r)
    \/ WebhookConfigConflict(r) \/ Acquire(r)
    \/ CreateCRD(r) \/ UpdateCRD(r) \/ AwaitCRD(r)
    \/ WaitReady(r) \/ ListObjects(r) \/ ConvertObject(r) \/ DropStoredVersion(r)

Next ==
    \/ \E r \in Replicas :
          \/ Start(r) \/ Step(r) \/ Serve(r) \/ StoppedLeading(r) \/ Kill(r)
          \/ Crash(r) \/ Shutdown(r)
    \/ \E i \in CRDs : Establish(i)
    \/ \E o \in Objects : WriteObject(o) \/ DeleteObject(o)

Spec == Init /\ [][Next]_vars

\* Kubernetes restarts a process that has ended and ends one that it stops,
\* the API server establishes definitions, a process takes its steps, and a
\* leader that has lost its lease notices.  The restarts of a process that
\* fails early are delayed more and more, so that a webhook is not always too
\* late.
FairSpec ==
    /\ Spec
    /\ \A r \in Replicas :
          /\ WF_vars(Start(r)) /\ WF_vars(Step(r)) /\ SF_vars(Serve(r))
          /\ WF_vars(StoppedLeading(r)) /\ WF_vars(Kill(r))
    /\ \A i \in CRDs : WF_vars(Establish(i))

-----------------------------------------------------------------------------
\* A resource that is stored as v1alpha1 is accounted for in the definition's
\* stored versions, or a later release that drops v1alpha1 loses it: whatever
\* happens between a converter's list and its last update.
StoredVersionsTell ==
    \A o \in Objects : stored[o] # "none" => stored[o] \in crd[o[1]].versions

\* A webhook that is ready serves the certificate that the configuration names,
\* though replicas make certificates and write the configuration at once.
CertificatesMatch ==
    \A r \in Replicas : hook[r] = "ready" => cert[r] = config.bundle

\* When the controllers of a replica run, nothing is stored as v1alpha1 any
\* more, as long as no converter has given up silently: even when the leader
\* has died, been replaced or lost a race with a user half-way.
ConvertedFirst ==
    (\E r \in Replicas : pc[r] = "running")
        => \A o \in Objects : stored[o] # "v1alpha1"

\* Whatever has happened, some replica comes to run the controllers for good.
ControllersRun == <>[](\E r \in Replicas : leader = r /\ pc[r] = "running")

\* The webhook comes to serve for good: WaitReady waits for it.
WebhookServes == <>[]Available

=============================================================================
