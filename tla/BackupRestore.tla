---------------------------- MODULE BackupRestore ----------------------------
(***************************************************************************)
(* The controllers of AerospikeNamespaceBackup and                         *)
(* AerospikeNamespaceRestore resources (pkg/controller, pkg/backuprestore) *)
(* and the collector of expired backups (pkg/garbagecollector), for the    *)
(* resources of one name and the jobs of BackupTool.                       *)
(*                                                                         *)
(* A controller has a work queue of keys.  A worker takes a key, reads the *)
(* resource from the informer's cache and handles it, one call to the      *)
(* Kubernetes API at a time.  An event on a resource or a job adds the key *)
(* to the queue.  A handler that fails does not: the next event does, at   *)
(* the latest the informer's resync.                                       *)
(***************************************************************************)
EXTENDS BackupTool, FiniteSets

CONSTANTS
    Unset,         \* an optional field that is not given
    Gone,          \* in place of a backupSpec: the cluster has been deleted
    Specs,         \* the specs that users give to resources
    BackupSpecs,   \* the values .spec.backupSpec of the cluster may take
    Deletable,     \* the kinds of resources that users delete
    TempSecrets,   \* the kinds whose credentials are in another namespace
    MaxResources,  \* bound: resources created in all
    MaxSecrets,    \* bound: temporary secrets of a kind at a time
    MaxEdits,      \* bound: changes of the cluster's .spec.backupSpec
    MaxFaults      \* bound: failed calls and crashes of the operator

ASSUME HandlerAssumption ==
    /\ Unset \notin Buckets
    /\ Specs \subseteq [storage : Buckets \cup {Unset}, ttl : {Unset, 0, 1}]
    /\ BackupSpecs \subseteq
           [storage : Buckets, ttl : {Unset, 0, 1}] \cup {Unset, Gone}
    /\ Deletable \subseteq Kinds
    /\ TempSecrets \subseteq Kinds
    /\ {MaxResources, MaxSecrets, MaxEdits, MaxFaults} \subseteq Nat

VARIABLES
    backupSpec,  \* .spec.backupSpec of the target cluster
    res,         \* res[k]: the resource of that kind, as the API server has it
    created,     \* created[k]: how many there have been
    expired,     \* backups whose TTL has passed since their creation
    secrets,     \* secrets[k]: temporary secrets labelled with kind and name
    seen,        \* the informers' copy of res
    seenJob,     \* the informer's copy of the jobs' identities and conditions
    queue,       \* keys in a work queue
    pc,          \* pc[c]: where the worker of controller c is
    obj,         \* obj[c]: its copy of the resource
    temp,        \* temp[k]: the temporary secret it has created
    edits, faults,
    panicked     \* history: the operator has panicked

apiVars == <<backupSpec, res, created, expired, secrets>>
cacheVars == <<seen, seenJob>>
workerVars == <<queue, pc, obj, temp>>
boundVars == <<edits, faults, panicked>>
vars == <<toolVars, apiVars, cacheVars, workerVars, boundVars>>

\* Each controller has a queue of its own; "gc" is the garbage collector's.
Controllers == Kinds \cup (IF "backup" \in Kinds THEN {"gc"} ELSE {})

\* The queues that an event on a resource of kind k goes to.
KeysOf(k) == IF k = "backup" THEN {k, "gc"} ELSE {k}

\* uid 0: no such resource; storage: .status.storage; ver: resourceVersion.
NoSpec == [storage |-> Unset, ttl |-> Unset]
Resource == [uid : 0 .. MaxUids, spec : Specs \cup {NoSpec},
             conds : SUBSET {"Started", "Finished", "Failed"},
             storage : Buckets \cup {Unset}, ver : Nat]
NoResource == [uid |-> 0, spec |-> NoSpec, conds |-> {}, storage |-> Unset,
               ver |-> 0]

Exists(r) == r.uid # 0
\* Variant: any condition ends the request.
EndedEarly(r) == r.conds # {}

Ended(r) == r.conds \cap {"Finished", "Failed"} # {}   \* isFailedOrFinished

JobSeen(j) == [uid |-> j.uid, st |-> j.st]

TypeOK ==
    /\ job \in [Kinds -> Job]
    /\ ran \in [Requests -> {"none", "active", "complete", "failed"}]
    /\ wroteTo \in [Requests -> Buckets \cup {NoBucket}]
    /\ objects \in [Buckets -> [meta : BOOLEAN, data : {"none", "partial", "full"}]]
    /\ restored \in {"none", "partial", "full"}
    /\ backupSpec \in BackupSpecs
    /\ res \in [Kinds -> Resource]
    /\ created \in [Kinds -> 0 .. MaxUids]
    /\ expired \subseteq Uids
    /\ secrets \in [Kinds -> SUBSET (Uids \X (1 .. MaxSecrets))]
    /\ seen \in [Kinds -> Resource]
    /\ seenJob \in [Kinds -> [uid : 0 .. MaxUids,
                             st : {"none", "active", "complete", "failed"}]]
    /\ queue \subseteq Controllers
    /\ pc \in [Controllers -> {"idle", "secret", "job", "status", "sync", "clear",
                               "data", "delete"}]
    /\ obj \in [Controllers -> Resource]
    /\ temp \in [Kinds -> 0 .. MaxSecrets]
    /\ edits \in 0 .. MaxEdits /\ faults \in 0 .. MaxFaults
    /\ panicked \in BOOLEAN

Init ==
    /\ ToolInit
    /\ backupSpec \in BackupSpecs \ {Gone}
    /\ res = [k \in Kinds |-> NoResource]
    /\ created = [k \in Kinds |-> 0]
    /\ expired = {}
    /\ secrets = [k \in Kinds |-> {}]
    /\ seen = res
    /\ seenJob = [k \in Kinds |-> JobSeen(NoJob)]
    /\ queue = {}
    /\ pc = [c \in Controllers |-> "idle"]
    /\ obj = [c \in Controllers |-> NoResource]
    /\ temp = [k \in Kinds |-> 0]
    /\ edits = 0 /\ faults = 0 /\ panicked = FALSE

-----------------------------------------------------------------------------
(* Users, the clock and Kubernetes.                                        *)

\* A resource is admitted if its cluster exists and a storage is known; the
\* webhook rejects changes of its spec.
Create(k) ==
    /\ ~Exists(res[k]) /\ created[k] < MaxUids
    /\ Cardinality({q \in Requests : q[2] <= created[q[1]]}) < MaxResources
    /\ \E spec \in Specs :
          /\ backupSpec # Gone
          /\ spec.storage # Unset \/ backupSpec # Unset
          /\ res' = [res EXCEPT ![k] = [NoResource EXCEPT !.uid = created[k] + 1,
                                                          !.spec = spec]]
    /\ created' = [created EXCEPT ![k] = @ + 1]
    /\ UNCHANGED <<toolVars, backupSpec, expired, secrets, cacheVars, workerVars,
                   boundVars>>

UserDeletes(k) ==
    /\ k \in Deletable /\ Exists(res[k])
    /\ res' = [res EXCEPT ![k] = NoResource]
    /\ UNCHANGED <<toolVars, backupSpec, created, expired, secrets, cacheVars,
                   workerVars, boundVars>>

\* Nothing in the webhook ties .spec.backupSpec to the backups that need it.
EditCluster ==
    /\ edits < MaxEdits /\ backupSpec # Gone
    /\ backupSpec' \in BackupSpecs \ {backupSpec}
    /\ edits' = edits + 1
    /\ UNCHANGED <<toolVars, res, created, expired, secrets, cacheVars, workerVars,
                   faults, panicked>>

Expire(u) ==
    /\ "backup" \in Kinds /\ u \in 1 .. created["backup"] /\ u \notin expired
    /\ \E s \in Specs \cup BackupSpecs : s \notin {Unset, Gone} /\ s.ttl = 1
    /\ expired' = expired \cup {u}
    /\ UNCHANGED <<toolVars, backupSpec, res, created, secrets, cacheVars,
                   workerVars, boundVars>>

\* Jobs and temporary secrets are owned by the resource: Kubernetes deletes
\* them some time after it.
CollectJob(k) ==
    /\ job[k] # NoJob /\ job[k].uid # res[k].uid
    /\ job' = [job EXCEPT ![k] = NoJob]
    /\ UNCHANGED <<ran, wroteTo, objects, restored, apiVars, cacheVars, workerVars,
                   boundVars>>

CollectSecrets(k) ==
    /\ \E s \in secrets[k] : s[1] # res[k].uid
    /\ secrets' = [secrets EXCEPT ![k] = {s \in @ : s[1] = res[k].uid}]
    /\ UNCHANGED <<toolVars, backupSpec, res, created, expired, cacheVars,
                   workerVars, boundVars>>

\* A pod starts once the secret that it mounts is there.
Mounted(k) == job[k].secret = 0 \/ <<job[k].uid, job[k].secret>> \in secrets[k]

JobStep(k) ==
    /\ Mounted(k) \/ job[k].at # "meta"
    /\ ToolStep(k)
    /\ UNCHANGED <<apiVars, cacheVars, workerVars, boundVars>>

-----------------------------------------------------------------------------
(* Informers and work queues.  A deletion is no event for the controllers, *)
(* and a resync is one for resources but not for jobs.                     *)

Enqueue(keys) == queue' = queue \cup keys

ResourceEvent(k) ==
    /\ seen[k] # res[k]
    /\ seen' = [seen EXCEPT ![k] = res[k]]
    /\ Enqueue(IF Exists(res[k]) THEN KeysOf(k) ELSE {})
    /\ UNCHANGED <<toolVars, apiVars, seenJob, pc, obj, temp, boundVars>>

\* handleObject looks the owner up in the informer's cache, by name.
JobEvent(k) ==
    /\ seenJob[k] # JobSeen(job[k])
    /\ seenJob' = [seenJob EXCEPT ![k] = JobSeen(job[k])]
    /\ Enqueue(IF job[k] # NoJob /\ Exists(seen[k]) THEN {k} ELSE {})
    /\ UNCHANGED <<toolVars, apiVars, seen, pc, obj, temp, boundVars>>

\* Variant: the resync only reaches the garbage collector.
ResyncCollector(k) ==
    /\ Exists(seen[k]) /\ ~KeysOf(k) \ {k} \subseteq queue
    /\ Enqueue(KeysOf(k) \ {k})
    /\ UNCHANGED <<toolVars, apiVars, cacheVars, pc, obj, temp, boundVars>>

Resync(k) ==
    /\ Exists(seen[k]) /\ ~KeysOf(k) \subseteq queue
    /\ Enqueue(KeysOf(k))
    /\ UNCHANGED <<toolVars, apiVars, cacheVars, pc, obj, temp, boundVars>>

\* Get: a key that is being processed stays in the queue until Done.
Get(c) ==
    /\ c \in queue /\ pc[c] = "idle"
    /\ queue' = queue \ {c}

\* Done.  An error changes nothing else: the key is not added again.
Return(c) ==
    /\ pc' = [pc EXCEPT ![c] = "idle"]
    /\ obj' = [obj EXCEPT ![c] = NoResource]
    /\ temp' = [k \in Kinds |-> IF k = c THEN 0 ELSE temp[k]]

Goto(c, step) == pc' = [pc EXCEPT ![c] = step]

-----------------------------------------------------------------------------
(* Handle of pkg/backuprestore.                                            *)

\* The storage of the resource or, if it has none, of its cluster.
StorageOf(r) == IF r.spec.storage # Unset THEN r.spec.storage
                ELSE backupSpec.storage

\* TTLs are compared as pointers: two copies of one always differ.
SyncStatusWithSpec(r) == r.storage # r.spec.storage \/ r.spec.ttl # Unset

\* maybeSetConditions, for the job that has the right name.
JobConditions(k) ==
    CASE seenJob[k].st = "complete" -> {"Finished"}
      [] seenJob[k].st = "failed" -> {"Failed"}
      [] OTHER -> {}

HandleEnded(k) ==
    LET r == seen[k]
    IN  /\ Exists(r) /\ Ended(r)
        /\ Goto(k, IF SyncStatusWithSpec(r) THEN "sync" ELSE "clear")
        /\ obj' = [obj EXCEPT ![k] = [r EXCEPT !.storage = r.spec.storage]]
        /\ UNCHANGED temp

HandleRunning(k) ==
    LET r == seen[k]
    IN  /\ Exists(r) /\ ~Ended(r)
        /\ r.spec.storage # Unset \/ backupSpec \notin {Unset, Gone}
        /\ Goto(k, IF seenJob[k].st = "none" THEN "secret" ELSE "status")
        /\ obj' = [obj EXCEPT ![k] =
                      [r EXCEPT !.storage = StorageOf(r),
                                !.conds = @ \cup JobConditions(k)]]
        /\ UNCHANGED temp

\* The resource is gone, or it needs the storage of a cluster that is.
HandleNothing(k) ==
    /\ \/ ~Exists(seen[k])
       \/ ~Ended(seen[k]) /\ seen[k].spec.storage = Unset /\ backupSpec = Gone
    /\ UNCHANGED <<pc, obj, temp>>

Begin(k) ==
    /\ Get(k)
    /\ HandleEnded(k) \/ HandleRunning(k) \/ HandleNothing(k)
    /\ UNCHANGED <<toolVars, apiVars, cacheVars, boundVars>>

\* Names that Kubernetes may generate for a temporary secret.
FreshSecrets(k) ==
    {i \in 1 .. MaxSecrets : i # job[k].secret /\ \A s \in secrets[k] : s[2] # i}

CreateTempSecret(k) ==
    \E i \in FreshSecrets(k) :
        /\ \A j \in FreshSecrets(k) : i <= j
        /\ secrets' = [secrets EXCEPT ![k] = @ \cup {<<obj[k].uid, i>>}]
        /\ temp' = [temp EXCEPT ![k] = i]
        /\ Goto(k, "job") /\ UNCHANGED obj

GetSecret(k) ==
    /\ pc[k] = "secret"
    /\ IF k \notin TempSecrets THEN Goto(k, "job") /\ UNCHANGED <<secrets, obj, temp>>
       ELSE IF FreshSecrets(k) = {} THEN Return(k) /\ UNCHANGED secrets
       ELSE CreateTempSecret(k)
    /\ UNCHANGED <<toolVars, backupSpec, res, created, expired, cacheVars, queue,
                   boundVars>>

\* Variant: no condition Started is appended.
CreateJobUnnoted(k) ==
    /\ pc[k] = "job"
    /\ LaunchJob(k, obj[k].uid, obj[k].storage, temp[k])
    /\ Goto(k, "status")
    /\ UNCHANGED <<apiVars, cacheVars, queue, obj, temp, boundVars>>

CreateJob(k) ==
    /\ pc[k] = "job"
    /\ LaunchJob(k, obj[k].uid, obj[k].storage, temp[k])
    /\ obj' = [obj EXCEPT ![k].conds = @ \cup {"Started"}]
    /\ Goto(k, "status")
    /\ UNCHANGED <<apiVars, cacheVars, queue, temp, boundVars>>

JobAlreadyExists(k) ==
    /\ pc[k] = "job" /\ job[k] # NoJob
    /\ Return(k)
    /\ UNCHANGED <<toolVars, apiVars, cacheVars, queue, boundVars>>

\* UpdateStatus is refused when the resource is not the one that was read.
Current(c) == res[c].uid = obj[c].uid /\ res[c].ver = obj[c].ver

StatusOf(c) ==
    LET new == [res[c] EXCEPT !.conds = obj[c].conds, !.storage = obj[c].storage]
    IN  IF new = res[c] THEN new ELSE [new EXCEPT !.ver = @ + 1]

\* Variant: Handle returns once the status is written.
UpdateStatusOnly(k) ==
    /\ pc[k] \in {"status", "sync"} /\ Current(k)
    /\ res' = [res EXCEPT ![k] = StatusOf(k)]
    /\ Return(k)
    /\ UNCHANGED <<toolVars, backupSpec, created, expired, secrets, cacheVars,
                   queue, boundVars>>

UpdateStatus(k) ==
    /\ pc[k] \in {"status", "sync"} /\ Current(k)
    /\ res' = [res EXCEPT ![k] = StatusOf(k)]
    /\ IF pc[k] = "sync" THEN Goto(k, "clear") /\ UNCHANGED <<obj, temp>>
       ELSE Return(k)
    /\ UNCHANGED <<toolVars, backupSpec, created, expired, secrets, cacheVars,
                   queue, boundVars>>

UpdateStatusConflict(k) ==
    /\ pc[k] \in {"status", "sync"} /\ ~Current(k)
    /\ Return(k)
    /\ UNCHANGED <<toolVars, apiVars, cacheVars, queue, boundVars>>

ClearSecrets(k) ==
    /\ pc[k] = "clear"
    /\ secrets' = [secrets EXCEPT ![k] = {}]
    /\ Return(k)
    /\ UNCHANGED <<toolVars, backupSpec, res, created, expired, cacheVars, queue,
                   boundVars>>

-----------------------------------------------------------------------------
(* Handle of pkg/garbagecollector, for backups.                            *)

TTLOf(r) == IF r.spec.ttl # Unset \/ backupSpec = Unset THEN r.spec.ttl
            ELSE backupSpec.ttl

\* Nothing but the age of the resource and its TTL is looked at.
HasExpired(r) ==
    Exists(r) /\ backupSpec # Gone /\ TTLOf(r) = 1 /\ r.uid \in expired

BeginCollect ==
    LET r == seen["backup"]
    IN  /\ Get("gc")
        /\ HasExpired(r)
        /\ r.spec.storage # Unset \/ backupSpec # Unset
        /\ obj' = [obj EXCEPT !["gc"] = [r EXCEPT !.storage = StorageOf(r)]]
        /\ Goto("gc", "data")
        /\ UNCHANGED <<toolVars, apiVars, cacheVars, temp, boundVars>>

CollectNothing ==
    /\ Get("gc")
    /\ ~HasExpired(seen["backup"])
    /\ UNCHANGED <<toolVars, apiVars, cacheVars, pc, obj, temp, boundVars>>

\* Variant: only the metadata is deleted.
DeleteMetadata ==
    /\ pc["gc"] = "data"
    /\ objects' = [objects EXCEPT ![obj["gc"].storage].meta = FALSE]
    /\ Goto("gc", "delete")
    /\ UNCHANGED <<job, ran, wroteTo, restored, apiVars, cacheVars, queue, obj,
                   temp, boundVars>>

\* Variant: the backup stays if its data could not be deleted.
DeleteDataOrReturn ==
    LET b == obj["gc"].storage
    IN  /\ pc["gc"] = "data"
        /\ IF objects[b].meta
           THEN /\ objects' = [objects EXCEPT ![b] = NoObjects]
                /\ Goto("gc", "delete") /\ UNCHANGED <<obj, temp>>
           ELSE Return("gc") /\ UNCHANGED objects
        /\ UNCHANGED <<job, ran, wroteTo, restored, apiVars, cacheVars, queue,
                       boundVars>>

\* deleteBackupDataGCS: the metadata first, and the data only if that worked.
\* Whether it did is logged and does not matter.
DeleteBackupData ==
    LET b == obj["gc"].storage
    IN  /\ pc["gc"] = "data"
        /\ objects' = IF objects[b].meta
                      THEN [objects EXCEPT ![b] = NoObjects]
                      ELSE objects
        /\ Goto("gc", "delete")
        /\ UNCHANGED <<job, ran, wroteTo, restored, apiVars, cacheVars, queue, obj,
                       temp, boundVars>>

DeleteBackup ==
    /\ pc["gc"] = "delete"
    /\ res' = [res EXCEPT !["backup"] = NoResource]
    /\ Return("gc")
    /\ UNCHANGED <<toolVars, backupSpec, created, expired, secrets, cacheVars,
                   queue, boundVars>>

-----------------------------------------------------------------------------
(* Failures.                                                               *)

\* The operator starts again: it lists the resources before it handles any,
\* but does not wait for the jobs.
Restart ==
    /\ seen' = res
    /\ seenJob' = [k \in Kinds |-> JobSeen(NoJob)]
    /\ queue' = UNION {KeysOf(k) : k \in {k \in Kinds : Exists(res[k])}}
    /\ pc' = [c \in Controllers |-> "idle"]
    /\ obj' = [c \in Controllers |-> NoResource]
    /\ temp' = [k \in Kinds |-> 0]

Crash ==
    /\ faults < MaxFaults
    /\ faults' = faults + 1
    /\ Restart
    /\ UNCHANGED <<toolVars, apiVars, edits, panicked>>

\* A call to the Kubernetes API fails, or one of clearSecrets's does.
CallFails(c) ==
    /\ faults < MaxFaults /\ pc[c] \notin {"idle", "data"}
    /\ faults' = faults + 1
    /\ IF pc[c] = "clear"
       THEN \E left \in SUBSET secrets[c] : secrets' = [secrets EXCEPT ![c] = left]
       ELSE UNCHANGED secrets
    /\ Return(c)
    /\ UNCHANGED <<toolVars, backupSpec, res, created, expired, cacheVars, queue,
                   edits, panicked>>

\* The collector cannot delete the objects, or only the metadata.
DataNotDeleted ==
    LET b == obj["gc"].storage
    IN  /\ "gc" \in Controllers /\ pc["gc"] = "data" /\ faults < MaxFaults
        /\ faults' = faults + 1
        /\ \E meta \in BOOLEAN :
              /\ meta => objects[b].meta
              /\ objects' = [objects EXCEPT ![b].meta = meta]
        /\ Goto("gc", "delete")
        /\ UNCHANGED <<job, ran, wroteTo, restored, apiVars, cacheVars, queue, obj,
                       temp, edits, panicked>>

\* The storage of a backupSpec that is no longer there: a nil dereference,
\* which ends the whole operator.
NeedsBackupSpec(c) ==
    IF c = "gc" THEN HasExpired(seen["backup"])
    ELSE Exists(seen[c]) /\ ~Ended(seen[c])

Panic(c) ==
    /\ c \in queue /\ pc[c] = "idle"
    /\ NeedsBackupSpec(c) /\ backupSpec = Unset
    /\ seen[IF c = "gc" THEN "backup" ELSE c].spec.storage = Unset
    /\ Restart
    /\ panicked' = TRUE
    /\ UNCHANGED <<toolVars, apiVars, edits, faults>>

-----------------------------------------------------------------------------

Worker(c) ==
    \/ Panic(c)
    \/ /\ c \in Kinds
       /\ \/ Begin(c) \/ GetSecret(c) \/ CreateJob(c) \/ JobAlreadyExists(c)
          \/ UpdateStatus(c) \/ UpdateStatusConflict(c) \/ ClearSecrets(c)
    \/ /\ c = "gc"
       /\ BeginCollect \/ CollectNothing \/ DeleteBackupData \/ DeleteBackup

Kubernetes(k) == CollectJob(k) \/ CollectSecrets(k)

Next ==
    \/ \E k \in Kinds :
          \/ Create(k) \/ UserDeletes(k)
          \/ Kubernetes(k) \/ JobStep(k)
          \/ ResourceEvent(k) \/ JobEvent(k) \/ Resync(k)
    \/ \E c \in Controllers : Worker(c) \/ CallFails(c)
    \/ EditCluster \/ DataNotDeleted \/ Crash
    \/ \E u \in Uids : Expire(u)

Spec == Init /\ [][Next]_vars

\* Informers deliver and resync, a worker goes on with its key and a free one
\* takes the next, jobs run and Kubernetes collects what is owned by nobody.
FairSpec ==
    /\ Spec
    /\ \A c \in Controllers : WF_vars(Worker(c))
    /\ \A k \in Kinds :
          /\ WF_vars(ResourceEvent(k)) /\ WF_vars(JobEvent(k))
          /\ WF_vars(Resync(k))
          /\ WF_vars(JobStep(k))
          /\ WF_vars(CollectJob(k)) /\ WF_vars(CollectSecrets(k))

-----------------------------------------------------------------------------
(* What must hold.                                                         *)

\* What the resource of a request tells.
ReportOf(k, u) ==
    IF u > created[k] THEN "none"
    ELSE IF u # res[k].uid THEN "deleted"
    ELSE IF "Finished" \in res[k].conds THEN "complete"
    ELSE IF "Failed" \in res[k].conds THEN "failed" ELSE "asked"

Request == INSTANCE BackupRequest
             WITH report <- [q \in Requests |-> ReportOf(q[1], q[2])],
                  op <- ran

\* The handler implements BackupRequest: through lagging caches, failed
\* calls, conflicts and crashes, one job is created for a resource as long
\* as it exists, and a condition Finished or Failed is appended only when
\* that job has succeeded or failed, and for good.
OneJobPerRequest == Request!Spec

\* As long as the job of a resource runs, the temporary secret that its pods
\* mount is there: clearSecrets deletes every secret of that name.
SecretIsMounted ==
    \A k \in Kinds :
        job[k].st = "active" /\ job[k].uid = res[k].uid => Mounted(k)

\* A backup that is reported as finished, and has not expired, is in the
\* bucket, with its metadata: whatever pods of its job have failed before, and
\* wherever the cluster's backupSpec points by then.
FinishedIsUploaded ==
    "backup" \in Kinds =>
        LET r == res["backup"]
        IN  "Finished" \in r.conds /\ r.uid \notin expired =>
                objects[wroteTo[<<"backup", r.uid>>]] = Uploaded

\* Unless a call fails, or the operator crashes or panics, between the creation
\* of the job and the write of the status, a resource that has ended names its
\* job in a condition Started.
StartedIsKept ==
    faults = 0 /\ ~panicked =>
        \A k \in Kinds : Ended(res[k]) => "Started" \in res[k].conds

\* When the collector deletes a backup that had ended when it looked at it, the
\* data is no longer in the bucket, provided that no call has failed, that the
\* operator has not stopped and that the storage is the resource's own or has
\* not been changed.
DataGoesWithBackup ==
    [][LET r == obj["gc"]
       IN  /\ pc["gc"] = "delete" /\ pc'["gc"] = "idle"
           /\ Ended(r) /\ r.uid = res["backup"].uid
           /\ faults' = 0 /\ ~panicked' /\ (edits = 0 \/ r.spec.storage # Unset)
           => objects[wroteTo[<<"backup", r.uid>>]].data = "none"]_vars

StorageKnown(k) == res[k].spec.storage # Unset \/ backupSpec \notin {Unset, Gone}

\* A resource gets a condition Finished or Failed, or is deleted, if its
\* storage stays known: a handler that has failed is called again by the
\* resync, although its key is not put back in the queue.
EveryRequestEnds ==
    \A k \in Kinds :
        <>[]StorageKnown(k) =>
            ((Exists(res[k]) /\ ~Ended(res[k])) ~> (~Exists(res[k]) \/ Ended(res[k])))

\* In the end nothing is left of the credentials that were copied for jobs
\* that have ended, those copied in vain because the job existed included.
SecretsGo ==
    \A k \in Kinds :
        <>[]StorageKnown(k) => <>[](~Exists(res[k]) \/ Ended(res[k]) => secrets[k] = {})

\* A backup whose TTL has passed is deleted, unless its cluster is, or loses
\* its backupSpec.
ExpiredGoes ==
    "backup" \in Kinds =>
        (HasExpired(res["backup"]) ~>
            (~HasExpired(res["backup"]) \/ backupSpec \in {Unset, Gone}))

=============================================================================
