------------------------- MODULE BackupRestoreProofs -------------------------
(***************************************************************************)
(* Proofs about BackupRestore, for any buckets, specs, TTLs, edits, faults *)
(* and lost pods.                                                          *)
(***************************************************************************)
EXTENDS BackupRestore, TLAPS

(***************************************************************************)
(* The parts of the type invariant.                                        *)
(***************************************************************************)

\* The jobs and the buckets.
ToolOK ==
    /\ job \in [Kinds -> Job]
    /\ ran \in [Requests -> {"none", "active", "complete", "failed"}]
    /\ wroteTo \in [Requests -> Buckets \cup {NoBucket}]
    /\ objects \in [Buckets -> [meta : BOOLEAN, data : {"none", "partial", "full"}]]
    /\ restored \in {"none", "partial", "full"}

\* The API server.
ApiOK ==
    /\ backupSpec \in BackupSpecs
    /\ res \in [Kinds -> Resource]
    /\ created \in [Kinds -> 0 .. MaxUids]
    /\ expired \subseteq Uids
    /\ secrets \in [Kinds -> SUBSET (Uids \X (1 .. MaxSecrets))]

\* The informers.
CacheOK ==
    /\ seen \in [Kinds -> Resource]
    /\ seenJob \in [Kinds -> [uid : 0 .. MaxUids,
                              st : {"none", "active", "complete", "failed"}]]

Steps == {"idle", "secret", "job", "status", "sync", "clear", "data", "delete"}

\* The workers.
WorkerOK ==
    /\ queue \subseteq Controllers
    /\ pc \in [Controllers -> Steps]
    /\ obj \in [Controllers -> Resource]
    /\ temp \in [Kinds -> 0 .. MaxSecrets]

\* The bounds.
BoundOK ==
    edits \in 0 .. MaxEdits /\ faults \in 0 .. MaxFaults /\ panicked \in BOOLEAN

\* Together they are the type invariant, before and after a step.
LEMMA TypeParts ==
    /\ TypeOK <=> ToolOK /\ ApiOK /\ CacheOK /\ WorkerOK /\ BoundOK
    /\ TypeOK' <=> ToolOK' /\ ApiOK' /\ CacheOK' /\ WorkerOK' /\ BoundOK'
BY DEF TypeOK, ToolOK, ApiOK, CacheOK, WorkerOK, BoundOK, Steps

\* What a worker's copy of a resource holds where it is: a bucket to give to
\* the job, an end to tidy up after.  A running job has a bucket.
LocalsInv ==
    /\ \A k \in Kinds :
          /\ pc[k] \notin {"data", "delete"}
          /\ pc[k] \in {"secret", "job"} => obj[k].storage \in Buckets
          /\ pc[k] \in {"sync", "clear"} => Ended(obj[k])
          /\ job[k].st = "active" => job[k].bucket \in Buckets
    /\ "gc" \in Controllers => pc["gc"] \in {"idle", "data", "delete"}
    /\ \A c \in Controllers : pc[c] # "idle" => obj[c].uid \in Uids

(***************************************************************************)
(* Facts about the model's operators.                                      *)
(***************************************************************************)

\* A controller is that of a kind, or the collector of backups.
LEMMA ControllersAre ==
    /\ "gc" \notin Kinds
    /\ Kinds \subseteq Controllers
    /\ \A c \in Controllers : c \in Kinds \/ (c = "gc" /\ "backup" \in Kinds)
    /\ "backup" \in Kinds => "gc" \in Controllers
    /\ \A k \in Kinds : KeysOf(k) \subseteq Controllers
BY ToolAssumption DEF Controllers, KeysOf

\* What the steps write into a copy of a resource.
LEMMA ResourceWrites ==
    /\ NoResource \in Resource
    /\ \A r \in Resource, s \in Buckets \cup {Unset} :
          [r EXCEPT !.storage = s] \in Resource
    /\ \A r \in Resource, s \in Buckets \cup {Unset},
          cs \in SUBSET {"Started", "Finished", "Failed"} :
          [r EXCEPT !.storage = s, !.conds = cs] \in Resource
    /\ \A r \in Resource, cs \in SUBSET {"Started", "Finished", "Failed"} :
          [r EXCEPT !.conds = cs] \in Resource
    /\ \A r \in Resource : [r EXCEPT !.ver = @ + 1] \in Resource
<1>1. NoResource \in Resource
  <2>1. 0 \in 0 .. MaxUids
    BY ToolAssumption
  <2>2. QED
    BY <2>1 DEF NoResource, Resource
<1>2. ASSUME NEW r \in Resource, NEW s \in Buckets \cup {Unset}
      PROVE  [r EXCEPT !.storage = s] \in Resource
  BY DEF Resource
<1>3. ASSUME NEW r \in Resource, NEW cs \in SUBSET {"Started", "Finished", "Failed"}
      PROVE  [r EXCEPT !.conds = cs] \in Resource
  BY DEF Resource
<1>4. ASSUME NEW r \in Resource, NEW s \in Buckets \cup {Unset},
             NEW cs \in SUBSET {"Started", "Finished", "Failed"}
      PROVE  [r EXCEPT !.storage = s, !.conds = cs] \in Resource
  BY DEF Resource
<1>5. ASSUME NEW r \in Resource
      PROVE  [r EXCEPT !.ver = @ + 1] \in Resource
  BY DEF Resource
<1>6. QED
  BY <1>1, <1>2, <1>3, <1>4, <1>5

\* The storage of a spec, of a resource or of a cluster, is a bucket or unset.
LEMMA StorageTypes ==
    /\ \A r \in Resource : r.spec.storage \in Buckets \cup {Unset}
    /\ \A s \in BackupSpecs : s \notin {Unset, Gone} => s.storage \in Buckets
BY HandlerAssumption DEF Resource, NoSpec

LEMMA NoJobType == NoJob \in Job /\ NoJob.st = "none" /\ NoJob.uid = 0 /\ NoJob.secret = 0
<1>1. 0 \in 0 .. MaxUids /\ 0 \in 0 .. BackoffLimit /\ 0 \in Nat
  BY ToolAssumption
<1>2. QED
  BY <1>1 DEF NoJob, Job

(***************************************************************************)
(* Steps of a job.                                                         *)
(***************************************************************************)

\* A step that is not the last: only the job's pod changes.
JobGoesOn(k) ==
    /\ job' = [job EXCEPT ![k] = job'[k]]
    /\ job'[k] \in Job
    /\ \A f \in {"uid", "st", "bucket", "secret"} : job'[k][f] = job[k][f]
    /\ ran' = ran /\ wroteTo' = wroteTo

\* The last one: the job has an outcome.
JobHasEnded(k) ==
    /\ job' = [job EXCEPT ![k] = job'[k]]
    /\ job'[k] \in Job
    /\ \A f \in {"uid", "bucket", "secret"} : job'[k][f] = job[k][f]
    /\ job'[k].st \in {"complete", "failed"}
    /\ ran' = [ran EXCEPT ![<<k, job[k].uid>>] = job'[k].st] /\ wroteTo' = wroteTo

LEMMA MovesOn ==
    ASSUME ToolOK, NEW k \in Kinds, NEW at \in {"meta", "data", "exit", "dead"},
           Moves(k, at)
    PROVE  JobGoesOn(k) /\ job'[k].at = at
<1>1. job[k] \in Job
  BY DEF ToolOK
<1>2. [job[k] EXCEPT !.at = at] \in Job
  BY <1>1 DEF Job
<1>3. job' = [job EXCEPT ![k] = [job[k] EXCEPT !.at = at]]
  BY DEF Moves
<1>4. job'[k] = [job[k] EXCEPT !.at = at] /\ job' = [job EXCEPT ![k] = job'[k]]
  BY <1>3 DEF ToolOK
<1>5. job'[k].at = at /\ \A f \in {"uid", "st", "bucket", "secret"} : job'[k][f] = job[k][f]
  BY <1>1, <1>4 DEF Job
<1>6. QED
  BY <1>2, <1>4, <1>5 DEF JobGoesOn, Moves

LEMMA EndsWith ==
    ASSUME ToolOK, NEW k \in Kinds, NEW st \in {"complete", "failed"}, JobEnds(k, st)
    PROVE  JobHasEnded(k) /\ job'[k].st = st
<1>1. job[k] \in Job
  BY DEF ToolOK
<1> DEFINE j == [job[k] EXCEPT !.st = st, !.at = "meta"]
<1>2. j \in Job
  BY <1>1 DEF Job
<1>3. job' = [job EXCEPT ![k] = j]
  BY DEF JobEnds, ToolOK
<1>4. job'[k] = j /\ job' = [job EXCEPT ![k] = job'[k]]
  BY <1>3 DEF ToolOK
<1>5. job'[k].st = st /\ \A f \in {"uid", "bucket", "secret"} : job'[k][f] = job[k][f]
  BY <1>1, <1>4 DEF Job
<1>6. QED
  BY <1>2, <1>4, <1>5 DEF JobHasEnded, JobEnds

LEMMA FailsOn ==
    ASSUME ToolOK, NEW k \in Kinds, PodFails(k)
    PROVE  \/ JobGoesOn(k) /\ job'[k].at = "meta"
           \/ JobHasEnded(k) /\ job'[k].st = "failed"
<1>1. CASE job[k].fails = BackoffLimit
  BY <1>1, EndsWith DEF PodFails
<1>2. CASE job[k].fails # BackoffLimit
  <2>1. job[k] \in Job
    BY DEF ToolOK
  <2> DEFINE j == [job[k] EXCEPT !.fails = @ + 1, !.at = "meta"]
  <2>2. job[k].fails + 1 \in 0 .. BackoffLimit
    BY <1>2, <2>1, ToolAssumption DEF Job
  <2>3. j \in Job
    BY <2>1, <2>2 DEF Job
  <2>4. job' = [job EXCEPT ![k] = j] /\ ran' = ran /\ wroteTo' = wroteTo
    BY <1>2 DEF PodFails, ToolOK
  <2>5. job'[k] = j /\ job' = [job EXCEPT ![k] = job'[k]]
    BY <2>4 DEF ToolOK
  <2>6. job'[k].at = "meta" /\ \A f \in {"uid", "st", "bucket", "secret"} : job'[k][f] = job[k][f]
    BY <2>1, <2>5 DEF Job
  <2>7. QED
    BY <2>3, <2>4, <2>5, <2>6 DEF JobGoesOn
<1>3. QED
  BY <1>1, <1>2

\* Whatever the tool does, its job goes on or ends.
LEMMA JobProgress ==
    ASSUME ToolOK, NEW k \in Kinds, ToolStep(k)
    PROVE  job[k].st = "active" /\ (JobGoesOn(k) \/ JobHasEnded(k))
<1>1. CASE DumpMetadata(k)
  BY <1>1, MovesOn DEF DumpMetadata, PodAt
<1>2. CASE TransferToGCS(k)
  BY <1>2, MovesOn DEF TransferToGCS, PodAt
<1>3. CASE TransferCut(k)
  BY <1>3, MovesOn DEF TransferCut, PodAt
<1>4. CASE ReadMetadata(k)
  BY <1>4, MovesOn, FailsOn DEF ReadMetadata, PodAt
<1>5. CASE TransferFromGCS(k)
  BY <1>5, MovesOn, FailsOn DEF TransferFromGCS, PodAt
<1>6. CASE RestoreCut(k)
  BY <1>6, MovesOn DEF RestoreCut, PodAt
<1>7. CASE ToolSucceeds(k)
  BY <1>7, EndsWith DEF ToolSucceeds, PodAt
<1>8. CASE PodLost(k)
  BY <1>8, FailsOn DEF PodLost
<1>9. QED
  BY <1>1, <1>2, <1>3, <1>4, <1>5, <1>6, <1>7, <1>8 DEF ToolStep

\* What a step of a job leaves typed: everything the tool has.
LEMMA ToolStepType ==
    ASSUME ToolOK, LocalsInv, NEW k \in Kinds, ToolStep(k)
    PROVE  ToolOK' /\ \A j \in Kinds : job'[j].st = "active" => job'[j].bucket \in Buckets
<1>1. job[k].st = "active" /\ job[k].bucket \in Buckets /\ (JobGoesOn(k) \/ JobHasEnded(k))
  BY JobProgress DEF LocalsInv
<1>2. /\ job' \in [Kinds -> Job]
      /\ ran' \in [Requests -> {"none", "active", "complete", "failed"}]
      /\ wroteTo' \in [Requests -> Buckets \cup {NoBucket}]
  BY <1>1 DEF JobGoesOn, JobHasEnded, ToolOK
<1>3. \A j \in Kinds : job'[j].st = "active" => job'[j].bucket \in Buckets
  BY <1>1 DEF JobGoesOn, JobHasEnded, LocalsInv, ToolOK
<1> DEFINE b == job[k].bucket
           Object == [meta : BOOLEAN, data : {"none", "partial", "full"}]
<1>4. objects[b] \in Object /\ objects \in [Buckets -> Object]
  BY <1>1 DEF ToolOK
<1>5. ASSUME NEW o \in Object, objects' \in Written(k, o)
      PROVE  objects' \in [Buckets -> Object]
  BY <1>4, <1>5 DEF Written
<1>6. /\ [objects[b] EXCEPT !.meta = TRUE] \in Object
      /\ [objects[b] EXCEPT !.data = "full"] \in Object
      /\ [objects[b] EXCEPT !.data = "partial"] \in Object
  BY <1>4
<1>7. objects' \in [Buckets -> Object]
  BY <1>4, <1>5, <1>6
     DEF ToolStep, DumpMetadata, TransferToGCS, TransferCut, ReadMetadata,
         TransferFromGCS, RestoreCut, ToolSucceeds, PodLost
<1>8. restored' \in {"none", "partial", "full"}
  <2>1. objects[b].data \in {"none", "partial", "full"}
    BY <1>4
  <2>2. restored \in {"none", "partial", "full"}
    BY DEF ToolOK
  <2>3. QED
    BY <2>1, <2>2
       DEF ToolStep, DumpMetadata, TransferToGCS, TransferCut, ReadMetadata,
           TransferFromGCS, RestoreCut, ToolSucceeds, PodLost
<1>9. QED
  BY <1>2, <1>3, <1>7, <1>8 DEF ToolOK

(***************************************************************************)
(* Type correctness.                                                       *)
(***************************************************************************)

\* The worker of c comes back, the others stay where they are.
LEMMA ReturnFacts ==
    ASSUME WorkerOK, NEW c \in Controllers, Return(c)
    PROVE  /\ pc' \in [Controllers -> Steps] /\ obj' \in [Controllers -> Resource]
           /\ temp' \in [Kinds -> 0 .. MaxSecrets]
           /\ pc'[c] = "idle"
           /\ \A d \in Controllers \ {c} : pc'[d] = pc[d] /\ obj'[d] = obj[d]
<1>1. NoResource \in Resource
  BY ResourceWrites
<1>2. 0 \in 0 .. MaxSecrets
  BY HandlerAssumption
<1>3. pc' \in [Controllers -> Steps] /\ pc'[c] = "idle"
      /\ \A d \in Controllers \ {c} : pc'[d] = pc[d]
  BY DEF Return, WorkerOK, Steps
<1>4. obj' \in [Controllers -> Resource] /\ \A d \in Controllers \ {c} : obj'[d] = obj[d]
  BY <1>1 DEF Return, WorkerOK
<1>5. temp' \in [Kinds -> 0 .. MaxSecrets]
  BY <1>2 DEF Return, WorkerOK
<1>6. QED
  BY <1>3, <1>4, <1>5

\* The operator starts again: every worker is idle.
LEMMA RestartFacts ==
    ASSUME ApiOK, Restart
    PROVE  CacheOK' /\ WorkerOK' /\ \A c \in Controllers : pc'[c] = "idle"
<1>0. 0 \in 0 .. MaxUids
  BY ToolAssumption
<1>1. NoResource \in Resource /\ JobSeen(NoJob) \in
         [uid : 0 .. MaxUids, st : {"none", "active", "complete", "failed"}]
  BY <1>0, ResourceWrites, NoJobType DEF JobSeen
<1>2. 0 \in 0 .. MaxSecrets
  BY HandlerAssumption
<1>3. CacheOK'
  BY <1>1 DEF Restart, CacheOK, ApiOK
<1>4. queue' \subseteq Controllers
  BY ControllersAre DEF Restart
<1>5. QED
  BY <1>1, <1>2, <1>3, <1>4 DEF Restart, WorkerOK, Steps

\* Steps that leave the workers and the jobs alone keep the locals.
LEMMA LocalsKept ==
    ASSUME LocalsInv, UNCHANGED <<pc, obj>>,
           \A k \in Kinds : job'[k].st = "active" => job'[k].bucket \in Buckets
    PROVE  LocalsInv'
BY DEF LocalsInv, Ended

\* So does a worker's return.
LEMMA LocalsReturned ==
    ASSUME WorkerOK, LocalsInv, NEW c \in Controllers, Return(c), UNCHANGED job
    PROVE  LocalsInv'
<1>1. /\ pc'[c] = "idle"
      /\ \A d \in Controllers \ {c} : pc'[d] = pc[d] /\ obj'[d] = obj[d]
  BY ReturnFacts
<1>2. \A d \in Controllers : pc'[d] = "idle" \/ (pc'[d] = pc[d] /\ obj'[d] = obj[d])
  BY <1>1
<1>3. ASSUME NEW k \in Kinds
      PROVE  /\ pc'[k] \notin {"data", "delete"}
             /\ pc'[k] \in {"secret", "job"} => obj'[k].storage \in Buckets
             /\ pc'[k] \in {"sync", "clear"} => Ended(obj[k])'
             /\ job'[k].st = "active" => job'[k].bucket \in Buckets
  BY <1>2, ControllersAre DEF LocalsInv, Ended
<1>4. QED
  BY <1>2, <1>3 DEF LocalsInv

LEMMA InitType == Init => TypeOK /\ LocalsInv
<1> SUFFICES ASSUME Init PROVE TypeOK /\ LocalsInv
  OBVIOUS
<1>1. /\ 0 \in 0 .. MaxUids /\ 0 \in 0 .. MaxSecrets
      /\ 0 \in 0 .. MaxEdits /\ 0 \in 0 .. MaxFaults
  BY ToolAssumption, HandlerAssumption
<1>2. ToolOK
  <2>1. /\ NoObjects \in [meta : BOOLEAN, data : {"none", "partial", "full"}]
        /\ Uploaded \in [meta : BOOLEAN, data : {"none", "partial", "full"}]
    BY Zenon DEF NoObjects, Uploaded
  <2>2. objects \in [Buckets -> [meta : BOOLEAN, data : {"none", "partial", "full"}]]
    BY <2>1 DEF Init, ToolInit
  <2>3. QED
    BY <2>2, NoJobType DEF Init, ToolInit, ToolOK
<1>3. ApiOK
  BY <1>1, ResourceWrites DEF Init, ApiOK
<1>4. CacheOK
  BY <1>1, ResourceWrites, NoJobType DEF Init, CacheOK, JobSeen
<1>5. WorkerOK
  BY <1>1, ResourceWrites DEF Init, WorkerOK, Steps
<1>6. BoundOK
  BY <1>1 DEF Init, BoundOK
<1>7. LocalsInv
  BY ControllersAre, NoJobType DEF Init, ToolInit, LocalsInv
<1>8. QED
  BY <1>2, <1>3, <1>4, <1>5, <1>6, <1>7, TypeParts

\* Users, the clock and Kubernetes write no more than their types allow.
LEMMA WorldType ==
    ASSUME TypeOK, LocalsInv, NEW k \in Kinds, NEW u \in Uids,
           \/ Create(k) \/ UserDeletes(k) \/ EditCluster \/ Expire(u)
           \/ CollectJob(k) \/ CollectSecrets(k) \/ JobStep(k)
    PROVE  TypeOK' /\ LocalsInv'
<1> ToolOK /\ ApiOK /\ CacheOK /\ WorkerOK /\ BoundOK
  BY TypeParts
<1> USE DEF toolVars, apiVars, cacheVars, workerVars, boundVars
<1>1. CASE Create(k)
  <2>1. UNCHANGED <<toolVars, cacheVars, workerVars, boundVars>>
    BY <1>1 DEF Create
  <2>2. created[k] + 1 \in 0 .. MaxUids
    <3>1. created[k] \in 0 .. MaxUids /\ created[k] < MaxUids
      BY <1>1 DEF Create, ApiOK
    <3>2. QED
      BY <3>1, ToolAssumption
  <2>3. ASSUME NEW spec \in Specs
        PROVE  [NoResource EXCEPT !.uid = created[k] + 1, !.spec = spec] \in Resource
    <3>1. [NoResource EXCEPT !.uid = created[k] + 1] \in Resource
      BY <2>2, ResourceWrites DEF Resource
    <3>2. [[NoResource EXCEPT !.uid = created[k] + 1] EXCEPT !.spec = spec] \in Resource
      BY <3>1 DEF Resource
    <3>3. QED
      BY <3>2
  <2>4. ApiOK'
    BY <1>1, <2>2, <2>3 DEF Create, ApiOK
  <2>5. ToolOK' /\ CacheOK' /\ WorkerOK' /\ BoundOK'
    BY <2>1 DEF ToolOK, CacheOK, WorkerOK, BoundOK
  <2>6. LocalsInv'
    BY <2>1 DEF LocalsInv, Ended
  <2>7. QED
    BY <2>4, <2>5, <2>6, TypeParts
<1>2. CASE UserDeletes(k)
  <2>1. UNCHANGED <<toolVars, cacheVars, workerVars, boundVars>>
    BY <1>2 DEF UserDeletes
  <2>2. ApiOK'
    BY <1>2, ResourceWrites DEF UserDeletes, ApiOK
  <2>3. ToolOK' /\ CacheOK' /\ WorkerOK' /\ BoundOK'
    BY <2>1 DEF ToolOK, CacheOK, WorkerOK, BoundOK
  <2>4. LocalsInv'
    BY <2>1 DEF LocalsInv, Ended
  <2>5. QED
    BY <2>2, <2>3, <2>4, TypeParts
<1>3. CASE EditCluster
  <2>1. UNCHANGED <<toolVars, cacheVars, workerVars, panicked, faults>>
    BY <1>3 DEF EditCluster
  <2>2. edits' \in 0 .. MaxEdits
    BY <1>3, HandlerAssumption DEF EditCluster, BoundOK
  <2>3. ApiOK' /\ BoundOK'
    BY <1>3, <2>1, <2>2 DEF EditCluster, ApiOK, BoundOK
  <2>4. ToolOK' /\ CacheOK' /\ WorkerOK'
    BY <2>1 DEF ToolOK, CacheOK, WorkerOK
  <2>5. LocalsInv'
    BY <2>1 DEF LocalsInv, Ended
  <2>6. QED
    BY <2>3, <2>4, <2>5, TypeParts
<1>4. CASE Expire(u)
  <2>1. UNCHANGED <<toolVars, cacheVars, workerVars, boundVars>>
    BY <1>4 DEF Expire
  <2>2. ApiOK'
    BY <1>4 DEF Expire, ApiOK
  <2>3. ToolOK' /\ CacheOK' /\ WorkerOK' /\ BoundOK'
    BY <2>1 DEF ToolOK, CacheOK, WorkerOK, BoundOK
  <2>4. LocalsInv'
    BY <2>1 DEF LocalsInv, Ended
  <2>5. QED
    BY <2>2, <2>3, <2>4, TypeParts
<1>5. CASE CollectJob(k)
  <2>1. UNCHANGED <<ran, wroteTo, objects, restored, apiVars, cacheVars, workerVars, boundVars>>
    BY <1>5 DEF CollectJob
  <2>2. ToolOK'
    BY <1>5, <2>1, NoJobType DEF CollectJob, ToolOK
  <2>3. \A j \in Kinds : job'[j].st = "active" => job'[j].bucket \in Buckets
    BY <1>5, NoJobType DEF CollectJob, ToolOK, LocalsInv
  <2>4. ApiOK' /\ CacheOK' /\ WorkerOK' /\ BoundOK'
    BY <2>1 DEF ApiOK, CacheOK, WorkerOK, BoundOK
  <2>5. QED
    BY <2>1, <2>2, <2>3, <2>4, LocalsKept, TypeParts
<1>6. CASE CollectSecrets(k)
  <2>1. UNCHANGED <<toolVars, cacheVars, workerVars, boundVars>>
    BY <1>6 DEF CollectSecrets
  <2>2. ApiOK'
    BY <1>6 DEF CollectSecrets, ApiOK
  <2>3. ToolOK' /\ CacheOK' /\ WorkerOK' /\ BoundOK'
    BY <2>1 DEF ToolOK, CacheOK, WorkerOK, BoundOK
  <2>4. LocalsInv'
    BY <2>1 DEF LocalsInv, Ended
  <2>5. QED
    BY <2>2, <2>3, <2>4, TypeParts
<1>7. CASE JobStep(k)
  <2>1. ToolStep(k) /\ UNCHANGED <<apiVars, cacheVars, workerVars, boundVars>>
    BY <1>7 DEF JobStep
  <2>2. ApiOK' /\ CacheOK' /\ WorkerOK' /\ BoundOK'
    BY <2>1 DEF ApiOK, CacheOK, WorkerOK, BoundOK
  <2>3. QED
    BY <2>1, <2>2, ToolStepType, LocalsKept, TypeParts
<1>8. QED
  BY <1>1, <1>2, <1>3, <1>4, <1>5, <1>6, <1>7

\* Nor do the informers.
LEMMA InformerType ==
    ASSUME TypeOK, LocalsInv, NEW k \in Kinds,
           ResourceEvent(k) \/ JobEvent(k) \/ Resync(k)
    PROVE  TypeOK' /\ LocalsInv'
<1> ToolOK /\ ApiOK /\ CacheOK /\ WorkerOK /\ BoundOK
  BY TypeParts
<1> USE DEF toolVars, apiVars, cacheVars, boundVars
<1>1. UNCHANGED <<toolVars, apiVars, pc, obj, temp, boundVars>>
  BY DEF ResourceEvent, JobEvent, Resync
<1>2. queue' \subseteq Controllers
  BY ControllersAre DEF ResourceEvent, JobEvent, Resync, Enqueue, WorkerOK
<1>3. CacheOK'
  <2>1. CASE ResourceEvent(k)
    BY <2>1 DEF ResourceEvent, CacheOK, ApiOK
  <2>2. CASE JobEvent(k)
    <3>1. JobSeen(job[k]) \in [uid : 0 .. MaxUids,
                               st : {"none", "active", "complete", "failed"}]
      BY DEF JobSeen, ToolOK, Job
    <3>2. QED
      BY <2>2, <3>1 DEF JobEvent, CacheOK
  <2>3. CASE Resync(k)
    BY <2>3 DEF Resync, CacheOK
  <2>4. QED
    BY <2>1, <2>2, <2>3
<1>4. ToolOK' /\ ApiOK' /\ WorkerOK' /\ BoundOK'
  BY <1>1, <1>2 DEF ToolOK, ApiOK, WorkerOK, BoundOK
<1>5. LocalsInv'
  BY <1>1 DEF LocalsInv, Ended
<1>6. QED
  BY <1>3, <1>4, <1>5, TypeParts

\* A worker takes a key and looks at what the informer has of it.
LEMMA BeginType ==
    ASSUME TypeOK, LocalsInv, NEW k \in Kinds, Begin(k)
    PROVE  TypeOK' /\ LocalsInv'
<1> ToolOK /\ ApiOK /\ CacheOK /\ WorkerOK /\ BoundOK
  BY TypeParts
<1> USE DEF toolVars, apiVars, cacheVars, boundVars
<1>1. UNCHANGED <<toolVars, apiVars, cacheVars, boundVars>> /\ queue' \subseteq Controllers
  BY DEF Begin, Get, WorkerOK
<1>2. ToolOK' /\ ApiOK' /\ CacheOK' /\ BoundOK'
  BY <1>1 DEF ToolOK, ApiOK, CacheOK, BoundOK
<1> DEFINE r == seen[k]
<1>3. r \in Resource /\ k \in Controllers /\ (Exists(r) => r.uid \in Uids)
  BY ControllersAre DEF CacheOK, Resource, Exists, Uids
<1>4. CASE HandleEnded(k)
  <2> DEFINE o == [r EXCEPT !.storage = r.spec.storage]
  <2>1. o \in Resource /\ o.conds = r.conds /\ o.uid = r.uid
    BY <1>3, ResourceWrites, StorageTypes DEF Resource
  <2>2. /\ obj' = [obj EXCEPT ![k] = o] /\ temp' = temp
        /\ \E s \in {"sync", "clear"} : pc' = [pc EXCEPT ![k] = s]
    BY <1>4 DEF HandleEnded, Goto
  <2>3. WorkerOK'
    BY <1>1, <1>3, <2>1, <2>2 DEF WorkerOK, Steps
  <2>4. Ended(o) /\ o.uid \in Uids
    BY <1>3, <1>4, <2>1 DEF HandleEnded, Ended
  <2>5. /\ pc'[k] \in {"sync", "clear"} /\ obj'[k] = o
        /\ \A d \in Controllers \ {k} : pc'[d] = pc[d] /\ obj'[d] = obj[d]
    BY <1>3, <2>2 DEF WorkerOK
  <2>6. LocalsInv'
    BY <1>1, <1>3, <2>4, <2>5, ControllersAre DEF LocalsInv, Ended
  <2>7. QED
    BY <1>2, <2>3, <2>6, TypeParts
<1>5. CASE HandleRunning(k)
  <2> DEFINE o == [r EXCEPT !.storage = StorageOf(r), !.conds = @ \cup JobConditions(k)]
  <2>1. StorageOf(r) \in Buckets
    BY <1>3, <1>5, StorageTypes DEF HandleRunning, StorageOf, ApiOK
  <2>2. r.conds \cup JobConditions(k) \in SUBSET {"Started", "Finished", "Failed"}
    BY <1>3 DEF JobConditions, Resource
  <2>3. o \in Resource /\ o.storage = StorageOf(r) /\ o.uid = r.uid
    BY <1>3, <2>1, <2>2, ResourceWrites DEF Resource
  <2>4. /\ obj' = [obj EXCEPT ![k] = o] /\ temp' = temp
        /\ \E s \in {"secret", "status"} : pc' = [pc EXCEPT ![k] = s]
    BY <1>5 DEF HandleRunning, Goto
  <2>5. WorkerOK'
    BY <1>1, <1>3, <2>3, <2>4 DEF WorkerOK, Steps
  <2>6. o.uid \in Uids
    BY <1>3, <1>5, <2>3 DEF HandleRunning
  <2>7. /\ pc'[k] \in {"secret", "status"} /\ obj'[k] = o
        /\ \A d \in Controllers \ {k} : pc'[d] = pc[d] /\ obj'[d] = obj[d]
    BY <1>3, <2>4 DEF WorkerOK
  <2>8. obj'[k].storage \in Buckets /\ obj'[k].uid \in Uids
    BY <2>1, <2>3, <2>6, <2>7
  <2> HIDE DEF o
  <2>9. LocalsInv'
    BY <1>1, <1>3, <2>7, <2>8, ControllersAre DEF LocalsInv, Ended
  <2>10. QED
    BY <1>2, <2>5, <2>9, TypeParts
<1>6. CASE HandleNothing(k)
  <2>1. UNCHANGED <<pc, obj, temp>>
    BY <1>6 DEF HandleNothing
  <2>2. WorkerOK' /\ LocalsInv'
    BY <1>1, <2>1 DEF WorkerOK, LocalsInv, Ended
  <2>3. QED
    BY <1>2, <2>2, TypeParts
<1>7. QED
  BY <1>4, <1>5, <1>6 DEF Begin

\* The worker goes from one step to another and keeps its copy.
LEMMA GoneTo ==
    ASSUME WorkerOK, LocalsInv, NEW c \in Controllers, NEW s \in Steps, Goto(c, s),
           UNCHANGED <<queue, obj, job>>, temp' \in [Kinds -> 0 .. MaxSecrets],
           pc[c] # "idle",
           c \in Kinds => \/ s = "job" /\ pc[c] = "secret"
                          \/ s = "clear" /\ pc[c] = "sync",
           c = "gc" => s = "delete"
    PROVE  WorkerOK' /\ LocalsInv'
<1>1. WorkerOK'
  BY DEF WorkerOK, Goto
<1>2. pc'[c] = s /\ \A d \in Controllers \ {c} : pc'[d] = pc[d]
  BY DEF WorkerOK, Goto
<1>3. QED
  BY <1>1, <1>2, ControllersAre DEF LocalsInv, Ended

\* getSecret and createJob.
LEMMA LaunchType ==
    ASSUME TypeOK, LocalsInv, NEW k \in Kinds,
           GetSecret(k) \/ CreateJob(k) \/ JobAlreadyExists(k)
    PROVE  TypeOK' /\ LocalsInv'
<1> ToolOK /\ ApiOK /\ CacheOK /\ WorkerOK /\ BoundOK
  BY TypeParts
<1> USE DEF toolVars, apiVars, cacheVars, boundVars
<1>1. k \in Controllers /\ k # "gc"
  BY ControllersAre
<1>2. CASE GetSecret(k)
  <2>1. /\ UNCHANGED <<toolVars, backupSpec, res, created, expired, cacheVars, queue, boundVars>>
        /\ pc[k] = "secret"
    BY <1>2 DEF GetSecret
  <2>2. ToolOK' /\ CacheOK' /\ BoundOK'
    BY <2>1 DEF ToolOK, CacheOK, BoundOK
  <2>3. CASE k \notin TempSecrets
    <3>1. Goto(k, "job") /\ UNCHANGED <<secrets, obj, temp>>
      BY <1>2, <2>3 DEF GetSecret
    <3>2. WorkerOK' /\ LocalsInv'
      BY <1>1, <2>1, <3>1, GoneTo DEF WorkerOK, Steps
    <3>3. ApiOK'
      BY <2>1, <3>1 DEF ApiOK
    <3>4. QED
      BY <2>2, <3>2, <3>3, TypeParts
  <2>4. CASE k \in TempSecrets /\ FreshSecrets(k) = {}
    <3>1. Return(k) /\ UNCHANGED secrets
      BY <1>2, <2>4 DEF GetSecret
    <3>2. WorkerOK' /\ LocalsInv'
      BY <1>1, <2>1, <3>1, ReturnFacts, LocalsReturned DEF WorkerOK
    <3>3. ApiOK'
      BY <2>1, <3>1 DEF ApiOK
    <3>4. QED
      BY <2>2, <3>2, <3>3, TypeParts
  <2>5. CASE k \in TempSecrets /\ FreshSecrets(k) # {}
    <3>1. PICK i \in FreshSecrets(k) :
             /\ secrets' = [secrets EXCEPT ![k] = @ \cup {<<obj[k].uid, i>>}]
             /\ temp' = [temp EXCEPT ![k] = i]
             /\ Goto(k, "job") /\ UNCHANGED obj
      BY <1>2, <2>5 DEF GetSecret, CreateTempSecret
    <3>2. i \in 1 .. MaxSecrets /\ obj[k].uid \in Uids
      BY <1>1, <2>1 DEF FreshSecrets, LocalsInv
    <3>3. i \in 0 .. MaxSecrets
      BY <3>2, HandlerAssumption
    <3>4. WorkerOK' /\ LocalsInv'
      <4>1. temp' \in [Kinds -> 0 .. MaxSecrets]
        BY <3>1, <3>3 DEF WorkerOK
      <4>2. QED
        BY <1>1, <2>1, <3>1, <4>1, GoneTo DEF Steps
    <3>5. ApiOK'
      BY <2>1, <3>1, <3>2 DEF ApiOK
    <3>6. QED
      BY <2>2, <3>4, <3>5, TypeParts
  <2>6. QED
    BY <2>3, <2>4, <2>5
<1>3. CASE CreateJob(k)
  <2>1. /\ UNCHANGED <<apiVars, cacheVars, queue, temp, boundVars>> /\ pc[k] = "job"
        /\ Goto(k, "status") /\ LaunchJob(k, obj[k].uid, obj[k].storage, temp[k])
        /\ obj' = [obj EXCEPT ![k].conds = @ \cup {"Started"}]
    BY <1>3 DEF CreateJob
  <2>2. ApiOK' /\ CacheOK' /\ BoundOK'
    BY <2>1 DEF ApiOK, CacheOK, BoundOK
  <2>3. obj[k] \in Resource /\ obj[k].uid \in Uids /\ obj[k].storage \in Buckets
    BY <1>1, <2>1 DEF WorkerOK, LocalsInv
  <2> DEFINE j == [NoJob EXCEPT !.uid = obj[k].uid, !.st = "active",
                                !.bucket = obj[k].storage, !.secret = temp[k]]
  <2>4. temp[k] \in Nat /\ obj[k].uid \in 0 .. MaxUids
    BY <2>3, HandlerAssumption DEF WorkerOK, Resource
  <2>5. j \in Job /\ j.bucket = obj[k].storage
    BY <2>3, <2>4, NoJobType DEF Job
  <2>6. ToolOK'
    <3>1. job' \in [Kinds -> Job]
      BY <2>1, <2>5 DEF LaunchJob, ToolOK
    <3>2. QED
      BY <2>1, <2>3, <3>1 DEF LaunchJob, ToolOK
  <2>7. \A i \in Kinds : job'[i].st = "active" => job'[i].bucket \in Buckets
    <3>1. job'[k] = j /\ \A i \in Kinds \ {k} : job'[i] = job[i]
      BY <2>1 DEF LaunchJob, ToolOK
    <3>2. QED
      BY <2>3, <2>5, <3>1 DEF LocalsInv
  <2>8. WorkerOK' /\ pc'[k] = "status" /\ obj'[k].uid = obj[k].uid
        /\ \A d \in Controllers \ {k} : pc'[d] = pc[d] /\ obj'[d] = obj[d]
    <3>1. obj[k].conds \cup {"Started"} \in SUBSET {"Started", "Finished", "Failed"}
      BY <2>3 DEF Resource
    <3> DEFINE o == [obj[k] EXCEPT !.conds = @ \cup {"Started"}]
    <3>2. o \in Resource /\ o.uid = obj[k].uid
      BY <2>3, <3>1, ResourceWrites DEF Resource
    <3>3. obj' = [obj EXCEPT ![k] = o]
      BY <2>1
    <3>4. QED
      BY <1>1, <2>1, <3>2, <3>3 DEF WorkerOK, Goto, Steps
  <2>9. LocalsInv'
    BY <1>1, <2>3, <2>7, <2>8, ControllersAre DEF LocalsInv, Ended
  <2>10. QED
    BY <2>2, <2>6, <2>8, <2>9, TypeParts
<1>4. CASE JobAlreadyExists(k)
  <2>1. UNCHANGED <<toolVars, apiVars, cacheVars, queue, boundVars>> /\ Return(k)
    BY <1>4 DEF JobAlreadyExists
  <2>2. WorkerOK' /\ LocalsInv'
    BY <1>1, <2>1, ReturnFacts, LocalsReturned DEF WorkerOK
  <2>3. ToolOK' /\ ApiOK' /\ CacheOK' /\ BoundOK'
    BY <2>1 DEF ToolOK, ApiOK, CacheOK, BoundOK
  <2>4. QED
    BY <2>2, <2>3, TypeParts
<1>5. QED
  BY <1>2, <1>3, <1>4

\* updateStatus and clearSecrets.
LEMMA StatusType ==
    ASSUME TypeOK, LocalsInv, NEW k \in Kinds,
           UpdateStatus(k) \/ UpdateStatusConflict(k) \/ ClearSecrets(k)
    PROVE  TypeOK' /\ LocalsInv'
<1> ToolOK /\ ApiOK /\ CacheOK /\ WorkerOK /\ BoundOK
  BY TypeParts
<1> USE DEF toolVars, apiVars, cacheVars, boundVars
<1>1. k \in Controllers /\ k # "gc"
  BY ControllersAre
<1>2. /\ UNCHANGED <<toolVars, backupSpec, created, expired, cacheVars, queue, boundVars>>
      /\ pc[k] \in {"status", "sync", "clear"}
  BY DEF UpdateStatus, UpdateStatusConflict, ClearSecrets
<1>3. ToolOK' /\ CacheOK' /\ BoundOK'
  BY <1>2 DEF ToolOK, CacheOK, BoundOK
<1>4. \/ Return(k)
      \/ pc[k] = "sync" /\ Goto(k, "clear") /\ UNCHANGED <<obj, temp>>
  BY DEF UpdateStatus, UpdateStatusConflict, ClearSecrets
<1>5. WorkerOK' /\ LocalsInv'
  <2>1. CASE Return(k)
    BY <1>1, <1>2, <2>1, ReturnFacts, LocalsReturned DEF WorkerOK
  <2>2. CASE pc[k] = "sync" /\ Goto(k, "clear") /\ UNCHANGED <<obj, temp>>
    BY <1>1, <1>2, <2>2, GoneTo DEF WorkerOK, Steps
  <2>3. QED
    BY <1>4, <2>1, <2>2
<1>6. ApiOK'
  <2>1. CASE UpdateStatus(k)
    <3>1. res[k] \in Resource /\ obj[k] \in Resource
      BY <1>1 DEF ApiOK, WorkerOK
    <3> DEFINE new == [res[k] EXCEPT !.conds = obj[k].conds, !.storage = obj[k].storage]
    <3>2. new \in Resource
      BY <3>1 DEF Resource
    <3>3. [new EXCEPT !.ver = @ + 1] \in Resource
      BY <3>2, ResourceWrites
    <3>4. StatusOf(k) \in Resource
      BY <3>2, <3>3 DEF StatusOf
    <3>5. QED
      BY <1>2, <2>1, <3>4 DEF UpdateStatus, ApiOK
  <2>2. CASE UpdateStatusConflict(k)
    BY <2>2 DEF UpdateStatusConflict, ApiOK
  <2>3. CASE ClearSecrets(k)
    BY <2>3 DEF ClearSecrets, ApiOK
  <2>4. QED
    BY <2>1, <2>2, <2>3
<1>7. QED
  BY <1>3, <1>5, <1>6, TypeParts

\* The collector of backups.
LEMMA CollectorType ==
    ASSUME TypeOK, LocalsInv, "gc" \in Controllers,
           \/ BeginCollect \/ CollectNothing \/ DeleteBackupData \/ DeleteBackup
           \/ DataNotDeleted
    PROVE  TypeOK' /\ LocalsInv'
<1> ToolOK /\ ApiOK /\ CacheOK /\ WorkerOK /\ BoundOK
  BY TypeParts
<1> USE DEF toolVars, apiVars, cacheVars, boundVars
<1>1. "backup" \in Kinds /\ "gc" \notin Kinds
  BY ControllersAre
<1>2. CASE BeginCollect
  <2> DEFINE r == seen["backup"]
             o == [r EXCEPT !.storage = StorageOf(r)]
  <2>1. /\ UNCHANGED <<toolVars, apiVars, cacheVars, temp, boundVars>>
        /\ queue' \subseteq Controllers
        /\ obj' = [obj EXCEPT !["gc"] = o] /\ pc' = [pc EXCEPT !["gc"] = "data"]
    BY <1>2 DEF BeginCollect, Get, Goto, WorkerOK
  <2>2. r \in Resource /\ r.uid \in Uids
    BY <1>1, <1>2 DEF BeginCollect, HasExpired, Exists, CacheOK, Resource, Uids
  <2>3. StorageOf(r) \in Buckets
    BY <1>2, <2>2, StorageTypes DEF BeginCollect, HasExpired, StorageOf, ApiOK
  <2>4. o \in Resource /\ o.uid = r.uid
    BY <2>2, <2>3, ResourceWrites DEF Resource
  <2> HIDE DEF o
  <2>5. WorkerOK'
    BY <2>1, <2>4 DEF WorkerOK, Steps
  <2>6. /\ pc'["gc"] = "data" /\ obj'["gc"] = o
        /\ \A d \in Controllers \ {"gc"} : pc'[d] = pc[d] /\ obj'[d] = obj[d]
    BY <2>1 DEF WorkerOK
  <2>7. obj'["gc"].uid \in Uids
    BY <2>2, <2>4, <2>6
  <2>8. LocalsInv'
    BY <2>1, <2>6, <2>7, ControllersAre DEF LocalsInv, Ended
  <2>9. ToolOK' /\ ApiOK' /\ CacheOK' /\ BoundOK'
    BY <2>1 DEF ToolOK, ApiOK, CacheOK, BoundOK
  <2>10. QED
    BY <2>5, <2>8, <2>9, TypeParts
<1>3. CASE CollectNothing
  <2>1. /\ UNCHANGED <<toolVars, apiVars, cacheVars, pc, obj, temp, boundVars>>
        /\ queue' \subseteq Controllers
    BY <1>3 DEF CollectNothing, Get, WorkerOK
  <2>2. ToolOK' /\ ApiOK' /\ CacheOK' /\ WorkerOK' /\ BoundOK'
    BY <2>1 DEF ToolOK, ApiOK, CacheOK, WorkerOK, BoundOK
  <2>3. LocalsInv'
    BY <2>1 DEF LocalsInv, Ended
  <2>4. QED
    BY <2>2, <2>3, TypeParts
<1>4. CASE DeleteBackupData \/ DataNotDeleted
  <2> DEFINE b == obj["gc"].storage
             Object == [meta : BOOLEAN, data : {"none", "partial", "full"}]
  <2>1. /\ UNCHANGED <<job, ran, wroteTo, restored, apiVars, cacheVars, queue, obj, temp, edits, panicked>>
        /\ pc["gc"] = "data" /\ Goto("gc", "delete")
    BY <1>4 DEF DeleteBackupData, DataNotDeleted
  <2>2. WorkerOK' /\ LocalsInv'
    BY <1>1, <2>1, GoneTo DEF WorkerOK, Steps
  <2>3. objects' \in [Buckets -> Object]
    <3>1. CASE DeleteBackupData
      <4>1. NoObjects \in Object
        BY Zenon DEF NoObjects
      <4>2. objects' \in {objects, [objects EXCEPT ![b] = NoObjects]}
        BY <3>1 DEF DeleteBackupData
      <4>3. QED
        BY <4>1, <4>2 DEF ToolOK
    <3>2. CASE DataNotDeleted
      <4>1. PICK meta \in BOOLEAN : objects' = [objects EXCEPT ![b].meta = meta]
        BY <3>2 DEF DataNotDeleted
      <4>2. objects \in [Buckets -> Object]
        BY DEF ToolOK
      <4>3. QED
        BY <4>1, <4>2
    <3>3. QED
      BY <1>4, <3>1, <3>2
  <2>4. ToolOK' /\ ApiOK' /\ CacheOK'
    BY <2>1, <2>3 DEF ToolOK, ApiOK, CacheOK
  <2>5. BoundOK'
    <3>1. CASE DeleteBackupData
      BY <3>1 DEF DeleteBackupData, BoundOK
    <3>2. CASE DataNotDeleted
      <4>1. faults \in 0 .. MaxFaults /\ faults < MaxFaults /\ faults' = faults + 1
        BY <3>2 DEF DataNotDeleted, BoundOK
      <4>2. faults' \in 0 .. MaxFaults
        BY <4>1, HandlerAssumption
      <4>3. QED
        BY <2>1, <4>2 DEF BoundOK
    <3>3. QED
      BY <1>4, <3>1, <3>2
  <2>6. QED
    BY <2>2, <2>4, <2>5, TypeParts
<1>5. CASE DeleteBackup
  <2>1. /\ UNCHANGED <<toolVars, backupSpec, created, expired, secrets, cacheVars, queue, boundVars>>
        /\ Return("gc") /\ res' = [res EXCEPT !["backup"] = NoResource]
    BY <1>5 DEF DeleteBackup
  <2>2. WorkerOK' /\ LocalsInv'
    BY <2>1, ReturnFacts, LocalsReturned DEF WorkerOK
  <2>3. ToolOK' /\ ApiOK' /\ CacheOK' /\ BoundOK'
    BY <2>1, ResourceWrites DEF ToolOK, ApiOK, CacheOK, BoundOK
  <2>4. QED
    BY <2>2, <2>3, TypeParts
<1>6. QED
  BY <1>2, <1>3, <1>4, <1>5

\* Failed calls, crashes and panics.
LEMMA FailureType ==
    ASSUME TypeOK, LocalsInv, NEW c \in Controllers, Crash \/ CallFails(c) \/ Panic(c)
    PROVE  TypeOK' /\ LocalsInv'
<1> ToolOK /\ ApiOK /\ CacheOK /\ WorkerOK /\ BoundOK
  BY TypeParts
<1> USE DEF toolVars, apiVars, cacheVars, boundVars
<1>1. BoundOK'
  <2>1. CASE Crash \/ CallFails(c)
    <3>1. faults \in 0 .. MaxFaults /\ faults < MaxFaults /\ faults' = faults + 1
      BY <2>1 DEF Crash, CallFails, BoundOK
    <3>2. faults' \in 0 .. MaxFaults
      BY <3>1, HandlerAssumption
    <3>3. QED
      BY <2>1, <3>2 DEF Crash, CallFails, BoundOK
  <2>2. CASE Panic(c)
    BY <2>2 DEF Panic, BoundOK
  <2>3. QED
    BY <2>1, <2>2
<1>2. CASE Crash \/ Panic(c)
  <2>1. Restart /\ UNCHANGED <<toolVars, apiVars>>
    BY <1>2 DEF Crash, Panic
  <2>2. ToolOK' /\ ApiOK'
    BY <2>1 DEF ToolOK, ApiOK
  <2>3. CacheOK' /\ WorkerOK' /\ \A d \in Controllers : pc'[d] = "idle"
    BY <2>1, RestartFacts
  <2>4. LocalsInv'
    BY <2>1, <2>3, ControllersAre DEF LocalsInv
  <2>5. QED
    BY <1>1, <2>2, <2>3, <2>4, TypeParts
<1>3. CASE CallFails(c)
  <2>1. UNCHANGED <<toolVars, backupSpec, res, created, expired, cacheVars, queue>> /\ Return(c)
    BY <1>3 DEF CallFails
  <2>2. secrets' \in [Kinds -> SUBSET (Uids \X (1 .. MaxSecrets))]
    <3>1. CASE pc[c] = "clear"
      <4>1. PICK left \in SUBSET secrets[c] : secrets' = [secrets EXCEPT ![c] = left]
        BY <1>3, <3>1 DEF CallFails
      <4>2. CASE c \in Kinds
        BY <4>1, <4>2 DEF ApiOK
      <4>3. CASE c \notin Kinds
        BY <4>1, <4>3 DEF ApiOK
      <4>4. QED
        BY <4>2, <4>3
    <3>2. CASE pc[c] # "clear"
      BY <1>3, <3>2 DEF CallFails, ApiOK
    <3>3. QED
      BY <3>1, <3>2
  <2>3. WorkerOK' /\ LocalsInv'
    BY <2>1, ReturnFacts, LocalsReturned DEF WorkerOK
  <2>4. ToolOK' /\ ApiOK' /\ CacheOK'
    BY <2>1, <2>2 DEF ToolOK, ApiOK, CacheOK
  <2>5. QED
    BY <1>1, <2>3, <2>4, TypeParts
<1>4. QED
  BY <1>2, <1>3

LEMMA NextType == TypeOK /\ LocalsInv /\ [Next]_vars => TypeOK' /\ LocalsInv'
<1> SUFFICES ASSUME TypeOK, LocalsInv, [Next]_vars
             PROVE  TypeOK' /\ LocalsInv'
  OBVIOUS
<1>1. 1 \in Uids
  BY ToolAssumption DEF Uids
<1>2. PICK k \in Kinds : TRUE
  BY ToolAssumption
<1>3. k \in Controllers
  BY ControllersAre
<1>4. CASE \E j \in Kinds : Create(j) \/ UserDeletes(j) \/ Kubernetes(j) \/ JobStep(j)
  BY <1>1, <1>4, WorldType DEF Kubernetes
<1>5. CASE EditCluster \/ \E u \in Uids : Expire(u)
  BY <1>1, <1>2, <1>5, WorldType
<1>6. CASE \E j \in Kinds : ResourceEvent(j) \/ JobEvent(j) \/ Resync(j)
  BY <1>6, InformerType
<1>7. CASE \E c \in Controllers : Worker(c) \/ CallFails(c)
  <2>1. PICK c \in Controllers : Worker(c) \/ CallFails(c)
    BY <1>7
  <2>2. CASE Panic(c) \/ CallFails(c)
    BY <2>2, FailureType
  <2>3. CASE c \in Kinds /\ Worker(c) /\ ~Panic(c)
    BY <2>3, BeginType, LaunchType, StatusType, ControllersAre DEF Worker
  <2>4. CASE c \notin Kinds /\ Worker(c) /\ ~Panic(c)
    BY <2>4, CollectorType, ControllersAre DEF Worker
  <2>5. QED
    BY <2>1, <2>2, <2>3, <2>4
<1>8. CASE DataNotDeleted
  BY <1>8, CollectorType DEF DataNotDeleted
<1>9. CASE Crash
  BY <1>3, <1>9, FailureType
<1>10. CASE UNCHANGED vars
  BY <1>10 DEF vars, toolVars, apiVars, cacheVars, workerVars, boundVars, TypeOK,
               LocalsInv, Ended
<1>11. QED
  BY <1>4, <1>5, <1>6, <1>7, <1>8, <1>9, <1>10 DEF Next

\* Every variable keeps its type, whatever lags, fails or is edited: in
\* particular createJob never gets a storage that is not a bucket, a job never
\* has more failed pods than its BackoffLimit, and a temporary secret always
\* belongs to a resource.
THEOREM TypeCorrect == Spec => []TypeOK
<1>1. Init => TypeOK /\ LocalsInv
  BY InitType
<1>2. TypeOK /\ LocalsInv /\ [Next]_vars => TypeOK' /\ LocalsInv'
  BY NextType
<1>3. QED
  BY <1>1, <1>2, PTL DEF Spec

(***************************************************************************)
(* What a resource tells of its job, for a name that is used once for a    *)
(* backup and once for a restore (MaxUids = 1).                            *)
(***************************************************************************)

\* The kind that a controller handles, and how far its operation has come.
KindOf(c) == IF c = "gc" THEN "backup" ELSE c
Outcome(k) == ran[<<k, 1>>]

\* Nothing is known of a resource before it is created.
Unborn(k) ==
    created[k] = 0 =>
        /\ res[k] = NoResource /\ seen[k] = NoResource
        /\ job[k] = NoJob /\ Outcome(k) = "none" /\ seenJob[k].st = "none"
        /\ \A c \in Controllers : KindOf(c) = k => pc[c] = "idle"

\* The job that is there is the one whose outcome counts.
JobInv(k) ==
    job[k] # NoJob => job[k].uid = 1 /\ job[k].st # "none" /\ Outcome(k) = job[k].st

\* A copy r of the resource tells no more than what has happened.
Tells(k, r) ==
    /\ "Finished" \in r.conds => Outcome(k) = "complete"
    /\ "Failed" \in r.conds => Outcome(k) = "failed"

\* A copy r is older than the resource, or has all its conditions: what is
\* written back as its status takes no condition away.
Follows(k, r) ==
    /\ r.ver <= res[k].ver
    /\ r.ver = res[k].ver => res[k].conds \subseteq r.conds

\* While the resource exists, its job does, from the first one on, and the
\* status has not been written before.
LaunchInv(k) ==
    /\ Outcome(k) # "none" => job[k] # NoJob
    /\ seenJob[k].st # "none" => Outcome(k) # "none"
    /\ pc[k] = "status" => Outcome(k) # "none"
    /\ Outcome(k) = "none" => res[k].ver = 0

\* While it exists, every copy tells the truth, and so does the informer's job.
TellInv(k) ==
    /\ seenJob[k].st \in {"complete", "failed"} => Outcome(k) = seenJob[k].st
    /\ Tells(k, res[k])
    /\ Exists(seen[k]) => Tells(k, seen[k])
    /\ \A c \in Controllers : KindOf(c) = k /\ pc[c] # "idle" => Tells(k, obj[c])

FollowInv(k) ==
    /\ Exists(seen[k]) => Follows(k, seen[k])
    /\ \A c \in Controllers : KindOf(c) = k /\ pc[c] # "idle" => Follows(k, obj[c])

KindInv(k) ==
    /\ Unborn(k) /\ JobInv(k)
    /\ ~Exists(res[k]) => res[k].conds = {}
    /\ Exists(res[k]) => LaunchInv(k) /\ TellInv(k) /\ FollowInv(k)

RequestInv == \A k \in Kinds : KindInv(k)

\* What the steps use of the types.
LEMMA OnceTypes ==
    ASSUME MaxUids = 1, TypeOK, NEW k \in Kinds
    PROVE  /\ Uids = {1} /\ <<k, 1>> \in Requests
           /\ res[k] \in Resource /\ seen[k] \in Resource /\ job[k] \in Job
           /\ res[k].uid \in {0, 1} /\ created[k] \in {0, 1}
           /\ res[k].ver \in Nat /\ seen[k].ver \in Nat
           /\ \A c \in Controllers : obj[c] \in Resource /\ obj[c].ver \in Nat
<1>1. Uids = {1} /\ 0 .. MaxUids = {0, 1}
  BY DEF Uids
<1>2. QED
  BY <1>1 DEF TypeOK, Resource, Requests

(***************************************************************************)
(* Steps that are quiet for a kind.                                        *)
(***************************************************************************)

\* The workers of kind k come back or go on with the copy they have.
WorkersStay(k) ==
    \A c \in Controllers :
        KindOf(c) = k =>
            \/ pc'[c] = "idle"
            \/ /\ pc[c] # "idle" /\ obj'[c] = obj[c]
               /\ pc'[c] = "status" => pc[c] = "status"

\* The resource of kind k and the identity of its job do not change, and the
\* informers learn no more than what there is.
Quiet(k) ==
    /\ res'[k] = res[k] /\ created'[k] = created[k] /\ Outcome(k)' = Outcome(k)
    /\ \/ job'[k] = job[k]
       \/ /\ job[k] # NoJob /\ job'[k] # NoJob
          /\ job'[k].uid = job[k].uid /\ job'[k].st = job[k].st
    /\ seen'[k] \in {seen[k], res[k]}
    /\ seenJob'[k] \in {seenJob[k], JobSeen(job[k]), JobSeen(NoJob)}
    /\ WorkersStay(k)

LEMMA QuietKeeps ==
    ASSUME MaxUids = 1, TypeOK, NEW k \in Kinds, KindInv(k), Quiet(k)
    PROVE  KindInv(k)'
<1>1. /\ res'[k] = res[k] /\ created'[k] = created[k] /\ Outcome(k)' = Outcome(k)
      /\ seen'[k] \in {seen[k], res[k]}
  BY DEF Quiet
<1>2. /\ job'[k] = NoJob <=> job[k] = NoJob
      /\ job'[k].st = job[k].st /\ job'[k].uid = job[k].uid
  BY DEF Quiet
<1>3. seenJob'[k].st \in {seenJob[k].st, job[k].st, "none"}
  BY NoJobType DEF Quiet, JobSeen
<1>4. job[k] = NoJob => job[k].st = "none"
  BY NoJobType
<1>5. Unborn(k)'
  <2>1. ASSUME created[k] = 0
        PROVE  \A c \in Controllers : KindOf(c) = k => pc'[c] = "idle"
    BY <2>1 DEF KindInv, Unborn, Quiet, WorkersStay
  <2>2. QED
    BY <1>1, <1>2, <1>3, <1>4, <2>1 DEF KindInv, Unborn
<1>6. JobInv(k)'
  BY <1>1, <1>2 DEF KindInv, JobInv
<1>7. ASSUME Exists(res[k])
      PROVE  LaunchInv(k)'
  <2>1. pc'[k] = "status" => pc[k] = "status"
    BY ControllersAre DEF Quiet, WorkersStay, KindOf
  <2>2. job[k].st # "none" => Outcome(k) # "none"
    BY <1>4 DEF KindInv, JobInv
  <2>3. LaunchInv(k)
    BY <1>7 DEF KindInv
  <2>4. QED
    BY <1>1, <1>2, <1>3, <2>1, <2>2, <2>3 DEF LaunchInv
<1>8. ASSUME Exists(res[k])
      PROVE  TellInv(k)'
  <2>1. TellInv(k)
    BY <1>8 DEF KindInv
  <2>2. job[k].st \in {"complete", "failed"} => Outcome(k) = job[k].st
    BY <1>4 DEF KindInv, JobInv
  <2>3. seenJob'[k].st \in {"complete", "failed"} => Outcome(k) = seenJob'[k].st
    BY <1>3, <2>1, <2>2 DEF TellInv
  <2>4. \A c \in Controllers : KindOf(c) = k /\ pc'[c] # "idle" => Tells(k, obj'[c])
    BY <2>1 DEF TellInv, Quiet, WorkersStay
  <2>5. Tells(k, res[k]) /\ (Exists(seen'[k]) => Tells(k, seen'[k]))
    BY <1>1, <2>1 DEF TellInv
  <2>6. Tells(k, res[k])' /\ (Exists(seen[k]) => Tells(k, seen[k]))'
    BY <1>1, <2>5 DEF Tells, Exists
  <2>7. (\A c \in Controllers : KindOf(c) = k /\ pc[c] # "idle" => Tells(k, obj[c]))'
    BY <1>1, <2>4 DEF Tells
  <2>8. QED
    BY <1>1, <2>3, <2>6, <2>7 DEF TellInv
<1>9. ASSUME Exists(res[k])
      PROVE  FollowInv(k)'
  <2>1. FollowInv(k)
    BY <1>9 DEF KindInv
  <2>2. Follows(k, res[k])
    <3>1. res[k].ver \in Nat
      BY OnceTypes
    <3>2. QED
      BY <3>1 DEF Follows
  <2>3. \A c \in Controllers : KindOf(c) = k /\ pc'[c] # "idle" => Follows(k, obj'[c])
    BY <2>1 DEF FollowInv, Quiet, WorkersStay
  <2>4. Exists(seen'[k]) => Follows(k, seen'[k])
    BY <1>1, <2>1, <2>2 DEF FollowInv
  <2>5. QED
    BY <1>1, <2>3, <2>4 DEF FollowInv, Follows, Exists
<1>10. QED
  BY <1>1, <1>5, <1>6, <1>7, <1>8, <1>9 DEF KindInv, Exists

(***************************************************************************)
(* Steps that are not.                                                     *)
(***************************************************************************)

\* Create: the first resource of the name.
LEMMA CreateKeeps ==
    ASSUME MaxUids = 1, TypeOK, NEW k \in Kinds, KindInv(k), Create(k)
    PROVE  KindInv(k)'
<1>1. /\ UNCHANGED <<job, ran, seen, seenJob, pc, obj>>
      /\ ~Exists(res[k]) /\ created[k] < 1
      /\ created' = [created EXCEPT ![k] = @ + 1]
  BY DEF Create, toolVars, cacheVars, workerVars
<1>2. created[k] = 0
  <2>1. created[k] \in {0, 1}
    BY OnceTypes
  <2>2. QED
    BY <1>1, <2>1
<1>3. created'[k] # 0
  BY <1>1, <1>2 DEF TypeOK
<1>4. /\ seen[k] = NoResource
      /\ job[k] = NoJob /\ Outcome(k) = "none" /\ seenJob[k].st = "none"
      /\ \A c \in Controllers : KindOf(c) = k => pc[c] = "idle"
  BY <1>2 DEF KindInv, Unborn
<1>5. res'[k].conds = {} /\ res'[k].ver = 0
  <2>1. PICK spec \in Specs :
           res' = [res EXCEPT ![k] = [NoResource EXCEPT !.uid = created[k] + 1, !.spec = spec]]
    BY DEF Create
  <2>2. res'[k] = [NoResource EXCEPT !.uid = created[k] + 1, !.spec = spec]
    BY <2>1 DEF TypeOK
  <2>3. QED
    BY <2>2 DEF NoResource
<1>6. Unborn(k)' /\ JobInv(k)'
  BY <1>1, <1>3, <1>4 DEF Unborn, JobInv
<1>7. LaunchInv(k)'
  BY <1>1, <1>4, <1>5, ControllersAre DEF LaunchInv, KindOf, Outcome
<1>8. TellInv(k)' /\ FollowInv(k)'
  <2>1. ~Exists(seen[k])
    BY <1>4 DEF Exists, NoResource
  <2>2. QED
    BY <1>1, <1>4, <1>5, <2>1 DEF TellInv, FollowInv, Tells, Exists
<1>9. QED
  BY <1>5, <1>6, <1>7, <1>8 DEF KindInv

\* A user or the collector deletes the resource.
LEMMA DeleteKeeps ==
    ASSUME MaxUids = 1, TypeOK, NEW k \in Kinds, KindInv(k),
           UNCHANGED <<job, ran, seen, seenJob, created>>, WorkersStay(k),
           res' = [res EXCEPT ![k] = NoResource]
    PROVE  KindInv(k)'
<1>1. res'[k] = NoResource
  BY DEF TypeOK
<1>2. NoResource.conds = {} /\ ~Exists(NoResource)
  BY DEF NoResource, Exists
<1>3. Unborn(k)' /\ JobInv(k)'
  BY <1>1 DEF KindInv, Unborn, JobInv, WorkersStay, Outcome
<1>4. QED
  BY <1>1, <1>2, <1>3 DEF KindInv, Exists

\* Kubernetes collects the job of a resource that is gone.
LEMMA CollectKeeps ==
    ASSUME MaxUids = 1, TypeOK, NEW k \in Kinds, KindInv(k), CollectJob(k)
    PROVE  KindInv(k)'
<1>1. /\ UNCHANGED <<ran, res, created, seen, seenJob, pc, obj>>
      /\ job[k] # NoJob /\ job[k].uid # res[k].uid /\ job' = [job EXCEPT ![k] = NoJob]
  BY DEF CollectJob, apiVars, cacheVars, workerVars
<1>2. job'[k] = NoJob
  BY <1>1 DEF TypeOK
<1>3. ~Exists(res[k])
  BY <1>1, OnceTypes DEF KindInv, JobInv, Exists
<1>4. Unborn(k)' /\ JobInv(k)'
  BY <1>1, <1>2 DEF KindInv, Unborn, JobInv, Outcome
<1>5. QED
  BY <1>1, <1>3, <1>4 DEF KindInv, Exists

\* The job ends: until then nothing can have told an end.
LEMMA EndKeeps ==
    ASSUME MaxUids = 1, TypeOK, NEW k \in Kinds, KindInv(k),
           job[k].st = "active", JobHasEnded(k),
           UNCHANGED <<res, created, seen, seenJob, pc, obj>>
    PROVE  KindInv(k)'
<1>1. job[k] # NoJob /\ job[k].uid = 1 /\ Outcome(k) = "active" /\ created[k] # 0
  BY NoJobType DEF KindInv, JobInv, Unborn
<1>2. Outcome(k)' = job'[k].st /\ job'[k].st \in {"complete", "failed"} /\ job'[k].uid = 1
  BY <1>1, OnceTypes DEF JobHasEnded, Outcome, TypeOK
<1>3. job'[k] # NoJob
  BY <1>2, NoJobType
<1>4. Unborn(k)' /\ JobInv(k)'
  BY <1>1, <1>2, <1>3 DEF Unborn, JobInv
<1>5. ASSUME Exists(res[k])
      PROVE  LaunchInv(k)' /\ TellInv(k)' /\ FollowInv(k)'
  <2>1. LaunchInv(k)'
    BY <1>2, <1>3 DEF LaunchInv
  <2>2. TellInv(k)
    BY <1>5 DEF KindInv
  <2>3. /\ seenJob[k].st \notin {"complete", "failed"}
        /\ \A r \in {res[k], seen[k]} \cup {obj[c] : c \in Controllers} :
              Tells(k, r) => r.conds \cap {"Finished", "Failed"} = {}
    BY <1>1, <2>2 DEF TellInv, Tells
  <2>4. TellInv(k)'
    BY <2>2, <2>3 DEF TellInv, Tells, Exists
  <2>5. FollowInv(k)'
    BY <1>5 DEF KindInv, FollowInv, Follows, Exists
  <2>6. QED
    BY <2>1, <2>4, <2>5
<1>6. QED
  BY <1>4, <1>5 DEF KindInv, Exists

\* A worker takes a key: its copy has what the informer has, and what the
\* informer's job adds to it.
LEMMA TakeKeeps ==
    ASSUME MaxUids = 1, TypeOK, NEW k \in Kinds, KindInv(k),
           NEW c \in Controllers, KindOf(c) = k, NEW s \in Steps, NEW o \in Resource,
           UNCHANGED <<job, ran, res, created, seen, seenJob>>,
           Exists(seen[k]), s = "status" => seenJob[k].st # "none",
           pc' = [pc EXCEPT ![c] = s], obj' = [obj EXCEPT ![c] = o],
           o.ver = seen[k].ver, seen[k].conds \subseteq o.conds,
           o.conds \subseteq seen[k].conds \cup JobConditions(k)
    PROVE  KindInv(k)'
<1>1. /\ pc'[c] = s /\ obj'[c] = o
      /\ \A d \in Controllers \ {c} : pc'[d] = pc[d] /\ obj'[d] = obj[d]
  BY DEF TypeOK
<1>2. created[k] # 0
  BY DEF KindInv, Unborn, Exists, NoResource
<1>3. Unborn(k)' /\ JobInv(k)'
  BY <1>2 DEF KindInv, Unborn, JobInv, Outcome
<1>4. ASSUME Exists(res[k])
      PROVE  LaunchInv(k)' /\ TellInv(k)' /\ FollowInv(k)'
  <2>1. LaunchInv(k) /\ TellInv(k) /\ FollowInv(k)
    BY <1>4 DEF KindInv
  <2>2. LaunchInv(k)'
    <3>1. pc'[k] = "status" => Outcome(k) # "none"
      BY <1>1, <2>1, ControllersAre DEF LaunchInv
    <3>2. QED
      BY <2>1, <3>1 DEF LaunchInv, Outcome
  <2>3. Tells(k, o)
    <3>1. /\ "Finished" \in JobConditions(k) => Outcome(k) = "complete"
          /\ "Failed" \in JobConditions(k) => Outcome(k) = "failed"
      BY <2>1 DEF JobConditions, TellInv
    <3>2. QED
      BY <2>1, <3>1 DEF TellInv, Tells
  <2>4. TellInv(k)'
    BY <1>1, <2>1, <2>3 DEF TellInv, Tells, Exists, Outcome
  <2>5. Follows(k, o)
    BY <2>1 DEF FollowInv, Follows
  <2>6. FollowInv(k)'
    BY <1>1, <2>1, <2>5 DEF FollowInv, Follows, Exists
  <2>7. QED
    BY <2>2, <2>4, <2>6
<1>5. QED
  BY <1>3, <1>4 DEF KindInv, Exists

\* createJob: while the resource exists there was no job before.
LEMMA LaunchKeeps ==
    ASSUME MaxUids = 1, TypeOK, LocalsInv, NEW k \in Kinds, KindInv(k), CreateJob(k)
    PROVE  KindInv(k)'
<1>1. /\ UNCHANGED <<res, created, seen, seenJob>> /\ pc[k] = "job" /\ job[k] = NoJob
      /\ Goto(k, "status") /\ LaunchJob(k, obj[k].uid, obj[k].storage, temp[k])
      /\ obj' = [obj EXCEPT ![k].conds = @ \cup {"Started"}]
  BY DEF CreateJob, LaunchJob, apiVars, cacheVars
<1>2. k \in Controllers /\ KindOf(k) = k /\ obj[k] \in Resource /\ obj[k].uid = 1
  BY <1>1, ControllersAre, OnceTypes DEF KindOf, LocalsInv
<1>3. /\ pc'[k] = "status" /\ obj'[k] = [obj[k] EXCEPT !.conds = @ \cup {"Started"}]
      /\ \A d \in Controllers \ {k} : pc'[d] = pc[d] /\ obj'[d] = obj[d]
  BY <1>1, <1>2 DEF TypeOK, Goto
<1>4. obj'[k].conds = obj[k].conds \cup {"Started"} /\ obj'[k].ver = obj[k].ver
  BY <1>2, <1>3 DEF Resource
<1>5. Outcome(k)' = "active" /\ job'[k].uid = 1 /\ job'[k].st = "active"
  <2>1. ran' = [ran EXCEPT ![<<k, 1>>] = "active"]
    BY <1>1, <1>2 DEF LaunchJob
  <2>2. job'[k] = [NoJob EXCEPT !.uid = 1, !.st = "active",
                                !.bucket = obj[k].storage, !.secret = temp[k]]
    BY <1>1, <1>2 DEF LaunchJob, TypeOK
  <2>3. job'[k].uid = 1 /\ job'[k].st = "active"
    BY <2>2, NoJobType DEF Job
  <2>4. QED
    BY <2>1, <2>3, OnceTypes DEF Outcome, TypeOK
<1>6. job'[k] # NoJob
  BY <1>5, NoJobType
<1>7. created[k] # 0
  BY <1>1, <1>2 DEF KindInv, Unborn
<1>8. Unborn(k)' /\ JobInv(k)'
  BY <1>1, <1>5, <1>7 DEF Unborn, JobInv
<1>9. ASSUME Exists(res[k])
      PROVE  LaunchInv(k)' /\ TellInv(k)' /\ FollowInv(k)'
  <2>1. LaunchInv(k) /\ TellInv(k) /\ FollowInv(k)
    BY <1>9 DEF KindInv
  <2>2. Outcome(k) = "none"
    BY <1>1, <2>1 DEF LaunchInv
  <2>3. LaunchInv(k)'
    BY <1>5, <1>6 DEF LaunchInv
  <2>4. /\ seenJob[k].st \notin {"complete", "failed"}
        /\ res[k].conds \cap {"Finished", "Failed"} = {}
        /\ Exists(seen[k]) => seen[k].conds \cap {"Finished", "Failed"} = {}
        /\ \A c \in Controllers : KindOf(c) = k /\ pc[c] # "idle" =>
              obj[c].conds \cap {"Finished", "Failed"} = {}
    BY <2>1, <2>2 DEF TellInv, Tells
  <2>5. \A c \in Controllers : KindOf(c) = k /\ pc'[c] # "idle" =>
           obj'[c].conds \cap {"Finished", "Failed"} = {}
    BY <1>1, <1>2, <1>3, <1>4, <2>4
  <2>6. TellInv(k)'
    BY <1>1, <2>4, <2>5 DEF TellInv, Tells, Exists
  <2>7. \A c \in Controllers : KindOf(c) = k /\ pc'[c] # "idle" => Follows(k, obj'[c])
    <3>1. Follows(k, obj[k])
      BY <1>1, <1>2, <2>1 DEF FollowInv
    <3>2. Follows(k, obj'[k])
      BY <1>4, <3>1 DEF Follows
    <3>3. QED
      BY <1>2, <1>3, <2>1, <3>2 DEF FollowInv
  <2>8. FollowInv(k)'
    BY <1>1, <2>1, <2>7 DEF FollowInv, Follows, Exists
  <2>9. QED
    BY <2>3, <2>6, <2>8
<1>10. QED
  BY <1>1, <1>8, <1>9 DEF KindInv, Exists

\* What updateStatus writes: the conditions of the copy, under a new version
\* unless nothing changes.
LEMMA StatusWritten ==
    ASSUME TypeOK, LocalsInv, NEW k \in Kinds, UpdateStatus(k)
    PROVE  /\ res[k].uid = obj[k].uid /\ res[k].ver = obj[k].ver /\ Exists(res[k])
           /\ res'[k].conds = obj[k].conds /\ res'[k].uid = res[k].uid
           /\ res'[k].spec = res[k].spec
           /\ \/ res'[k] = res[k]
              \/ res'[k].ver = res[k].ver + 1
           /\ \A j \in Kinds \ {k} : res'[j] = res[j]
<1>1. k \in Controllers /\ res[k] \in Resource /\ obj[k] \in Resource
  BY ControllersAre DEF TypeOK
<1>2. /\ res' = [res EXCEPT ![k] = StatusOf(k)] /\ pc[k] \in {"status", "sync"}
      /\ res[k].uid = obj[k].uid /\ res[k].ver = obj[k].ver
  BY DEF UpdateStatus, Current
<1>3. Exists(res[k])
  BY <1>1, <1>2, ToolAssumption DEF LocalsInv, Exists, Uids
<1> DEFINE new == [res[k] EXCEPT !.conds = obj[k].conds, !.storage = obj[k].storage]
<1>4. new.conds = obj[k].conds /\ new.uid = res[k].uid /\ new.spec = res[k].spec
      /\ new.ver = res[k].ver /\ new \in Resource
  BY <1>1 DEF Resource
<1>5. StatusOf(k) = IF new = res[k] THEN new ELSE [new EXCEPT !.ver = @ + 1]
  BY DEF StatusOf
<1> HIDE DEF new
<1>6. /\ StatusOf(k).conds = obj[k].conds /\ StatusOf(k).uid = res[k].uid
      /\ StatusOf(k).spec = res[k].spec
      /\ StatusOf(k) = res[k] \/ StatusOf(k).ver = res[k].ver + 1
  <2>1. CASE new = res[k]
    BY <1>4, <1>5, <2>1
  <2>2. CASE new # res[k]
    <3>1. StatusOf(k) = [new EXCEPT !.ver = @ + 1]
      BY <1>5, <2>2
    <3>2. QED
      BY <1>4, <3>1 DEF Resource
  <2>3. QED
    BY <2>1, <2>2
<1>7. res'[k] = StatusOf(k) /\ \A j \in Kinds \ {k} : res'[j] = res[j]
  BY <1>2 DEF TypeOK
<1>8. QED
  BY <1>2, <1>3, <1>6, <1>7

LEMMA UpdateKeeps ==
    ASSUME MaxUids = 1, TypeOK, LocalsInv, NEW k \in Kinds, KindInv(k), UpdateStatus(k),
           WorkersStay(k)
    PROVE  KindInv(k)'
<1>1. /\ UNCHANGED <<job, ran, created, seen, seenJob>> /\ pc[k] \in {"status", "sync"}
  BY DEF UpdateStatus, toolVars, cacheVars
<1>2. k \in Controllers /\ KindOf(k) = k
  BY ControllersAre DEF KindOf
<1>3. /\ res[k].uid = obj[k].uid /\ res[k].ver = obj[k].ver /\ Exists(res[k])
      /\ res'[k].conds = obj[k].conds /\ res'[k].uid = res[k].uid
      /\ res'[k] = res[k] \/ res'[k].ver = res[k].ver + 1
  BY StatusWritten
<1>4. LaunchInv(k) /\ TellInv(k) /\ FollowInv(k)
  BY <1>3 DEF KindInv
<1>5. Tells(k, obj[k])
  BY <1>1, <1>2, <1>4 DEF TellInv
<1>6. Outcome(k) # "none"
  <2>1. CASE pc[k] = "status"
    BY <1>4, <2>1 DEF LaunchInv
  <2>2. CASE pc[k] = "sync"
    BY <1>5, <2>2 DEF LocalsInv, Ended, Tells
  <2>3. QED
    BY <1>1, <2>1, <2>2
<1>7. created[k] # 0
  BY <1>1, <1>2 DEF KindInv, Unborn
<1>8. Unborn(k)' /\ JobInv(k)'
  BY <1>1, <1>7 DEF KindInv, Unborn, JobInv, Outcome
<1>9. LaunchInv(k)'
  BY <1>1, <1>4, <1>6 DEF LaunchInv, Outcome
<1>10. TellInv(k)'
  <2>1. \A c \in Controllers : KindOf(c) = k /\ pc'[c] # "idle" => Tells(k, obj'[c])
    BY <1>4 DEF TellInv, WorkersStay
  <2>2. QED
    BY <1>1, <1>3, <1>4, <1>5, <2>1 DEF TellInv, Tells, Exists, Outcome
<1>11. FollowInv(k)'
  <2>1. \A c \in Controllers : KindOf(c) = k /\ pc'[c] # "idle" => Follows(k, obj'[c])
    BY <1>4 DEF FollowInv, WorkersStay
  <2>2. ASSUME NEW r \in Resource, Follows(k, r)
        PROVE  /\ r.ver <= res'[k].ver
               /\ r.ver = res'[k].ver => res'[k].conds \subseteq r.conds
    <3>1. res[k].ver \in Nat /\ r.ver \in Nat
      BY OnceTypes DEF Resource
    <3>2. QED
      BY <1>3, <2>2, <3>1 DEF Follows
  <2>3. Exists(seen'[k]) => Follows(k, seen'[k])
    BY <1>1, <1>4 DEF FollowInv
  <2>4. seen'[k] \in Resource /\ \A c \in Controllers : obj'[c] \in Resource
    BY StatusType DEF TypeOK
  <2>5. QED
    BY <2>1, <2>2, <2>3, <2>4 DEF FollowInv, Follows, Exists
<1>12. QED
  BY <1>3, <1>8, <1>9, <1>10, <1>11 DEF KindInv, Exists

(***************************************************************************)
(* Every step is quiet for all kinds but one.                              *)
(***************************************************************************)

\* The steps that are not quiet for kind k.
Changes(k) ==
    \/ Create(k) \/ UserDeletes(k) \/ CollectJob(k) \/ CreateJob(k) \/ UpdateStatus(k)
    \/ Begin(k) /\ (HandleEnded(k) \/ HandleRunning(k))
    \/ JobStep(k) /\ JobHasEnded(k)
    \/ k = "backup" /\ (BeginCollect \/ DeleteBackup)

\* When the workers of a kind stay.
LEMMA Staying ==
    ASSUME TypeOK, NEW j \in Kinds
    PROVE  /\ UNCHANGED <<pc, obj>> => WorkersStay(j)
           /\ Restart => WorkersStay(j)
           /\ \A c \in Controllers : Return(c) => WorkersStay(j)
           /\ \A c \in Controllers, s \in Steps \ {"status"} :
                 Goto(c, s) /\ pc[c] # "idle" /\ UNCHANGED obj => WorkersStay(j)
           /\ \A c \in Controllers, s \in Steps :
                 j # KindOf(c) /\ Goto(c, s) /\ (\E o : obj' = [obj EXCEPT ![c] = o])
                    => WorkersStay(j)
<1> WorkerOK
  BY TypeParts
<1>1. UNCHANGED <<pc, obj>> => WorkersStay(j)
  BY DEF WorkersStay
<1>2. Restart => WorkersStay(j)
  BY DEF WorkersStay, Restart
<1>3. ASSUME NEW c \in Controllers, Return(c)
      PROVE  WorkersStay(j)
  BY <1>3, ReturnFacts DEF WorkersStay
<1>4. ASSUME NEW c \in Controllers, NEW s \in Steps \ {"status"}, Goto(c, s),
             pc[c] # "idle", UNCHANGED obj
      PROVE  WorkersStay(j)
  BY <1>4 DEF WorkersStay, Goto, WorkerOK
<1>5. ASSUME NEW c \in Controllers, NEW s \in Steps, j # KindOf(c),
             Goto(c, s), \E o : obj' = [obj EXCEPT ![c] = o]
      PROVE  WorkersStay(j)
  BY <1>5 DEF WorkersStay, Goto, WorkerOK
<1>6. QED
  BY <1>1, <1>2, <1>3, <1>4, <1>5

\* A step that neither writes a resource nor touches a job is quiet.
LEMMA CalmIsQuiet ==
    ASSUME NEW j \in Kinds, UNCHANGED <<res, created, ran, job, seen, seenJob>>,
           WorkersStay(j)
    PROVE  Quiet(j)
BY DEF Quiet, Outcome

\* Users, the clock and Kubernetes.
LEMMA WorldQuiet ==
    ASSUME TypeOK, NEW k \in Kinds, NEW u \in Uids, NEW j \in Kinds,
           \/ EditCluster \/ Expire(u) \/ CollectSecrets(k)
           \/ (Create(k) \/ UserDeletes(k) \/ CollectJob(k)) /\ j # k
           \/ JobStep(k) /\ (j # k \/ ~JobHasEnded(k))
    PROVE  Quiet(j)
<1> USE DEF toolVars, apiVars, cacheVars, workerVars, boundVars
<1>1. WorkersStay(j) /\ UNCHANGED <<seen, seenJob>>
  BY Staying DEF EditCluster, Expire, CollectSecrets, Create, UserDeletes, CollectJob, JobStep
<1>2. CASE EditCluster \/ Expire(u) \/ CollectSecrets(k)
  BY <1>1, <1>2, CalmIsQuiet DEF EditCluster, Expire, CollectSecrets
<1>3. CASE (Create(k) \/ UserDeletes(k)) /\ j # k
  <2>1. res'[j] = res[j] /\ created'[j] = created[j] /\ UNCHANGED <<job, ran>>
    BY <1>3 DEF Create, UserDeletes, TypeOK
  <2>2. QED
    BY <1>1, <2>1 DEF Quiet, Outcome
<1>4. CASE CollectJob(k) /\ j # k
  <2>1. job'[j] = job[j] /\ UNCHANGED <<res, created, ran>>
    BY <1>4 DEF CollectJob, TypeOK
  <2>2. QED
    BY <1>1, <2>1 DEF Quiet, Outcome
<1>5. CASE JobStep(k) /\ (j # k \/ ~JobHasEnded(k))
  <2>1. ToolOK /\ ToolStep(k) /\ UNCHANGED <<res, created>>
    BY <1>5, TypeParts DEF JobStep
  <2>2. job[k].st = "active" /\ (JobGoesOn(k) \/ JobHasEnded(k))
    BY <2>1, JobProgress
  <2>3. <<j, 1>> \in Requests
    BY ToolAssumption DEF Requests, Uids
  <2>4. CASE j # k
    <3>1. job'[j] = job[j] /\ ran'[<<j, 1>>] = ran[<<j, 1>>]
      BY <2>1, <2>2, <2>3, <2>4 DEF JobGoesOn, JobHasEnded, ToolOK
    <3>2. QED
      BY <1>1, <2>1, <3>1 DEF Quiet, Outcome
  <2>5. CASE j = k /\ JobGoesOn(k)
    <3>1. job'[k].uid = job[k].uid /\ job'[k].st = job[k].st /\ ran' = ran
      BY <2>5 DEF JobGoesOn
    <3>2. job[k] # NoJob /\ job'[k] # NoJob
      BY <2>2, <3>1, NoJobType
    <3>3. QED
      BY <1>1, <2>1, <2>5, <3>1, <3>2 DEF Quiet, Outcome
  <2>6. QED
    BY <1>5, <2>2, <2>4, <2>5
<1>6. QED
  BY <1>2, <1>3, <1>4, <1>5

\* Informers, failures, and the steps of a worker that only go on.
LEMMA WorkerQuiet ==
    ASSUME TypeOK, LocalsInv, NEW k \in Kinds, NEW c \in Controllers, NEW j \in Kinds,
           \/ ResourceEvent(k) \/ JobEvent(k) \/ Resync(k)
           \/ Begin(k) /\ HandleNothing(k)
           \/ GetSecret(k) \/ JobAlreadyExists(k) \/ UpdateStatusConflict(k)
           \/ ClearSecrets(k)
           \/ CollectNothing
           \/ "gc" \in Controllers /\ (DeleteBackupData \/ DataNotDeleted)
           \/ CallFails(c) \/ Crash \/ Panic(c)
    PROVE  Quiet(j)
<1> USE DEF toolVars, apiVars, cacheVars, workerVars, boundVars
<1>1. k \in Controllers /\ {"job", "delete"} \subseteq Steps \ {"status"}
  BY ControllersAre DEF Steps
<1>2. CASE ResourceEvent(k)
  <2>1. UNCHANGED <<res, created, ran, job, seenJob, pc, obj>>
        /\ seen'[j] \in {seen[j], res[j]}
    BY <1>2 DEF ResourceEvent, TypeOK
  <2>2. QED
    BY <2>1, Staying DEF Quiet, Outcome
<1>3. CASE JobEvent(k)
  <2>1. UNCHANGED <<res, created, ran, job, seen, pc, obj>>
        /\ seenJob'[j] \in {seenJob[j], JobSeen(job[j])}
    BY <1>3 DEF JobEvent, TypeOK
  <2>2. QED
    BY <2>1, Staying DEF Quiet, Outcome
<1>4. CASE Resync(k) \/ (Begin(k) /\ HandleNothing(k)) \/ CollectNothing
  BY <1>4, Staying, CalmIsQuiet DEF Resync, Begin, HandleNothing, CollectNothing
<1>5. CASE GetSecret(k)
  <2>1. UNCHANGED <<res, created, ran, job, seen, seenJob>> /\ pc[k] # "idle"
    BY <1>5 DEF GetSecret
  <2>2. Return(k) \/ (Goto(k, "job") /\ UNCHANGED obj)
    BY <1>5 DEF GetSecret, CreateTempSecret
  <2>3. QED
    BY <1>1, <2>1, <2>2, Staying, CalmIsQuiet
<1>6. CASE JobAlreadyExists(k) \/ UpdateStatusConflict(k) \/ ClearSecrets(k) \/ CallFails(c)
  <2>1. UNCHANGED <<res, created, ran, job, seen, seenJob>> /\ (Return(k) \/ Return(c))
    BY <1>6 DEF JobAlreadyExists, UpdateStatusConflict, ClearSecrets, CallFails
  <2>2. QED
    BY <1>1, <2>1, Staying, CalmIsQuiet
<1>7. CASE "gc" \in Controllers /\ (DeleteBackupData \/ DataNotDeleted)
  <2>1. UNCHANGED <<res, created, ran, job, seen, seenJob, obj>>
        /\ pc["gc"] = "data" /\ Goto("gc", "delete")
    BY <1>7 DEF DeleteBackupData, DataNotDeleted
  <2>2. QED
    BY <1>1, <1>7, <2>1, Staying, CalmIsQuiet
<1>8. CASE Crash \/ Panic(c)
  <2>1. Restart /\ UNCHANGED <<res, created, ran, job>>
    BY <1>8 DEF Crash, Panic
  <2>2. seen'[j] = res[j] /\ seenJob'[j] = JobSeen(NoJob)
    BY <2>1 DEF Restart
  <2>3. QED
    BY <2>1, <2>2, Staying DEF Quiet, Outcome
<1>9. QED
  BY <1>2, <1>3, <1>4, <1>5, <1>6, <1>7, <1>8

\* A worker that takes a key, creates a job, writes a status or deletes a
\* backup is quiet for the other kinds.
LEMMA OthersQuiet ==
    ASSUME TypeOK, LocalsInv, NEW k \in Kinds, NEW j \in Kinds \ {k},
           \/ Begin(k) /\ (HandleEnded(k) \/ HandleRunning(k))
           \/ CreateJob(k) \/ UpdateStatus(k)
           \/ k = "backup" /\ (BeginCollect \/ DeleteBackup)
    PROVE  Quiet(j)
<1> USE DEF toolVars, apiVars, cacheVars, workerVars, boundVars
<1>1. /\ k \in Controllers /\ KindOf(k) = k
      /\ k = "backup" => "gc" \in Controllers /\ KindOf("gc") = k
  BY ControllersAre DEF KindOf
<1>2. CASE Begin(k) /\ (HandleEnded(k) \/ HandleRunning(k))
  <2>1. UNCHANGED <<res, created, ran, job, seen, seenJob>>
    BY <1>2 DEF Begin
  <2>2. (\E s \in Steps : Goto(k, s)) /\ (\E o : obj' = [obj EXCEPT ![k] = o])
    BY <1>2 DEF HandleEnded, HandleRunning, Steps
  <2>3. QED
    BY <1>1, <2>1, <2>2, Staying, CalmIsQuiet
<1>3. CASE CreateJob(k)
  <2>1. /\ UNCHANGED <<res, created, seen, seenJob>> /\ Goto(k, "status")
        /\ LaunchJob(k, obj[k].uid, obj[k].storage, temp[k])
        /\ obj' = [obj EXCEPT ![k].conds = @ \cup {"Started"}]
    BY <1>3 DEF CreateJob
  <2>2. \E o : obj' = [obj EXCEPT ![k] = o]
    BY <2>1
  <2>3. WorkersStay(j)
    BY <1>1, <2>1, <2>2, Staying DEF Steps
  <2>4. <<j, 1>> \in Requests
    BY ToolAssumption DEF Requests, Uids
  <2>5. job'[j] = job[j] /\ ran'[<<j, 1>>] = ran[<<j, 1>>]
    BY <2>1, <2>4 DEF LaunchJob, TypeOK
  <2>6. QED
    BY <2>1, <2>3, <2>5 DEF Quiet, Outcome
<1>4. CASE UpdateStatus(k)
  <2>1. UNCHANGED <<created, ran, job, seen, seenJob>> /\ res'[j] = res[j]
    BY <1>4, StatusWritten DEF UpdateStatus
  <2>2. pc[k] # "idle" /\ (Return(k) \/ (Goto(k, "clear") /\ UNCHANGED obj))
    BY <1>4 DEF UpdateStatus
  <2>3. WorkersStay(j)
    BY <1>1, <2>2, Staying DEF Steps
  <2>4. QED
    BY <2>1, <2>3 DEF Quiet, Outcome
<1>5. CASE k = "backup" /\ BeginCollect
  <2>1. /\ UNCHANGED <<res, created, ran, job, seen, seenJob>>
        /\ Goto("gc", "data") /\ \E o : obj' = [obj EXCEPT !["gc"] = o]
    BY <1>5 DEF BeginCollect
  <2>2. QED
    BY <1>1, <1>5, <2>1, Staying, CalmIsQuiet DEF Steps
<1>6. CASE k = "backup" /\ DeleteBackup
  <2>1. /\ UNCHANGED <<created, ran, job, seen, seenJob>> /\ Return("gc")
        /\ res'[j] = res[j]
    BY <1>6 DEF DeleteBackup, TypeOK
  <2>2. QED
    BY <1>1, <1>6, <2>1, Staying DEF Quiet, Outcome
<1>7. QED
  BY <1>2, <1>3, <1>4, <1>5, <1>6

LEMMA OneKindChanges ==
    ASSUME TypeOK, LocalsInv, [Next]_vars
    PROVE  \/ \A j \in Kinds : Quiet(j)
           \/ \E k \in Kinds : Changes(k) /\ \A j \in Kinds \ {k} : Quiet(j)
<1>1. PICK i \in Kinds : TRUE
  BY ToolAssumption
<1>2. i \in Controllers /\ 1 \in Uids
  BY ControllersAre, ToolAssumption DEF Uids
<1>3. ASSUME NEW k \in Kinds, Create(k) \/ UserDeletes(k) \/ Kubernetes(k) \/ JobStep(k)
      PROVE  \/ \A j \in Kinds : Quiet(j)
             \/ Changes(k) /\ \A j \in Kinds \ {k} : Quiet(j)
  BY <1>2, <1>3, WorldQuiet DEF Kubernetes, Changes
<1>4. ASSUME EditCluster \/ \E u \in Uids : Expire(u)
      PROVE  \A j \in Kinds : Quiet(j)
  BY <1>1, <1>2, <1>4, WorldQuiet
<1>5. ASSUME NEW k \in Kinds, ResourceEvent(k) \/ JobEvent(k) \/ Resync(k)
      PROVE  \A j \in Kinds : Quiet(j)
  BY <1>2, <1>5, WorkerQuiet
<1>6. ASSUME NEW c \in Controllers, CallFails(c) \/ Panic(c)
      PROVE  \A j \in Kinds : Quiet(j)
  BY <1>1, <1>6, WorkerQuiet
<1>7. ASSUME NEW k \in Kinds,
             \/ Begin(k) \/ GetSecret(k) \/ CreateJob(k) \/ JobAlreadyExists(k)
             \/ UpdateStatus(k) \/ UpdateStatusConflict(k) \/ ClearSecrets(k)
      PROVE  \/ \A j \in Kinds : Quiet(j)
             \/ Changes(k) /\ \A j \in Kinds \ {k} : Quiet(j)
  <2>1. CASE CreateJob(k) \/ UpdateStatus(k) \/ (Begin(k) /\ ~HandleNothing(k))
    BY <2>1, OthersQuiet DEF Begin, Changes
  <2>2. CASE \/ Begin(k) /\ HandleNothing(k)
             \/ GetSecret(k) \/ JobAlreadyExists(k) \/ UpdateStatusConflict(k)
             \/ ClearSecrets(k)
    BY <1>2, <2>2, WorkerQuiet
  <2>3. QED
    BY <1>7, <2>1, <2>2
<1>8. ASSUME "gc" \in Controllers,
             \/ BeginCollect \/ CollectNothing \/ DeleteBackupData \/ DeleteBackup
             \/ DataNotDeleted
      PROVE  \/ \A j \in Kinds : Quiet(j)
             \/ \E k \in Kinds : Changes(k) /\ \A j \in Kinds \ {k} : Quiet(j)
  <2>1. "backup" \in Kinds
    BY <1>8, ControllersAre
  <2>2. CASE BeginCollect \/ DeleteBackup
    BY <2>1, <2>2, OthersQuiet DEF Changes
  <2>3. CASE CollectNothing \/ DeleteBackupData \/ DataNotDeleted
    BY <1>2, <1>8, <2>1, <2>3, WorkerQuiet
  <2>4. QED
    BY <1>8, <2>2, <2>3
<1>9. ASSUME Crash
      PROVE  \A j \in Kinds : Quiet(j)
  BY <1>1, <1>2, <1>9, WorkerQuiet
<1>10. ASSUME UNCHANGED vars
      PROVE  \A j \in Kinds : Quiet(j)
  BY <1>10, Staying, CalmIsQuiet DEF vars, toolVars, apiVars, cacheVars, workerVars
<1>11. ASSUME NEW c \in Controllers, Worker(c)
      PROVE  \/ \A j \in Kinds : Quiet(j)
             \/ \E k \in Kinds : Changes(k) /\ \A j \in Kinds \ {k} : Quiet(j)
  <2>1. CASE Panic(c)
    BY <1>6, <2>1
  <2>2. CASE c \in Kinds /\ ~Panic(c)
    BY <1>7, <1>11, <2>2, ControllersAre DEF Worker
  <2>3. CASE c \notin Kinds /\ ~Panic(c)
    BY <1>8, <1>11, <2>3, ControllersAre DEF Worker
  <2>4. QED
    BY <2>1, <2>2, <2>3
<1>12. ASSUME DataNotDeleted
       PROVE  \/ \A j \in Kinds : Quiet(j)
              \/ \E k \in Kinds : Changes(k) /\ \A j \in Kinds \ {k} : Quiet(j)
  BY <1>8, <1>12 DEF DataNotDeleted
<1>13. QED
  BY <1>3, <1>4, <1>5, <1>6, <1>9, <1>10, <1>11, <1>12 DEF Next

(***************************************************************************)
(* The invariant, and the refinement of BackupRequest.                     *)
(***************************************************************************)

LEMMA InitRequest == Init => RequestInv
<1> SUFFICES ASSUME Init, NEW k \in Kinds PROVE KindInv(k)
  BY DEF RequestInv
<1>1. <<k, 1>> \in Requests
  BY ToolAssumption DEF Requests, Uids
<1>2. /\ res[k] = NoResource /\ seen[k] = NoResource /\ job[k] = NoJob
      /\ Outcome(k) = "none" /\ seenJob[k] = JobSeen(NoJob)
      /\ \A c \in Controllers : pc[c] = "idle"
  BY <1>1 DEF Init, ToolInit, Outcome
<1>3. NoResource.conds = {} /\ ~Exists(NoResource) /\ JobSeen(NoJob).st = "none"
  BY DEF NoResource, Exists, JobSeen, NoJob
<1>4. QED
  BY <1>2, <1>3 DEF KindInv, Unborn, JobInv

\* A step that changes kind k keeps what is known of it.
LEMMA ChangeKeeps ==
    ASSUME MaxUids = 1, TypeOK, LocalsInv, NEW k \in Kinds, KindInv(k), Changes(k)
    PROVE  KindInv(k)'
<1> USE DEF toolVars, apiVars, cacheVars, workerVars, boundVars
<1>1. /\ k \in Controllers /\ KindOf(k) = k /\ seen[k] \in Resource
      /\ k = "backup" => "gc" \in Controllers /\ KindOf("gc") = k
  BY ControllersAre DEF KindOf, TypeOK
<1>2. CASE Create(k)
  BY <1>2, CreateKeeps
<1>3. CASE UserDeletes(k)
  BY <1>3, DeleteKeeps, Staying DEF UserDeletes
<1>4. CASE CollectJob(k)
  BY <1>4, CollectKeeps
<1>5. CASE CreateJob(k)
  BY <1>5, LaunchKeeps
<1>6. CASE UpdateStatus(k)
  <2>1. pc[k] # "idle" /\ (Return(k) \/ (Goto(k, "clear") /\ UNCHANGED obj))
    BY <1>6 DEF UpdateStatus
  <2>2. WorkersStay(k)
    BY <1>1, <2>1, Staying DEF Steps
  <2>3. QED
    BY <1>6, <2>2, UpdateKeeps
<1>7. CASE Begin(k) /\ HandleEnded(k)
  <2> DEFINE o == [seen[k] EXCEPT !.storage = seen[k].spec.storage]
  <2>1. o \in Resource /\ o.conds = seen[k].conds /\ o.ver = seen[k].ver
    BY <1>1, ResourceWrites, StorageTypes DEF Resource
  <2>2. /\ UNCHANGED <<job, ran, res, created, seen, seenJob>> /\ Exists(seen[k])
        /\ obj' = [obj EXCEPT ![k] = o]
        /\ \E s \in {"sync", "clear"} : pc' = [pc EXCEPT ![k] = s]
    BY <1>7 DEF Begin, HandleEnded, Goto
  <2> HIDE DEF o
  <2>3. PICK s \in {"sync", "clear"} : pc' = [pc EXCEPT ![k] = s]
    BY <2>2
  <2>4. s \in Steps /\ s # "status"
    BY DEF Steps
  <2>5. QED
    BY <1>1, <2>1, <2>2, <2>3, <2>4, TakeKeeps
<1>8. CASE Begin(k) /\ HandleRunning(k)
  <2> DEFINE o == [seen[k] EXCEPT !.storage = StorageOf(seen[k]),
                                  !.conds = @ \cup JobConditions(k)]
  <2>1. StorageOf(seen[k]) \in Buckets
    BY <1>1, <1>8, StorageTypes DEF HandleRunning, StorageOf, TypeOK
  <2>2. seen[k].conds \cup JobConditions(k) \in SUBSET {"Started", "Finished", "Failed"}
    BY <1>1 DEF JobConditions, Resource
  <2>3. /\ o \in Resource /\ o.ver = seen[k].ver
        /\ o.conds = seen[k].conds \cup JobConditions(k)
    BY <1>1, <2>1, <2>2, ResourceWrites DEF Resource
  <2>4. /\ UNCHANGED <<job, ran, res, created, seen, seenJob>> /\ Exists(seen[k])
        /\ obj' = [obj EXCEPT ![k] = o]
        /\ pc' = [pc EXCEPT ![k] = IF seenJob[k].st = "none" THEN "secret" ELSE "status"]
    BY <1>8 DEF Begin, HandleRunning, Goto
  <2> HIDE DEF o
  <2>5. PICK s \in Steps : /\ pc' = [pc EXCEPT ![k] = s]
                           /\ s = "status" => seenJob[k].st # "none"
    BY <2>4 DEF Steps
  <2>6. QED
    BY <1>1, <2>3, <2>4, <2>5, TakeKeeps
<1>9. CASE JobStep(k) /\ JobHasEnded(k)
  <2>1. job[k].st = "active" /\ UNCHANGED <<res, created, seen, seenJob, pc, obj>>
    BY <1>9, JobProgress, TypeParts DEF JobStep
  <2>2. QED
    BY <1>9, <2>1, EndKeeps
<1>10. CASE k = "backup" /\ BeginCollect
  <2> DEFINE o == [seen[k] EXCEPT !.storage = StorageOf(seen[k])]
  <2>1. StorageOf(seen[k]) \in Buckets
    BY <1>1, <1>10, StorageTypes DEF BeginCollect, HasExpired, StorageOf, TypeOK
  <2>2. o \in Resource /\ o.ver = seen[k].ver /\ o.conds = seen[k].conds
    BY <1>1, <2>1, ResourceWrites DEF Resource
  <2>3. /\ UNCHANGED <<job, ran, res, created, seen, seenJob>> /\ Exists(seen[k])
        /\ obj' = [obj EXCEPT !["gc"] = o] /\ pc' = [pc EXCEPT !["gc"] = "data"]
    BY <1>10 DEF BeginCollect, HasExpired, Goto
  <2>4. "data" \in Steps /\ "data" # "status" /\ "gc" \in Controllers /\ KindOf("gc") = k
    BY <1>1, <1>10 DEF Steps
  <2> HIDE DEF o
  <2>5. QED
    BY <2>2, <2>3, <2>4, TakeKeeps
<1>11. CASE k = "backup" /\ DeleteBackup
  <2>1. /\ UNCHANGED <<job, ran, seen, seenJob, created>> /\ Return("gc")
        /\ res' = [res EXCEPT ![k] = NoResource]
    BY <1>11 DEF DeleteBackup
  <2>2. QED
    BY <1>1, <1>11, <2>1, Staying, DeleteKeeps
<1>12. QED
  BY <1>2, <1>3, <1>4, <1>5, <1>6, <1>7, <1>8, <1>9, <1>10, <1>11 DEF Changes

LEMMA NextRequest ==
    MaxUids = 1 /\ TypeOK /\ LocalsInv /\ RequestInv /\ [Next]_vars => RequestInv'
<1> SUFFICES ASSUME MaxUids = 1, TypeOK, LocalsInv, RequestInv, [Next]_vars,
                    NEW j \in Kinds
             PROVE  KindInv(j)'
  BY DEF RequestInv
<1>1. Quiet(j) \/ Changes(j)
  BY OneKindChanges
<1>2. KindInv(j)
  BY DEF RequestInv
<1>3. QED
  BY <1>1, <1>2, QuietKeeps, ChangeKeeps

\* The three invariants together.
Known == TypeOK /\ LocalsInv /\ RequestInv

LEMMA KnownAlways == ASSUME MaxUids = 1 PROVE Spec => []Known
<1>1. Init => Known
  BY InitType, InitRequest DEF Known
<1>2. Known /\ [Next]_vars => Known'
  BY NextType, NextRequest DEF Known
<1>3. QED
  BY <1>1, <1>2, PTL DEF Spec

\* What a resource that exists says.
Report(r) ==
    IF "Finished" \in r.conds THEN "complete"
    ELSE IF "Failed" \in r.conds THEN "failed" ELSE "asked"

\* What ReportOf says of the one resource of kind k.
LEMMA ReportIs ==
    ASSUME MaxUids = 1, Known, NEW k \in Kinds
    PROVE  /\ created[k] = 0 => ReportOf(k, 1) = "none"
           /\ created[k] # 0 /\ ~Exists(res[k]) => ReportOf(k, 1) = "deleted"
           /\ Exists(res[k]) => /\ created[k] # 0
                                /\ ReportOf(k, 1) = Report(res[k])
<1>1. created[k] \in {0, 1} /\ res[k].uid \in {0, 1}
  BY OnceTypes DEF Known
<1>2. (1 > created[k]) <=> (created[k] = 0)
  <2>1. CASE created[k] = 0
    BY <2>1
  <2>2. CASE created[k] = 1
    BY <2>2
  <2>3. QED
    BY <1>1, <2>1, <2>2
<1>3. created[k] = 0 => ~Exists(res[k])
  BY DEF Known, RequestInv, KindInv, Unborn, Exists, NoResource
<1>4. Exists(res[k]) <=> res[k].uid = 1
  BY <1>1 DEF Exists
<1>5. QED
  BY <1>2, <1>3, <1>4 DEF ReportOf, Report

\* A kind that is quiet stutters.
LEMMA QuietStutters ==
    ASSUME NEW j \in Kinds, Quiet(j)
    PROVE  ReportOf(j, 1)' = ReportOf(j, 1) /\ Outcome(j)' = Outcome(j)
BY DEF Quiet, ReportOf

\* What a step does to the report and the operation of kind k, as steps of
\* BackupRequest.
Asked(k) == ReportOf(k, 1) = "none" /\ ReportOf(k, 1)' = "asked" /\ Outcome(k)' = Outcome(k)
Launched(k) ==
    /\ \/ ReportOf(k, 1) = "asked" /\ Outcome(k) = "none"
       \/ ReportOf(k, 1) = "deleted"
    /\ Outcome(k)' = "active" /\ ReportOf(k, 1)' = ReportOf(k, 1)
EndedNow(k) ==
    /\ Outcome(k) = "active" /\ Outcome(k)' \in {"complete", "failed"}
    /\ ReportOf(k, 1)' = ReportOf(k, 1)
Reported(k) ==
    /\ ReportOf(k, 1) = "asked" /\ Outcome(k) \in {"complete", "failed"}
    /\ ReportOf(k, 1)' = Outcome(k) /\ Outcome(k)' = Outcome(k)
Deleted(k) ==
    /\ ReportOf(k, 1) \in {"asked", "complete", "failed"} /\ ReportOf(k, 1)' = "deleted"
    /\ Outcome(k)' = Outcome(k)
Stutters(k) == ReportOf(k, 1)' = ReportOf(k, 1) /\ Outcome(k)' = Outcome(k)

LEMMA ChangeSimulates ==
    ASSUME MaxUids = 1, Known, Known', NEW k \in Kinds, Changes(k)
    PROVE  \/ Asked(k) \/ Launched(k) \/ EndedNow(k) \/ Reported(k) \/ Deleted(k)
           \/ Stutters(k)
<1> USE DEF toolVars, apiVars, cacheVars, workerVars, boundVars
<1> TypeOK /\ LocalsInv /\ KindInv(k) /\ KindInv(k)'
  BY DEF Known, RequestInv
<1>1. /\ k \in Controllers /\ KindOf(k) = k /\ <<k, 1>> \in Requests
      /\ k = "backup" => "gc" \in Controllers /\ KindOf("gc") = k
  BY ControllersAre, OnceTypes DEF KindOf
<1>2. CASE Create(k)
  <2>1. created[k] \in {0, 1} /\ created[k] < 1 /\ UNCHANGED ran
    BY <1>2, OnceTypes DEF Create
  <2>2. ReportOf(k, 1) = "none"
    BY <2>1, ReportIs
  <2>3. PICK spec \in Specs :
           res' = [res EXCEPT ![k] = [NoResource EXCEPT !.uid = created[k] + 1, !.spec = spec]]
    BY <1>2 DEF Create
  <2>4. /\ res'[k].uid = created[k] + 1 /\ res'[k].conds = {}
        /\ created'[k] = created[k] + 1
    BY <1>2, <2>3 DEF Create, TypeOK, NoResource
  <2>5. res'[k].uid = 1 /\ ~(1 > created'[k])
    BY <2>1, <2>4
  <2>6. ReportOf(k, 1)' = "asked"
    BY <2>4, <2>5 DEF ReportOf
  <2>7. QED
    BY <2>1, <2>2, <2>6 DEF Asked, Outcome
<1>3. CASE \/ UserDeletes(k)
           \/ k = "backup" /\ DeleteBackup
  <2>1. res'[k] = NoResource /\ UNCHANGED <<created, ran>>
    BY <1>3 DEF UserDeletes, DeleteBackup, TypeOK
  <2>2. res'[k].uid # 1
    BY <2>1 DEF NoResource
  <2>3. CASE Exists(res[k])
    <3>1. ReportOf(k, 1) \in {"asked", "complete", "failed"} /\ created[k] # 0
      BY <2>3, ReportIs DEF Report
    <3>2. ~(1 > created[k])
      <4>1. created[k] \in {0, 1}
        BY OnceTypes
      <4>2. QED
        BY <3>1, <4>1
    <3>3. ReportOf(k, 1)' = "deleted"
      BY <2>1, <2>2, <3>2 DEF ReportOf
    <3>4. QED
      BY <2>1, <3>1, <3>3 DEF Deleted, Outcome
  <2>4. CASE ~Exists(res[k])
    <3>1. res[k].uid # 1
      BY <2>4 DEF Exists
    <3>2. ReportOf(k, 1)' = ReportOf(k, 1)
      BY <2>1, <2>2, <3>1 DEF ReportOf
    <3>3. QED
      BY <2>1, <3>2 DEF Stutters, Outcome
  <2>5. QED
    BY <2>3, <2>4
<1>4. CASE \/ CollectJob(k)
           \/ Begin(k) /\ (HandleEnded(k) \/ HandleRunning(k))
           \/ k = "backup" /\ BeginCollect
  BY <1>4 DEF CollectJob, Begin, BeginCollect, Stutters, ReportOf, Outcome
<1>5. CASE CreateJob(k)
  <2>1. UNCHANGED <<res, created>> /\ pc[k] = "job" /\ job[k] = NoJob
    BY <1>5 DEF CreateJob, LaunchJob
  <2>2. obj[k].uid = 1
    BY <1>1, <2>1, OnceTypes DEF LocalsInv
  <2>3. Outcome(k)' = "active"
    BY <1>1, <1>5, <2>2 DEF CreateJob, LaunchJob, Outcome, TypeOK
  <2>4. created[k] # 0
    BY <1>1, <2>1 DEF KindInv, Unborn
  <2>5. ReportOf(k, 1)' = ReportOf(k, 1)
    BY <2>1 DEF ReportOf
  <2>6. CASE Exists(res[k])
    <3>1. Outcome(k) = "none" /\ Tells(k, res[k])
      BY <2>1, <2>6 DEF KindInv, LaunchInv, TellInv
    <3>2. "Finished" \notin res[k].conds /\ "Failed" \notin res[k].conds
      BY <3>1 DEF Tells
    <3>3. ReportOf(k, 1) = "asked"
      BY <2>6, <3>2, ReportIs DEF Report
    <3>4. QED
      BY <2>3, <2>5, <3>1, <3>3 DEF Launched
  <2>7. CASE ~Exists(res[k])
    BY <2>3, <2>4, <2>5, <2>7, ReportIs DEF Launched
  <2>8. QED
    BY <2>6, <2>7
<1>6. CASE JobStep(k) /\ JobHasEnded(k)
  <2>1. job[k].st = "active" /\ UNCHANGED <<res, created>>
    BY <1>6, JobProgress, TypeParts DEF JobStep
  <2>2. job[k].uid = 1 /\ Outcome(k) = "active"
    BY <2>1, NoJobType DEF KindInv, JobInv
  <2>3. Outcome(k)' \in {"complete", "failed"}
    BY <1>1, <1>6, <2>2 DEF JobHasEnded, Outcome, TypeOK
  <2>4. QED
    BY <2>1, <2>2, <2>3 DEF EndedNow, ReportOf
<1>7. CASE UpdateStatus(k)
  <2>1. UNCHANGED <<created, ran>> /\ pc[k] # "idle"
    BY <1>7 DEF UpdateStatus
  <2>2. /\ res[k].ver = obj[k].ver /\ Exists(res[k])
        /\ res'[k].conds = obj[k].conds /\ res'[k].uid = res[k].uid
    BY <1>7, StatusWritten
  <2>3. Tells(k, res[k]) /\ Tells(k, obj[k]) /\ res[k].conds \subseteq obj[k].conds
    BY <1>1, <2>1, <2>2 DEF KindInv, TellInv, FollowInv, Follows
  <2>4. Exists(res'[k])
    BY <2>2 DEF Exists
  <2>5. /\ ReportOf(k, 1) = Report(res[k])
        /\ ReportOf(k, 1)' = Report(obj[k])
    <3>1. res[k].uid = 1 /\ ~(1 > created[k])
      <4>1. created[k] \in {0, 1} /\ created[k] # 0 /\ res[k].uid \in {0, 1}
        BY <2>2, ReportIs, OnceTypes
      <4>2. QED
        BY <2>2, <4>1 DEF Exists
    <3>2. QED
      BY <2>1, <2>2, <3>1 DEF ReportOf, Report
  <2>6. CASE res[k].conds \cap {"Finished", "Failed"} # {}
    <3>1. ReportOf(k, 1)' = ReportOf(k, 1)
      BY <2>3, <2>5, <2>6 DEF Tells, Report
    <3>2. QED
      BY <2>1, <3>1 DEF Stutters, Outcome
  <2>7. CASE res[k].conds \cap {"Finished", "Failed"} = {}
    <3>1. ReportOf(k, 1) = "asked"
      BY <2>5, <2>7 DEF Report
    <3>2. \/ ReportOf(k, 1)' = "asked"
          \/ ReportOf(k, 1)' = Outcome(k) /\ Outcome(k) \in {"complete", "failed"}
      BY <2>3, <2>5 DEF Tells, Report
    <3>3. QED
      BY <2>1, <3>1, <3>2 DEF Stutters, Reported, Outcome
  <2>8. QED
    BY <2>6, <2>7
<1>8. QED
  BY <1>2, <1>3, <1>4, <1>5, <1>6, <1>7 DEF Changes

\* A step is one of BackupRequest, for the kind that changes, or a stutter.
LEMMA StepSimulates ==
    ASSUME MaxUids = 1, Known, Known', [Next]_vars
    PROVE  [Request!Next]_(Request!vars)
<1> DEFINE rep == [q \in Requests |-> ReportOf(q[1], q[2])]
<1> TypeOK /\ TypeOK' /\ LocalsInv
  BY DEF Known
<1>1. Requests = {<<k, 1>> : k \in Kinds}
  BY DEF Requests, Uids
<1>2. \A k \in Kinds : <<k, 1>> \in Requests /\ rep[<<k, 1>>] = ReportOf(k, 1)
                       /\ rep'[<<k, 1>>] = ReportOf(k, 1)'
  BY <1>1
<1>3. /\ ran \in [Requests -> {"none", "active", "complete", "failed"}]
      /\ ran' \in [Requests -> {"none", "active", "complete", "failed"}]
      /\ \A k \in Kinds : Outcome(k) = ran[<<k, 1>>] /\ Outcome(k)' = ran'[<<k, 1>>]
  BY DEF TypeOK, Outcome
<1>4. rep = [q \in Requests |-> rep[q]] /\ rep' = [q \in Requests |-> rep'[q]]
  OBVIOUS
<1> HIDE DEF rep
<1>5. CASE \A j \in Kinds : Quiet(j)
  <2>1. \A j \in Kinds : rep'[<<j, 1>>] = rep[<<j, 1>>] /\ ran'[<<j, 1>>] = ran[<<j, 1>>]
    BY <1>2, <1>3, <1>5, QuietStutters
  <2>2. \A q \in Requests : rep'[q] = rep[q] /\ ran'[q] = ran[q]
    BY <1>1, <2>1
  <2>3. rep' = rep /\ ran' = ran
    BY <1>3, <1>4, <2>2
  <2>4. QED
    BY <2>3 DEF Request!vars, rep
<1>6. CASE \E k \in Kinds : Changes(k) /\ \A j \in Kinds \ {k} : Quiet(j)
  <2>1. PICK k \in Kinds : Changes(k) /\ \A j \in Kinds \ {k} : Quiet(j)
    BY <1>6
  <2> DEFINE q == <<k, 1>>
  <2>2. \A j \in Kinds \ {k} : rep'[<<j, 1>>] = rep[<<j, 1>>] /\ ran'[<<j, 1>>] = ran[<<j, 1>>]
    BY <1>2, <1>3, <2>1, QuietStutters
  <2>3. q \in Requests /\ \A p \in Requests \ {q} : rep'[p] = rep[p] /\ ran'[p] = ran[p]
    BY <1>1, <2>2
  <2>4. rep[q] = ReportOf(k, 1) /\ rep'[q] = ReportOf(k, 1)'
        /\ ran[q] = Outcome(k) /\ ran'[q] = Outcome(k)'
    BY <1>2, <1>3
  <2> HIDE DEF q
  <2>5. rep' = [rep EXCEPT ![q] = rep'[q]] /\ ran' = [ran EXCEPT ![q] = ran'[q]]
    BY <1>3, <1>4, <2>3
  <2>6. (rep'[q] = rep[q] => rep' = rep) /\ (ran'[q] = ran[q] => ran' = ran)
    BY <1>3, <1>4, <2>3
  <2>7. CASE Asked(k)
    <3>1. Request!Ask(q)
      BY <2>4, <2>5, <2>6, <2>7 DEF Asked, Request!Ask, rep
    <3>2. QED
      BY <2>3, <3>1 DEF Request!Next
  <2>8. CASE Launched(k)
    <3>1. Request!Launch(q)
      BY <2>4, <2>5, <2>6, <2>8 DEF Launched, Request!Launch, rep
    <3>2. QED
      BY <2>3, <3>1 DEF Request!Next
  <2>9. CASE EndedNow(k)
    <3>1. Request!End(q)
      BY <2>4, <2>5, <2>6, <2>9 DEF EndedNow, Request!End, rep
    <3>2. QED
      BY <2>3, <3>1 DEF Request!Next
  <2>10. CASE Reported(k)
    <3>1. Request!Report(q)
      BY <2>4, <2>5, <2>6, <2>10 DEF Reported, Request!Report, rep
    <3>2. QED
      BY <2>3, <3>1 DEF Request!Next
  <2>11. CASE Deleted(k)
    <3>1. Request!Delete(q)
      BY <2>4, <2>5, <2>6, <2>11 DEF Deleted, Request!Delete, rep
    <3>2. QED
      BY <2>3, <3>1 DEF Request!Next
  <2>12. CASE Stutters(k)
    BY <2>4, <2>6, <2>12 DEF Stutters, Request!vars, rep
  <2>13. QED
    BY <2>1, <2>7, <2>8, <2>9, <2>10, <2>11, <2>12, ChangeSimulates
<1>7. QED
  BY <1>5, <1>6, OneKindChanges

\* For a name that is used once, the handler implements BackupRequest: through
\* lagging caches, failed calls, conflicts, edits of the cluster, crashes and
\* panics, one job is created for a resource as long as it exists, and a
\* condition Finished or Failed is appended only when that job has succeeded or
\* failed, and for good.
THEOREM HandlerImplementsRequests ==
    ASSUME MaxUids = 1 PROVE Spec => OneJobPerRequest
<1>1. Spec => []Known
  BY KnownAlways
<1>2. Init => Request!Init
  <2> SUFFICES ASSUME Init PROVE Request!Init
    OBVIOUS
  <2>1. ASSUME NEW q \in Requests PROVE ReportOf(q[1], q[2]) = "none"
    <3>1. created[q[1]] = 0 /\ q[2] = 1
      BY DEF Init, Requests, Uids
    <3>2. QED
      BY <3>1 DEF ReportOf
  <2>2. ran = [q \in Requests |-> "none"]
    BY DEF Init, ToolInit
  <2>3. QED
    BY <2>1, <2>2 DEF Request!Init
<1>3. Known /\ Known' /\ [Next]_vars => [Request!Next]_(Request!vars)
  BY StepSimulates
<1>4. QED
  BY <1>1, <1>2, <1>3, PTL DEF Spec, OneJobPerRequest, Request!Spec

(***************************************************************************)
(* Which steps write what.                                                 *)
(***************************************************************************)

Restarted == Crash \/ \E c \in Controllers : Panic(c)

\* The steps of the worker of kind k.
Handles(k) ==
    \/ Begin(k) \/ GetSecret(k) \/ CreateJob(k) \/ JobAlreadyExists(k)
    \/ UpdateStatus(k) \/ UpdateStatusConflict(k) \/ ClearSecrets(k)

Collects ==
    BeginCollect \/ DeleteBackupData \/ DeleteBackup \/ DataNotDeleted \/ CallFails("gc")

\* A step leaves the worker, the resource, the job or the secrets of kind k
\* alone, or is one of those that write them.
WorkerFrame(k) ==
    \/ pc'[k] = pc[k] /\ obj'[k] = obj[k] /\ temp'[k] = temp[k]
    \/ Handles(k) \/ CallFails(k) \/ Restarted
ResourceFrame(k) ==
    \/ res'[k] = res[k]
    \/ Create(k) \/ UserDeletes(k) \/ UpdateStatus(k)
    \/ k = "backup" /\ DeleteBackup
JobFrame(k) ==
    \/ job'[k] = job[k] /\ wroteTo'[<<k, 1>>] = wroteTo[<<k, 1>>]
    \/ CollectJob(k) \/ JobStep(k) \/ CreateJob(k)
SecretFrame(k) ==
    \/ secrets'[k] = secrets[k]
    \/ CollectSecrets(k) \/ GetSecret(k) \/ ClearSecrets(k) \/ CallFails(k)

\* The same for the collector and for the buckets.
CollectorFrame ==
    "gc" \in Controllers =>
        (pc'["gc"] = pc["gc"] /\ obj'["gc"] = obj["gc"]) \/ Collects \/ Restarted
ObjectFrame ==
    \/ objects' = objects
    \/ \E k \in Kinds : k = "backup" /\ JobStep(k)
    \/ DeleteBackupData \/ DataNotDeleted
ClusterFrame ==
    /\ (backupSpec' = backupSpec /\ edits' = edits) \/ EditCluster
    /\ expired' = expired \/ \E u \in Uids : Expire(u)

Frames(k) ==
    /\ WorkerFrame(k) /\ ResourceFrame(k) /\ JobFrame(k) /\ SecretFrame(k)
    /\ CollectorFrame /\ ObjectFrame /\ ClusterFrame

LEMMA WorldFrames ==
    ASSUME TypeOK, NEW k \in Kinds, NEW i \in Kinds, NEW u \in Uids,
           \/ Create(i) \/ UserDeletes(i) \/ EditCluster \/ Expire(u)
           \/ CollectJob(i) \/ CollectSecrets(i) \/ JobStep(i)
    PROVE  Frames(k)
<1> USE DEF toolVars, apiVars, cacheVars, workerVars, boundVars
<1>1. WorkerFrame(k) /\ CollectorFrame
  BY DEF Create, UserDeletes, EditCluster, Expire, CollectJob, CollectSecrets, JobStep,
         WorkerFrame, CollectorFrame
<1>2. ResourceFrame(k)
  BY DEF Create, UserDeletes, EditCluster, Expire, CollectJob, CollectSecrets, JobStep,
         ResourceFrame, TypeOK
<1>3. JobFrame(k)
  <2>1. CASE JobStep(i) /\ i # k
    <3>1. ToolOK /\ ToolStep(i)
      BY <2>1, TypeParts DEF JobStep
    <3>2. JobGoesOn(i) \/ JobHasEnded(i)
      BY <3>1, JobProgress
    <3>3. QED
      BY <2>1, <3>1, <3>2 DEF JobGoesOn, JobHasEnded, ToolOK, JobFrame
  <2>2. CASE JobStep(i) /\ i = k
    BY <2>2 DEF JobFrame
  <2>3. CASE ~JobStep(i)
    BY <2>3 DEF Create, UserDeletes, EditCluster, Expire, CollectJob, CollectSecrets,
                JobFrame, TypeOK
  <2>4. QED
    BY <2>1, <2>2, <2>3
<1>4. SecretFrame(k)
  <2>1. CASE CollectSecrets(i)
    BY <2>1 DEF CollectSecrets, SecretFrame, TypeOK
  <2>2. CASE ~CollectSecrets(i)
    BY <2>2 DEF Create, UserDeletes, EditCluster, Expire, CollectJob, JobStep, SecretFrame
  <2>3. QED
    BY <2>1, <2>2
<1>5. ObjectFrame
  <2>1. CASE JobStep(i) /\ i # "backup"
    BY <2>1 DEF JobStep, ToolStep, DumpMetadata, TransferToGCS, TransferCut,
                ReadMetadata, TransferFromGCS, RestoreCut, ToolSucceeds, PodLost, ObjectFrame
  <2>2. CASE JobStep(i) /\ i = "backup"
    BY <2>2 DEF ObjectFrame
  <2>3. CASE ~JobStep(i)
    BY <2>3 DEF Create, UserDeletes, EditCluster, Expire, CollectJob, CollectSecrets,
                ObjectFrame
  <2>4. QED
    BY <2>1, <2>2, <2>3
<1>6. ClusterFrame
  BY DEF Create, UserDeletes, EditCluster, Expire, CollectJob, CollectSecrets, JobStep,
         ClusterFrame
<1>7. QED
  BY <1>1, <1>2, <1>3, <1>4, <1>5, <1>6 DEF Frames

LEMMA InformerFrames ==
    ASSUME TypeOK, NEW k \in Kinds, NEW i \in Kinds,
           ResourceEvent(i) \/ JobEvent(i) \/ Resync(i) \/ CollectNothing
    PROVE  Frames(k)
<1>1. UNCHANGED <<job, wroteTo, objects, res, secrets, backupSpec, expired, pc, obj, temp, edits>>
  BY DEF ResourceEvent, JobEvent, Resync, CollectNothing, toolVars, apiVars, boundVars
<1>2. QED
  BY <1>1 DEF Frames, WorkerFrame, ResourceFrame, JobFrame, SecretFrame, CollectorFrame,
              ObjectFrame, ClusterFrame

\* What a worker's step leaves alone of the other workers.
LEMMA OtherWorkers ==
    ASSUME TypeOK, LocalsInv, NEW i \in Kinds, NEW c \in Controllers \ {i}, Handles(i)
    PROVE  pc'[c] = pc[c] /\ obj'[c] = obj[c] /\ (c \in Kinds => temp'[c] = temp[c])
<1> WorkerOK
  BY TypeParts
<1>1. i \in Controllers
  BY ControllersAre
<1>2. CASE Begin(i)
  <2>1. /\ UNCHANGED temp
        /\ UNCHANGED pc \/ \E s \in Steps : Goto(i, s)
        /\ UNCHANGED obj \/ \E o : obj' = [obj EXCEPT ![i] = o]
    BY <1>2 DEF Begin, HandleEnded, HandleRunning, HandleNothing, Steps
  <2>2. QED
    BY <2>1 DEF Goto, WorkerOK
<1>3. CASE GetSecret(i)
  <2>1. Return(i) \/ (Goto(i, "job") /\ UNCHANGED obj /\ (UNCHANGED temp \/ \E n : temp' = [temp EXCEPT ![i] = n]))
    BY <1>3 DEF GetSecret, CreateTempSecret
  <2>2. QED
    BY <1>1, <2>1, ReturnFacts DEF Goto, Return, WorkerOK
<1>4. CASE CreateJob(i)
  BY <1>4 DEF CreateJob, Goto, WorkerOK
<1>5. CASE JobAlreadyExists(i) \/ UpdateStatus(i) \/ UpdateStatusConflict(i) \/ ClearSecrets(i)
  <2>1. Return(i) \/ (Goto(i, "clear") /\ UNCHANGED <<obj, temp>>)
    BY <1>5 DEF JobAlreadyExists, UpdateStatus, UpdateStatusConflict, ClearSecrets
  <2>2. QED
    BY <1>1, <2>1, ReturnFacts DEF Goto, Return, WorkerOK
<1>6. QED
  BY <1>2, <1>3, <1>4, <1>5 DEF Handles

LEMMA HandlerFrames ==
    ASSUME TypeOK, LocalsInv, NEW k \in Kinds, NEW i \in Kinds, Handles(i)
    PROVE  Frames(k)
<1> USE DEF toolVars, apiVars, cacheVars, boundVars
<1>1. WorkerFrame(k) /\ CollectorFrame
  <2>1. k \in Controllers /\ "gc" # i
    BY ControllersAre
  <2>2. QED
    BY <2>1, OtherWorkers DEF WorkerFrame, CollectorFrame
<1>2. ResourceFrame(k)
  BY StatusWritten
     DEF Handles, Begin, GetSecret, CreateJob, JobAlreadyExists, UpdateStatus,
         UpdateStatusConflict, ClearSecrets, ResourceFrame, TypeOK
<1>3. JobFrame(k)
  <2>1. <<k, 1>> \in Requests
    BY ToolAssumption DEF Requests, Uids
  <2>2. QED
    BY <2>1
       DEF Handles, Begin, GetSecret, CreateJob, JobAlreadyExists, UpdateStatus,
           UpdateStatusConflict, ClearSecrets, JobFrame, LaunchJob, TypeOK
<1>4. SecretFrame(k)
  <2>1. CASE GetSecret(i) \/ ClearSecrets(i)
    BY <2>1 DEF GetSecret, CreateTempSecret, ClearSecrets, SecretFrame, TypeOK
  <2>2. CASE ~(GetSecret(i) \/ ClearSecrets(i))
    BY <2>2 DEF Handles, Begin, CreateJob, JobAlreadyExists, UpdateStatus,
                UpdateStatusConflict, SecretFrame
  <2>3. QED
    BY <2>1, <2>2
<1>5. ObjectFrame /\ ClusterFrame
  BY DEF Handles, Begin, GetSecret, CreateJob, JobAlreadyExists, UpdateStatus,
         UpdateStatusConflict, ClearSecrets, LaunchJob, ObjectFrame, ClusterFrame
<1>6. QED
  BY <1>1, <1>2, <1>3, <1>4, <1>5 DEF Frames

LEMMA CollectorFrames ==
    ASSUME TypeOK, LocalsInv, NEW k \in Kinds, "gc" \in Controllers,
           BeginCollect \/ DeleteBackupData \/ DeleteBackup \/ DataNotDeleted
    PROVE  Frames(k)
<1> USE DEF toolVars, apiVars, cacheVars, boundVars
<1>1. k \in Controllers /\ k # "gc"
  BY ControllersAre
<1>2. WorkerFrame(k)
  <2>1. pc'[k] = pc[k] /\ obj'[k] = obj[k]
    <3>1. CASE DeleteBackup
      BY <1>1, <3>1, ReturnFacts, TypeParts DEF DeleteBackup
    <3>2. CASE ~DeleteBackup
      BY <1>1, <3>2 DEF BeginCollect, DeleteBackupData, DataNotDeleted, Goto, TypeOK
    <3>3. QED
      BY <3>1, <3>2
  <2>2. temp'[k] = temp[k]
    BY <1>1 DEF BeginCollect, DeleteBackupData, DeleteBackup, DataNotDeleted, Return, TypeOK
  <2>3. QED
    BY <2>1, <2>2 DEF WorkerFrame
<1>3. CollectorFrame
  BY DEF CollectorFrame, Collects
<1>4. ResourceFrame(k) /\ JobFrame(k) /\ SecretFrame(k)
  BY DEF BeginCollect, DeleteBackupData, DeleteBackup, DataNotDeleted, ResourceFrame,
         JobFrame, SecretFrame, TypeOK
<1>5. ObjectFrame /\ ClusterFrame
  BY DEF BeginCollect, DeleteBackupData, DeleteBackup, DataNotDeleted, ObjectFrame,
         ClusterFrame
<1>6. QED
  BY <1>2, <1>3, <1>4, <1>5 DEF Frames

LEMMA FailureFrames ==
    ASSUME TypeOK, LocalsInv, NEW k \in Kinds, NEW c \in Controllers,
           CallFails(c) \/ Crash \/ Panic(c)
    PROVE  Frames(k)
<1> USE DEF toolVars, apiVars, cacheVars, boundVars
<1>1. k \in Controllers /\ k # "gc" /\ (c \in Kinds \/ c = "gc")
  BY ControllersAre
<1>2. WorkerFrame(k) /\ CollectorFrame
  <2>1. CASE Crash \/ Panic(c)
    BY <2>1 DEF Restarted, WorkerFrame, CollectorFrame
  <2>2. CASE CallFails(c)
    <3>1. Return(c)
      BY <2>2 DEF CallFails
    <3>2. \A d \in Controllers \ {c} : pc'[d] = pc[d] /\ obj'[d] = obj[d]
      BY <3>1, ReturnFacts, TypeParts
    <3>3. c # k => temp'[k] = temp[k]
      BY <3>1 DEF Return, TypeOK
    <3>4. QED
      BY <1>1, <2>2, <3>2, <3>3 DEF WorkerFrame, CollectorFrame, Collects
  <2>3. QED
    BY <2>1, <2>2
<1>3. SecretFrame(k)
  BY DEF CallFails, Crash, Panic, SecretFrame, TypeOK
<1>4. ResourceFrame(k) /\ JobFrame(k) /\ ObjectFrame /\ ClusterFrame
  BY DEF CallFails, Crash, Panic, ResourceFrame, JobFrame, ObjectFrame, ClusterFrame
<1>5. QED
  BY <1>2, <1>3, <1>4 DEF Frames

LEMMA StepFrames ==
    ASSUME TypeOK, LocalsInv, [Next]_vars, NEW k \in Kinds
    PROVE  Frames(k)
<1>1. k \in Controllers /\ 1 \in Uids
  BY ControllersAre, ToolAssumption DEF Uids
<1>2. CASE \E i \in Kinds : Create(i) \/ UserDeletes(i) \/ Kubernetes(i) \/ JobStep(i)
  BY <1>1, <1>2, WorldFrames DEF Kubernetes
<1>3. CASE EditCluster \/ \E u \in Uids : Expire(u)
  BY <1>1, <1>3, WorldFrames
<1>4. CASE \E i \in Kinds : ResourceEvent(i) \/ JobEvent(i) \/ Resync(i)
  BY <1>4, InformerFrames
<1>5. CASE Crash \/ \E c \in Controllers : CallFails(c) \/ Panic(c)
  BY <1>1, <1>5, FailureFrames
<1>6. CASE \E i \in Kinds : Handles(i)
  BY <1>6, HandlerFrames
<1>7. CASE "gc" \in Controllers /\ (BeginCollect \/ DeleteBackupData \/ DeleteBackup \/ DataNotDeleted)
  BY <1>7, CollectorFrames
<1>8. CASE CollectNothing
  BY <1>8, InformerFrames
<1>9. CASE UNCHANGED vars
  BY <1>9 DEF vars, toolVars, apiVars, cacheVars, workerVars, boundVars, Frames,
              WorkerFrame, ResourceFrame, JobFrame, SecretFrame, CollectorFrame,
              ObjectFrame, ClusterFrame
<1>10. ASSUME NEW c \in Controllers, Worker(c)
       PROVE  Frames(k)
  <2>1. CASE Panic(c)
    BY <1>5, <2>1
  <2>2. CASE c \in Kinds /\ ~Panic(c)
    BY <1>6, <1>10, <2>2, ControllersAre DEF Worker, Handles
  <2>3. CASE c \notin Kinds /\ ~Panic(c)
    BY <1>7, <1>8, <1>10, <2>3, ControllersAre DEF Worker
  <2>4. QED
    BY <2>1, <2>2, <2>3
<1>11. CASE DataNotDeleted
  BY <1>7, <1>11 DEF DataNotDeleted
<1>12. QED
  BY <1>2, <1>3, <1>4, <1>5, <1>9, <1>10, <1>11 DEF Next

(***************************************************************************)
(* Temporary secrets.                                                      *)
(***************************************************************************)

\* The secret that the worker is about to give to the job, and the one that
\* the running job has been given, are there as long as the resource is.
SecretInv ==
    \A k \in Kinds :
        /\ pc[k] \in {"idle", "secret"} => temp[k] = 0
        /\ Exists(res[k]) =>
              /\ pc[k] = "job" /\ temp[k] # 0 => <<1, temp[k]>> \in secrets[k]
              /\ job[k].st = "active" => Mounted(k)

\* Only clearSecrets takes secrets of a resource that exists.
LEMMA SecretsStay ==
    ASSUME Known, NEW k \in Kinds, SecretFrame(k), pc[k] # "clear", res[k].uid = 1,
           NEW n, <<1, n>> \in secrets[k]
    PROVE  <<1, n>> \in secrets'[k]
<1> TypeOK
  BY DEF Known
<1>1. CASE CollectSecrets(k)
  BY <1>1 DEF CollectSecrets, TypeOK
<1>2. CASE GetSecret(k)
  <2>1. secrets' = secrets \/ \E i : secrets' = [secrets EXCEPT ![k] = @ \cup {<<obj[k].uid, i>>}]
    BY <1>2 DEF GetSecret, CreateTempSecret
  <2>2. QED
    BY <2>1 DEF TypeOK
<1>3. CASE ClearSecrets(k)
  BY <1>3 DEF ClearSecrets
<1>4. CASE CallFails(k)
  BY <1>4 DEF CallFails
<1>5. QED
  BY <1>1, <1>2, <1>3, <1>4 DEF SecretFrame

\* The temporary secret of a worker that has none yet.
LEMMA TempKept ==
    ASSUME Known, NEW k \in Kinds, WorkerFrame(k),
           pc[k] \in {"idle", "secret"} => temp[k] = 0
    PROVE  pc'[k] \in {"idle", "secret"} => temp'[k] = 0
<1> TypeOK
  BY DEF Known
<1>1. k \in Controllers
  BY ControllersAre
<1>2. ASSUME Return(k) PROVE temp'[k] = 0
  BY <1>2 DEF Return
<1>3. CASE Restarted
  BY <1>3 DEF Restarted, Crash, Panic, Restart
<1>4. CASE Begin(k)
  BY <1>1, <1>4 DEF Begin, Get, HandleEnded, HandleRunning, HandleNothing
<1>5. CASE GetSecret(k)
  <2>1. Return(k) \/ Goto(k, "job")
    BY <1>5 DEF GetSecret, CreateTempSecret
  <2>2. QED
    BY <1>1, <1>2, <2>1 DEF Goto, TypeOK
<1>6. CASE CreateJob(k)
  BY <1>1, <1>6 DEF CreateJob, Goto, TypeOK
<1>7. CASE UpdateStatus(k)
  <2>1. Return(k) \/ Goto(k, "clear")
    BY <1>7 DEF UpdateStatus
  <2>2. QED
    BY <1>1, <1>2, <2>1 DEF Goto, TypeOK
<1>8. CASE JobAlreadyExists(k) \/ UpdateStatusConflict(k) \/ ClearSecrets(k) \/ CallFails(k)
  BY <1>2, <1>8 DEF JobAlreadyExists, UpdateStatusConflict, ClearSecrets, CallFails
<1>9. QED
  BY <1>3, <1>4, <1>5, <1>6, <1>7, <1>8 DEF WorkerFrame, Handles

\* A resource that exists after a step has just been created, when nothing is
\* known of it, or existed before.
LEMMA ExistedBefore ==
    ASSUME MaxUids = 1, Known, NEW k \in Kinds, ResourceFrame(k), Exists(res'[k])
    PROVE  \/ /\ Exists(res[k]) /\ res[k].uid = 1 /\ res'[k].uid = 1
              /\ res'[k].spec = res[k].spec
           \/ Create(k) /\ created[k] = 0
<1> TypeOK /\ LocalsInv
  BY DEF Known
<1>1. res[k].uid \in {0, 1} /\ created[k] \in {0, 1}
  BY OnceTypes
<1>2. CASE res'[k] = res[k]
  BY <1>1, <1>2 DEF Exists
<1>3. CASE Create(k)
  <2>1. created[k] < 1
    BY <1>3 DEF Create
  <2>2. QED
    BY <1>1, <1>3, <2>1
<1>4. CASE UserDeletes(k) \/ (k = "backup" /\ DeleteBackup)
  <2>1. res'[k] = NoResource
    BY <1>4 DEF UserDeletes, DeleteBackup, TypeOK
  <2>2. QED
    BY <2>1 DEF Exists, NoResource
<1>5. CASE UpdateStatus(k)
  BY <1>1, <1>5, StatusWritten DEF Exists
<1>6. QED
  BY <1>2, <1>3, <1>4, <1>5 DEF ResourceFrame

LEMMA NextSecrets ==
    MaxUids = 1 /\ Known /\ SecretInv /\ [Next]_vars => SecretInv'
<1> SUFFICES ASSUME MaxUids = 1, Known, SecretInv, [Next]_vars, NEW k \in Kinds
             PROVE  /\ pc'[k] \in {"idle", "secret"} => temp'[k] = 0
                    /\ Exists(res'[k]) =>
                          /\ pc'[k] = "job" /\ temp'[k] # 0 => <<1, temp'[k]>> \in secrets'[k]
                          /\ job'[k].st = "active" => Mounted(k)'
  BY DEF SecretInv, Exists
<1> TypeOK /\ LocalsInv /\ KindInv(k)
  BY DEF Known, RequestInv
<1>1. WorkerFrame(k) /\ ResourceFrame(k) /\ JobFrame(k) /\ SecretFrame(k)
  BY StepFrames DEF Frames
<1>2. pc'[k] \in {"idle", "secret"} => temp'[k] = 0
  BY <1>1, TempKept DEF SecretInv
<1>3. k \in Controllers /\ KindOf(k) = k
  BY ControllersAre DEF KindOf
<1>4. CASE Create(k) /\ created[k] = 0
  <2>1. UNCHANGED <<job, pc>> /\ job[k] = NoJob /\ pc[k] = "idle"
    BY <1>3, <1>4 DEF Create, toolVars, workerVars, KindInv, Unborn
  <2>2. QED
    BY <1>2, <2>1, NoJobType
<1>5. CASE Exists(res[k]) /\ res[k].uid = 1 /\ Exists(res'[k])
  <2>1. /\ pc[k] = "job" /\ temp[k] # 0 => <<1, temp[k]>> \in secrets[k]
        /\ job[k].st = "active" => Mounted(k)
        /\ pc[k] \in {"idle", "secret"} => temp[k] = 0
    BY <1>5 DEF SecretInv
  <2>2. job[k].st = "active" => pc[k] # "clear" /\ job[k].uid = 1
    <3> SUFFICES ASSUME job[k].st = "active" PROVE pc[k] # "clear" /\ job[k].uid = 1
      OBVIOUS
    <3>1. Outcome(k) = "active" /\ job[k].uid = 1
      BY NoJobType DEF KindInv, JobInv
    <3>2. pc[k] = "clear" => Tells(k, obj[k]) /\ Ended(obj[k])
      BY <1>3, <1>5 DEF KindInv, TellInv, LocalsInv
    <3>3. QED
      BY <3>1, <3>2 DEF Tells, Ended
  <2>3. ASSUME pc'[k] = "job", temp'[k] # 0
        PROVE  <<1, temp'[k]>> \in secrets'[k]
    <3>1. CASE pc'[k] = pc[k] /\ temp'[k] = temp[k]
      BY <1>1, <1>5, <2>1, <2>3, <3>1, SecretsStay
    <3>2. CASE GetSecret(k)
      <4>1. pc[k] = "secret" /\ temp[k] = 0 /\ obj[k].uid = 1
        BY <1>3, <2>1, <3>2, OnceTypes DEF GetSecret, LocalsInv
      <4>2. ~Return(k)
        BY <1>3, <2>3, ReturnFacts, TypeParts
      <4>3. CreateTempSecret(k)
        BY <2>3, <3>2, <4>1, <4>2 DEF GetSecret
      <4>4. QED
        BY <4>1, <4>3 DEF CreateTempSecret, TypeOK
    <3>3. CASE Begin(k) /\ ~(pc'[k] = pc[k])
      BY <1>3, <2>3, <3>3
         DEF Begin, HandleEnded, HandleRunning, HandleNothing, Goto, TypeOK
    <3>4. CASE CreateJob(k) \/ JobAlreadyExists(k) \/ UpdateStatus(k) \/ UpdateStatusConflict(k)
               \/ ClearSecrets(k) \/ CallFails(k)
      <4>1. Return(k) \/ Goto(k, "status") \/ Goto(k, "clear")
        BY <3>4 DEF CreateJob, JobAlreadyExists, UpdateStatus, UpdateStatusConflict,
                    ClearSecrets, CallFails
      <4>2. pc'[k] # "job"
        BY <1>3, <4>1 DEF Return, Goto, TypeOK
      <4>3. QED
        BY <2>3, <4>2
    <3>5. CASE Restarted
      BY <1>3, <2>3, <3>5 DEF Restarted, Crash, Panic, Restart
    <3>6. CASE Begin(k) /\ pc'[k] = pc[k]
      BY <1>3, <2>3, <3>6 DEF Begin, Get
    <3>7. QED
      BY <1>1, <3>1, <3>2, <3>3, <3>4, <3>5, <3>6 DEF WorkerFrame, Handles
  <2>4. ASSUME job'[k].st = "active"
        PROVE  Mounted(k)'
    <3>1. CASE job'[k] = job[k]
      <4>1. job[k].secret = 0 \/ <<1, job[k].secret>> \in secrets'[k]
        BY <1>1, <1>5, <2>1, <2>2, <2>4, <3>1, SecretsStay DEF Mounted
      <4>2. QED
        BY <2>2, <2>4, <3>1, <4>1 DEF Mounted
    <3>2. CASE CollectJob(k)
      <4>1. job'[k] = NoJob
        BY <3>2 DEF CollectJob, TypeOK
      <4>2. QED
        BY <2>4, <4>1, NoJobType
    <3>3. CASE JobStep(k)
      <4>1. job[k].st = "active" /\ (JobGoesOn(k) \/ JobHasEnded(k)) /\ UNCHANGED secrets
        BY <3>3, JobProgress, TypeParts DEF JobStep, apiVars
      <4>2. job'[k].uid = job[k].uid /\ job'[k].secret = job[k].secret
        BY <4>1 DEF JobGoesOn, JobHasEnded
      <4>3. QED
        BY <2>1, <4>1, <4>2 DEF Mounted
    <3>4. CASE CreateJob(k)
      <4>1. UNCHANGED secrets /\ pc[k] = "job" /\ LaunchJob(k, obj[k].uid, obj[k].storage, temp[k])
        BY <3>4 DEF CreateJob, apiVars
      <4>2. obj[k].uid = 1
        BY <1>3, <4>1, OnceTypes DEF LocalsInv
      <4>3. job'[k] = [NoJob EXCEPT !.uid = 1, !.st = "active",
                                    !.bucket = obj[k].storage, !.secret = temp[k]]
        BY <4>1, <4>2 DEF LaunchJob, TypeOK
      <4>4. job'[k].uid = 1 /\ job'[k].secret = temp[k]
        BY <4>3, NoJobType DEF Job
      <4>5. QED
        BY <2>1, <4>1, <4>4 DEF Mounted
    <3>5. QED
      BY <1>1, <3>1, <3>2, <3>3, <3>4 DEF JobFrame
  <2>5. QED
    BY <1>2, <2>3, <2>4
<1>6. CASE ~Exists(res'[k])
  BY <1>2, <1>6
<1>7. QED
  BY <1>1, <1>4, <1>5, <1>6, ExistedBefore

\* For a name that is used once, the temporary secret that a running job's pods
\* mount is there as long as the resource is: clearSecrets, which deletes all
\* the secrets of the name, never runs before the job has ended, whatever the
\* informers are behind and whichever calls fail.
THEOREM SecretsStayMounted ==
    ASSUME MaxUids = 1 PROVE Spec => []SecretIsMounted
<1>1. Spec => []Known
  BY KnownAlways
<1>2. Init => SecretInv
  <2> SUFFICES ASSUME Init, NEW k \in Kinds
               PROVE  temp[k] = 0 /\ ~Exists(res[k])
    BY DEF SecretInv
  <2>1. QED
    BY DEF Init, Exists, NoResource
<1>3. Known /\ SecretInv /\ [Next]_vars => SecretInv'
  BY NextSecrets
<1>4. Known /\ SecretInv => SecretIsMounted
  <2> SUFFICES ASSUME Known, SecretInv, NEW k \in Kinds, job[k].st = "active",
                      job[k].uid = res[k].uid
               PROVE  Mounted(k)
    BY DEF SecretIsMounted
  <2>1. job[k].uid = 1
    BY NoJobType DEF Known, RequestInv, KindInv, JobInv
  <2>2. Exists(res[k])
    BY <2>1 DEF Exists
  <2>3. QED
    BY <2>2 DEF SecretInv
<1>5. QED
  BY <1>1, <1>2, <1>3, <1>4, PTL DEF Spec

(***************************************************************************)
(* The condition Started.                                                  *)
(***************************************************************************)

\* No call has failed so far, and the operator has not stopped.
Smooth == faults = 0 /\ ~panicked

\* Then none fails in the step that led here, either.
LEMMA SmoothSteps ==
    ASSUME TypeOK, [Next]_vars, Smooth'
    PROVE  /\ Smooth /\ ~Restarted /\ ~DataNotDeleted
           /\ \A c \in Controllers : ~CallFails(c)
<1> USE DEF boundVars
<1>1. faults \in Nat /\ panicked \in BOOLEAN
  BY HandlerAssumption DEF TypeOK
<1>2. faults' # faults + 1
  <2>1. faults' = 0
    BY DEF Smooth
  <2>2. QED
    BY <1>1, <2>1
<1>3. ~Crash /\ ~DataNotDeleted /\ \A c \in Controllers : ~CallFails(c) /\ ~Panic(c)
  BY <1>2 DEF Crash, DataNotDeleted, CallFails, Panic, Smooth
<1>4. ASSUME NEW k \in Kinds,
             \/ Create(k) \/ UserDeletes(k) \/ Kubernetes(k) \/ JobStep(k)
             \/ ResourceEvent(k) \/ JobEvent(k) \/ Resync(k)
      PROVE  UNCHANGED <<faults, panicked>>
  BY <1>4
     DEF Create, UserDeletes, Kubernetes, CollectJob, CollectSecrets, JobStep,
         ResourceEvent, JobEvent, Resync
<1>5. ASSUME NEW u \in Uids, EditCluster \/ Expire(u)
      PROVE  UNCHANGED <<faults, panicked>>
  BY <1>5 DEF EditCluster, Expire
<1>6. ASSUME NEW c \in Controllers, Worker(c)
      PROVE  UNCHANGED <<faults, panicked>>
  BY <1>3, <1>6
     DEF Worker, Begin, GetSecret, CreateJob, JobAlreadyExists, UpdateStatus,
         UpdateStatusConflict, ClearSecrets, BeginCollect, CollectNothing,
         DeleteBackupData, DeleteBackup
<1>7. 1 \in Uids
  BY ToolAssumption DEF Uids
<1>8. UNCHANGED <<faults, panicked>>
  BY <1>3, <1>4, <1>5, <1>6, <1>7 DEF Next, vars
<1>9. QED
  BY <1>3, <1>8 DEF Smooth, Restarted

\* Once the job has been created, the resource has the condition, or the
\* worker is about to write it over the version that it has read.
StartedInv ==
    Smooth =>
        \A k \in Kinds :
            Exists(res[k]) /\ Outcome(k) # "none" =>
                \/ "Started" \in res[k].conds
                \/ /\ pc[k] = "status" /\ "Started" \in obj[k].conds
                   /\ Current(k) /\ ~Ended(res[k])

LEMMA NextStarted ==
    MaxUids = 1 /\ Known /\ StartedInv /\ [Next]_vars => StartedInv'
<1> SUFFICES ASSUME MaxUids = 1, Known, StartedInv, [Next]_vars, Smooth', NEW k \in Kinds,
                    Exists(res'[k]), Outcome(k)' # "none"
             PROVE  \/ "Started" \in res'[k].conds
                    \/ /\ pc'[k] = "status" /\ "Started" \in obj'[k].conds
                       /\ Current(k)' /\ ~Ended(res'[k])
  BY DEF StartedInv, Exists, Ended
<1> TypeOK /\ LocalsInv /\ KindInv(k)
  BY DEF Known, RequestInv
<1>1. WorkerFrame(k) /\ ResourceFrame(k) /\ JobFrame(k)
  BY StepFrames DEF Frames
<1>2. k \in Controllers /\ KindOf(k) = k
  BY ControllersAre DEF KindOf
<1>3. Smooth /\ ~Restarted /\ ~CallFails(k)
  BY <1>2, SmoothSteps
<1>4. ~(Create(k) /\ created[k] = 0)
  BY DEF Create, toolVars, KindInv, Unborn, Outcome
<1>5. Exists(res[k]) /\ res[k].uid = 1
  BY <1>1, <1>4, ExistedBefore
<1>6. LaunchInv(k) /\ TellInv(k) /\ FollowInv(k)
  BY <1>5 DEF KindInv
<1>7. CASE CreateJob(k)
  <2>1. UNCHANGED res /\ pc[k] = "job" /\ job[k] = NoJob /\ Goto(k, "status")
        /\ obj' = [obj EXCEPT ![k].conds = @ \cup {"Started"}]
    BY <1>7 DEF CreateJob, LaunchJob, apiVars
  <2>2. Outcome(k) = "none" /\ res[k].ver = 0 /\ ~Ended(res[k])
    BY <1>6, <2>1 DEF LaunchInv, TellInv, Tells, Ended
  <2>3. obj[k] \in Resource /\ obj[k].uid = 1 /\ obj[k].ver <= res[k].ver
    BY <1>2, <1>6, <2>1, OnceTypes DEF LocalsInv, FollowInv, Follows
  <2>4. obj[k].ver = 0
    BY <2>2, <2>3 DEF Resource
  <2>5. /\ pc'[k] = "status" /\ obj'[k] = [obj[k] EXCEPT !.conds = @ \cup {"Started"}]
    BY <1>2, <2>1 DEF Goto, TypeOK
  <2>6. "Started" \in obj'[k].conds /\ obj'[k].ver = obj[k].ver /\ obj'[k].uid = obj[k].uid
    BY <2>3, <2>5 DEF Resource
  <2>7. QED
    BY <1>5, <2>1, <2>2, <2>3, <2>4, <2>5, <2>6 DEF Current
<1>8. CASE ~CreateJob(k)
  <2>1. Outcome(k) # "none"
    <3>1. CASE JobStep(k) /\ JobHasEnded(k)
      BY <3>1, JobProgress, TypeParts, NoJobType DEF JobStep, KindInv, JobInv
    <3>2. CASE ~(JobStep(k) /\ JobHasEnded(k))
      <4>1. Quiet(k) \/ Changes(k)
        BY OneKindChanges
      <4>2. Outcome(k)' = Outcome(k)
        BY <1>8, <3>2, <4>1
           DEF Quiet, Changes, Create, UserDeletes, CollectJob, UpdateStatus, Begin,
               BeginCollect, DeleteBackup, toolVars, Outcome
      <4>3. QED
        BY <4>2
    <3>3. QED
      BY <3>1, <3>2
  <2>2. \/ "Started" \in res[k].conds
        \/ /\ pc[k] = "status" /\ "Started" \in obj[k].conds
           /\ Current(k) /\ ~Ended(res[k])
    BY <1>3, <1>5, <2>1 DEF StartedInv
  <2>3. CASE UpdateStatus(k)
    <3>1. res'[k].conds = obj[k].conds /\ res[k].ver = obj[k].ver /\ pc[k] # "idle"
      BY <2>3, StatusWritten DEF UpdateStatus
    <3>2. res[k].conds \subseteq obj[k].conds
      BY <1>2, <1>6, <3>1 DEF FollowInv, Follows
    <3>3. QED
      BY <2>2, <3>1, <3>2
  <2>4. CASE ~UpdateStatus(k)
    <3>1. res'[k] = res[k]
      <4>1. ~(UserDeletes(k) \/ (k = "backup" /\ DeleteBackup))
        BY DEF UserDeletes, DeleteBackup, Exists, NoResource, TypeOK
      <4>2. ~Create(k)
        BY <1>5 DEF Create
      <4>3. QED
        BY <1>1, <2>4, <4>1, <4>2 DEF ResourceFrame
    <3>2. CASE "Started" \in res[k].conds
      BY <3>1, <3>2
    <3>3. CASE pc[k] = "status" /\ Current(k)
      <4>1. ~Handles(k)
        BY <1>8, <2>4, <3>3
           DEF Handles, Begin, Get, GetSecret, JobAlreadyExists, UpdateStatusConflict,
               ClearSecrets
      <4>2. pc'[k] = pc[k] /\ obj'[k] = obj[k]
        BY <1>1, <1>3, <4>1 DEF WorkerFrame
      <4>3. QED
        BY <2>2, <3>1, <4>2 DEF Current
    <3>4. QED
      BY <2>2, <3>2, <3>3
  <2>5. QED
    BY <2>3, <2>4
<1>9. QED
  BY <1>7, <1>8

\* For a name that is used once, a resource that has ended names its job in a
\* condition Started, unless a call has failed or the operator has stopped: the
\* status is written over the version that the worker has read, or not at all,
\* so that no other write of the status takes the condition away, however far
\* the informer is behind.
THEOREM StartedStays ==
    ASSUME MaxUids = 1 PROVE Spec => []StartedIsKept
<1>1. Spec => []Known
  BY KnownAlways
<1>2. Init => StartedInv
  <2> SUFFICES ASSUME Init, NEW k \in Kinds
               PROVE  ~Exists(res[k])
    BY DEF StartedInv
  <2>1. QED
    BY DEF Init, Exists, NoResource
<1>3. Known /\ StartedInv /\ [Next]_vars => StartedInv'
  BY NextStarted
<1>4. Known /\ StartedInv => StartedIsKept
  <2> SUFFICES ASSUME Known, StartedInv, Smooth, NEW k \in Kinds, Ended(res[k])
               PROVE  "Started" \in res[k].conds
    BY DEF StartedIsKept, Smooth
  <2>1. KindInv(k)
    BY DEF Known, RequestInv
  <2>2. Exists(res[k])
    BY <2>1 DEF KindInv, Ended
  <2>3. Outcome(k) # "none"
    BY <2>1, <2>2 DEF KindInv, TellInv, Tells, Ended
  <2>4. QED
    BY <2>2, <2>3 DEF StartedInv
<1>5. QED
  BY <1>1, <1>2, <1>3, <1>4, PTL DEF Spec

(***************************************************************************)
(* The data in the bucket.                                                 *)
(***************************************************************************)

\* What a step of a backup's job does to the job and to the bucket, when no
\* writer fails to be closed.
UploadStep(k, b) ==
    \/ /\ objects' = [objects EXCEPT ![b] = [objects[b] EXCEPT !.meta = TRUE]]
       /\ job'[k].st = "active" /\ job'[k].at = "data"
    \/ /\ job[k].at = "data" /\ job'[k].st = "active" /\ job'[k].at = "exit"
       /\ objects' = [objects EXCEPT ![b] = [objects[b] EXCEPT !.data = "full"]]
    \/ /\ job[k].at = "data" /\ job'[k].st = "active" /\ job'[k].at = "dead"
       /\ objects' = [objects EXCEPT ![b] = [objects[b] EXCEPT !.data = "partial"]]
    \/ job[k].at = "exit" /\ job'[k].st = "complete" /\ objects' = objects
    \/ job'[k].st = "active" /\ job'[k].at = "meta" /\ objects' = objects
    \/ job'[k].st = "failed" /\ objects' = objects

LEMMA UploadSteps ==
    ASSUME TypeOK, LocalsInv, "close" \notin Losses, NEW k \in Kinds, k = "backup",
           JobStep(k)
    PROVE  /\ job[k].st = "active" /\ job[k].bucket \in Buckets
           /\ job'[k].bucket = job[k].bucket
           /\ wroteTo' = wroteTo
           /\ UploadStep(k, job[k].bucket)
<1> DEFINE b == job[k].bucket
<1> ToolOK
  BY TypeParts
<1>1. ToolStep(k)
  BY DEF JobStep
<1>2. job[k].st = "active" /\ b \in Buckets /\ (JobGoesOn(k) \/ JobHasEnded(k))
  BY <1>1, JobProgress DEF LocalsInv
<1>3. job'[k].bucket = b /\ wroteTo' = wroteTo
  BY <1>2 DEF JobGoesOn, JobHasEnded
<1>4. ASSUME NEW o, objects' \in Written(k, o)
      PROVE  objects' = [objects EXCEPT ![b] = o]
  BY <1>4 DEF Written
<1>5. ASSUME NEW at \in {"meta", "data", "exit", "dead"}, Moves(k, at)
      PROVE  job'[k].st = "active" /\ job'[k].at = at
  BY <1>2, <1>5, MovesOn DEF JobGoesOn
<1>6. CASE DumpMetadata(k)
  <2>1. objects' = [objects EXCEPT ![b] = [objects[b] EXCEPT !.meta = TRUE]] /\ Moves(k, "data")
    BY <1>4, <1>6 DEF DumpMetadata
  <2>2. QED
    BY <1>2, <1>3, <1>5, <2>1 DEF UploadStep
<1>7. CASE TransferToGCS(k)
  <2>1. /\ objects' = [objects EXCEPT ![b] = [objects[b] EXCEPT !.data = "full"]]
        /\ Moves(k, "exit") /\ job[k].at = "data"
    BY <1>4, <1>7 DEF TransferToGCS, PodAt
  <2>2. QED
    BY <1>2, <1>3, <1>5, <2>1 DEF UploadStep
<1>8. CASE TransferCut(k)
  <2>1. /\ objects' = [objects EXCEPT ![b] = [objects[b] EXCEPT !.data = "partial"]]
        /\ Moves(k, "dead") /\ job[k].at = "data"
    BY <1>4, <1>8 DEF TransferCut, PodAt
  <2>2. QED
    BY <1>2, <1>3, <1>5, <2>1 DEF UploadStep
<1>9. CASE ToolSucceeds(k)
  <2>1. job[k].at = "exit" /\ job'[k].st = "complete" /\ objects' = objects
    BY <1>9, EndsWith DEF ToolSucceeds, PodAt
  <2>2. QED
    BY <1>2, <1>3, <2>1 DEF UploadStep
<1>10. CASE PodLost(k)
  <2>1. \/ JobGoesOn(k) /\ job'[k].at = "meta"
        \/ JobHasEnded(k) /\ job'[k].st = "failed"
    BY <1>10, FailsOn DEF PodLost
  <2>2. /\ job'[k].st = "failed" \/ (job'[k].st = "active" /\ job'[k].at = "meta")
        /\ objects' = objects
    BY <1>2, <1>10, <2>1 DEF JobGoesOn, PodLost
  <2>3. QED
    BY <1>2, <1>3, <2>2 DEF UploadStep
<1>11. ~(ReadMetadata(k) \/ TransferFromGCS(k) \/ RestoreCut(k))
  BY DEF ReadMetadata, TransferFromGCS, RestoreCut
<1>12. QED
  BY <1>1, <1>6, <1>7, <1>8, <1>9, <1>10, <1>11 DEF ToolStep

\* What the writes of the tool make of an object.
LEMMA ObjectWrites ==
    ASSUME NEW o \in [meta : BOOLEAN, data : {"none", "partial", "full"}]
    PROVE  /\ [o EXCEPT !.meta = TRUE].meta = TRUE
           /\ \A d : [o EXCEPT !.data = d].meta = o.meta
           /\ o.meta = TRUE => [o EXCEPT !.data = "full"] = Uploaded
<1>1. [o EXCEPT !.meta = TRUE].meta = TRUE /\ \A d : [o EXCEPT !.data = d].meta = o.meta
  OBVIOUS
<1>2. ASSUME o.meta = TRUE PROVE [o EXCEPT !.data = "full"] = Uploaded
  <2>1. o = [meta |-> o.meta, data |-> o.data]
    OBVIOUS
  <2>2. [o EXCEPT !.data = "full"] = [meta |-> o.meta, data |-> "full"]
    BY <2>1
  <2>3. QED
    BY <1>2, <2>2 DEF Uploaded
<1>3. QED
  BY <1>1, <1>2

\* A backup's job writes where the history says.  Until the backup expires,
\* the collector leaves the bucket alone and the metadata is there before the
\* data, and both before the tool exits.
UploadInv ==
    LET j == job["backup"]
    IN  /\ j # NoJob => j.bucket \in Buckets /\ wroteTo[<<"backup", 1>>] = j.bucket
        /\ pc["gc"] # "idle" => 1 \in expired
        /\ 1 \notin expired =>
              /\ j.st = "active" /\ j.at = "data" => objects[j.bucket].meta = TRUE
              /\ (j.st = "active" /\ j.at = "exit") \/ j.st = "complete"
                    => objects[j.bucket] = Uploaded

\* What createJob makes of the job.
LEMMA LaunchedJob ==
    ASSUME MaxUids = 1, TypeOK, LocalsInv, NEW k \in Kinds, CreateJob(k)
    PROVE  /\ job'[k].st = "active" /\ job'[k].at = "meta"
           /\ job'[k].bucket = obj[k].storage /\ obj[k].storage \in Buckets
           /\ wroteTo'[<<k, 1>>] = obj[k].storage
           /\ job[k] = NoJob /\ pc[k] = "job"
<1>1. pc[k] = "job" /\ LaunchJob(k, obj[k].uid, obj[k].storage, temp[k])
  BY DEF CreateJob
<1>2. obj[k].uid = 1 /\ obj[k].storage \in Buckets /\ <<k, 1>> \in Requests
  BY <1>1, ControllersAre, OnceTypes DEF LocalsInv
<1>3. /\ job'[k] = [NoJob EXCEPT !.uid = 1, !.st = "active",
                                 !.bucket = obj[k].storage, !.secret = temp[k]]
      /\ wroteTo'[<<k, 1>>] = obj[k].storage
      /\ job[k] = NoJob
  BY <1>1, <1>2 DEF LaunchJob, TypeOK
<1>4. job'[k].st = "active" /\ job'[k].at = "meta" /\ job'[k].bucket = obj[k].storage
  BY <1>3 DEF NoJob
<1>5. QED
  BY <1>1, <1>2, <1>3, <1>4

LEMMA NextUpload ==
    ASSUME MaxUids = 1, "close" \notin Losses, "backup" \in Kinds,
           Known, UploadInv, [Next]_vars
    PROVE  UploadInv'
<1> DEFINE k == "backup"
           j == job[k]
           n == job'[k]
<1> TypeOK /\ LocalsInv /\ k \in Kinds /\ "gc" \in Controllers
  BY ControllersAre DEF Known
<1>1. WorkerFrame(k) /\ JobFrame(k) /\ CollectorFrame /\ ObjectFrame /\ ClusterFrame
  BY StepFrames DEF Frames
<1>2. 1 \in expired => 1 \in expired'
  BY <1>1 DEF ClusterFrame, Expire
<1>3. pc'["gc"] # "idle" => 1 \in expired'
  <2>1. CASE pc'["gc"] = pc["gc"]
    BY <1>2, <2>1 DEF UploadInv
  <2>2. CASE BeginCollect
    <3>1. seen[k].uid \in expired /\ Exists(seen[k]) /\ seen[k].uid \in {0, 1}
      <4>1. seen[k] \in Resource /\ 0 .. MaxUids = {0, 1}
        BY DEF TypeOK
      <4>2. QED
        BY <2>2, <4>1 DEF BeginCollect, HasExpired, Resource
    <3>2. QED
      BY <1>2, <3>1 DEF Exists
  <2>3. CASE DeleteBackupData \/ DataNotDeleted
    BY <1>2, <2>3 DEF DeleteBackupData, DataNotDeleted, UploadInv
  <2>4. CASE DeleteBackup \/ CallFails("gc")
    BY <2>4, ReturnFacts, TypeParts DEF DeleteBackup, CallFails
  <2>5. CASE Restarted
    BY <2>5 DEF Restarted, Crash, Panic, Restart
  <2>6. QED
    BY <1>1, <2>1, <2>2, <2>3, <2>4, <2>5 DEF CollectorFrame, Collects
<1>4. CASE JobStep(k)
  <2>1. /\ j.st = "active" /\ j.bucket \in Buckets /\ n.bucket = j.bucket
        /\ wroteTo' = wroteTo /\ UploadStep(k, j.bucket)
    BY <1>4, UploadSteps
  <2>2. wroteTo[<<k, 1>>] = j.bucket
    BY <2>1, NoJobType DEF UploadInv
  <2>3. ASSUME 1 \notin expired'
        PROVE  /\ n.st = "active" /\ n.at = "data" => objects'[j.bucket].meta = TRUE
               /\ (n.st = "active" /\ n.at = "exit") \/ n.st = "complete"
                     => objects'[j.bucket] = Uploaded
    <3>1. /\ j.at = "data" => objects[j.bucket].meta = TRUE
          /\ j.at = "exit" => objects[j.bucket] = Uploaded
      BY <1>2, <2>1, <2>3 DEF UploadInv
    <3>2. objects[j.bucket] \in [meta : BOOLEAN, data : {"none", "partial", "full"}]
          /\ objects \in [Buckets -> [meta : BOOLEAN, data : {"none", "partial", "full"}]]
      BY <2>1 DEF TypeOK
    <3>3. ASSUME n.st = "active", n.at = "data"
          PROVE  objects'[j.bucket].meta = TRUE
      BY <2>1, <3>2, <3>3 DEF UploadStep
    <3>4. ASSUME (n.st = "active" /\ n.at = "exit") \/ n.st = "complete"
          PROVE  objects'[j.bucket] = Uploaded
      <4>1. CASE n.at = "exit" /\ n.st = "active"
        <5>1. j.at = "data" /\ objects' = [objects EXCEPT ![j.bucket] = [objects[j.bucket] EXCEPT !.data = "full"]]
          BY <2>1, <4>1 DEF UploadStep
        <5>2. objects'[j.bucket] = [objects[j.bucket] EXCEPT !.data = "full"]
          BY <2>1, <3>2, <5>1
        <5>3. QED
          BY <3>1, <3>2, <5>1, <5>2, ObjectWrites
      <4>2. CASE n.st = "complete"
        BY <2>1, <3>1, <4>2 DEF UploadStep
      <4>3. QED
        BY <3>4, <4>1, <4>2
    <3>5. QED
      BY <3>3, <3>4
  <2>4. QED
    BY <1>3, <2>1, <2>2, <2>3 DEF UploadInv
<1>5. CASE ~JobStep(k)
  <2>1. objects' = objects \/ 1 \in expired'
    <3>1. DeleteBackupData \/ DataNotDeleted => pc["gc"] = "data"
      BY DEF DeleteBackupData, DataNotDeleted
    <3>2. QED
      BY <1>1, <1>2, <1>5, <3>1 DEF ObjectFrame, UploadInv
  <2>2. CASE n = j /\ wroteTo'[<<k, 1>>] = wroteTo[<<k, 1>>]
    BY <1>2, <1>3, <2>1, <2>2 DEF UploadInv
  <2>3. CASE CollectJob(k)
    <3>1. n = NoJob
      BY <2>3 DEF CollectJob, TypeOK
    <3>2. QED
      BY <1>3, <3>1, NoJobType DEF UploadInv
  <2>4. CASE CreateJob(k)
    <3>1. /\ n.st = "active" /\ n.at = "meta" /\ n.bucket \in Buckets
          /\ wroteTo'[<<k, 1>>] = n.bucket
      BY <2>4, LaunchedJob
    <3>2. QED
      BY <1>3, <3>1 DEF UploadInv
  <2>5. QED
    BY <1>1, <1>5, <2>2, <2>3, <2>4 DEF JobFrame
<1>6. QED
  BY <1>4, <1>5

LEMMA InitUpload == ASSUME "backup" \in Kinds PROVE Init => UploadInv
<1> SUFFICES ASSUME Init PROVE UploadInv
  OBVIOUS
<1>1. job["backup"] = NoJob /\ pc["gc"] = "idle"
  BY ControllersAre DEF Init, ToolInit
<1>2. QED
  BY <1>1, NoJobType DEF UploadInv

\* For a name that is used once, and as long as the writers of objects can be
\* closed, a backup that is reported as finished is in the bucket until it
\* expires, whatever pods of its job have failed and wherever the cluster's
\* backupSpec points by then.
THEOREM FinishedStaysUploaded ==
    ASSUME MaxUids = 1, "close" \notin Losses PROVE Spec => []FinishedIsUploaded
<1>1. CASE "backup" \notin Kinds
  <2>1. FinishedIsUploaded
    BY <1>1 DEF FinishedIsUploaded
  <2>2. QED
    BY <2>1, PTL
<1>2. CASE "backup" \in Kinds
  <2>1. Spec => []Known
    BY KnownAlways
  <2>2. Init => UploadInv
    BY <1>2, InitUpload
  <2>3. Known /\ UploadInv /\ [Next]_vars => UploadInv'
    BY <1>2, NextUpload
  <2>4. Known /\ UploadInv => FinishedIsUploaded
    <3> DEFINE r == res["backup"]
    <3> SUFFICES ASSUME Known, UploadInv, "Finished" \in r.conds, r.uid \notin expired
                 PROVE  objects[wroteTo[<<"backup", r.uid>>]] = Uploaded
      BY DEF FinishedIsUploaded
    <3>1. KindInv("backup") /\ TypeOK
      BY <1>2 DEF Known, RequestInv
    <3>2. Exists(r) /\ r.uid = 1
      BY <1>2, <3>1, OnceTypes DEF KindInv, Exists
    <3>3. Outcome("backup") = "complete" /\ job["backup"] # NoJob
      BY <3>1, <3>2 DEF KindInv, TellInv, Tells, LaunchInv
    <3>4. job["backup"].st = "complete"
      BY <3>1, <3>3 DEF KindInv, JobInv
    <3>5. QED
      BY <3>2, <3>3, <3>4 DEF UploadInv
  <2>5. QED
    BY <2>1, <2>2, <2>3, <2>4, PTL DEF Spec
<1>3. QED
  BY <1>1, <1>2


(***************************************************************************)
(* The data goes with the backup.                                          *)
(***************************************************************************)

\* s is the storage of the backup: its own or, as long as the cluster has not
\* been changed, that of its cluster.
Fits(s) ==
    LET own == res["backup"].spec.storage
    IN  IF own # Unset THEN s = own ELSE edits = 0 => s = backupSpec.storage

\* Every copy of the backup has its spec, and the job and the collector have its
\* storage.
StorageInv ==
    Exists(res["backup"]) =>
        /\ Exists(seen["backup"]) => seen["backup"].spec = res["backup"].spec
        /\ \A c \in {"backup", "gc"} : pc[c] # "idle" => obj[c].spec = res["backup"].spec
        /\ pc["backup"] \in {"secret", "job"} => Fits(obj["backup"].storage)
        /\ pc["gc"] # "idle" => Fits(obj["gc"].storage)
        /\ job["backup"] # NoJob => Fits(job["backup"].bucket)

\* There is no data without metadata: the collector would not delete it.
Tidy(o) == o.meta = TRUE \/ o.data = "none"

\* That is so until the collector has deleted the data, from when on a job that
\* has ended writes none.
TidyInv ==
    LET k == "backup"
    IN  Smooth /\ (created[k] = 0 \/ Exists(res[k])) =>
          /\ pc["gc"] # "delete" =>
                /\ \A b \in Buckets : Tidy(objects[b])
                /\ job[k].st = "active" /\ job[k].at = "data"
                      => objects[job[k].bucket].meta = TRUE
          /\ pc["gc"] = "delete" /\ Ended(obj["gc"])
             /\ (edits = 0 \/ res[k].spec.storage # Unset)
                => objects[job[k].bucket].data = "none"

\* Which steps write the informer's copy, and that resources are not uncreated.
LEMMA CacheFrames ==
    ASSUME TypeOK, [Next]_vars, NEW k \in Kinds
    PROVE  /\ seen'[k] = seen[k] \/ ResourceEvent(k) \/ Restarted
           /\ created'[k] = 0 => created[k] = 0
<1> USE DEF apiVars, cacheVars
<1>0. created[k] \in Nat /\ created \in [Kinds -> 0 .. MaxUids] /\ seen \in [Kinds -> Resource]
  BY ToolAssumption DEF TypeOK
<1>1. CASE UNCHANGED <<seen, created>>
  BY <1>1
<1>2. ASSUME NEW i \in Kinds, Create(i) PROVE seen' = seen /\ (created'[k] = 0 => created[k] = 0)
  BY <1>0, <1>2 DEF Create
<1>3. ASSUME NEW i \in Kinds, ResourceEvent(i)
      PROVE  (seen'[k] = seen[k] \/ ResourceEvent(k)) /\ created' = created
  BY <1>0, <1>3 DEF ResourceEvent
<1>4. Restarted => created' = created
  BY DEF Restarted, Crash, Panic
<1>5. ASSUME NEW i \in Kinds,
             UserDeletes(i) \/ Kubernetes(i) \/ JobStep(i) \/ JobEvent(i) \/ Resync(i)
      PROVE  UNCHANGED <<seen, created>>
  BY <1>5 DEF UserDeletes, Kubernetes, CollectJob, CollectSecrets, JobStep, JobEvent, Resync
<1>6. ASSUME NEW c \in Controllers, Worker(c) \/ CallFails(c), ~Panic(c)
      PROVE  UNCHANGED <<seen, created>>
  BY <1>6 DEF Worker, CallFails, Begin, GetSecret, CreateJob, JobAlreadyExists, UpdateStatus,
     UpdateStatusConflict, ClearSecrets, BeginCollect, CollectNothing, DeleteBackupData,
     DeleteBackup
<1>7. EditCluster \/ DataNotDeleted \/ (\E u \in Uids : Expire(u)) => UNCHANGED <<seen, created>>
  BY DEF EditCluster, DataNotDeleted, Expire
<1>8. CASE UNCHANGED vars
  BY <1>1, <1>8 DEF vars
<1>9. CASE Restarted
  BY <1>4, <1>9
<1>10. QED
  BY <1>1, <1>2, <1>3, <1>5, <1>6, <1>7, <1>8, <1>9 DEF Next, Restarted

\* What happens to the copy of the worker of kind k.
LEMMA CopySteps ==
    ASSUME TypeOK, NEW k \in Kinds, WorkerFrame(k)
    PROVE  \/ pc'[k] = "idle"
           \/ /\ pc[k] # "idle"
              /\ obj'[k].spec = obj[k].spec /\ obj'[k].storage = obj[k].storage
              /\ pc'[k] \in {"secret", "job"} => pc[k] \in {"secret", "job"}
           \/ /\ pc[k] = "idle" /\ Exists(seen[k]) /\ obj'[k].spec = seen[k].spec
              /\ pc'[k] \in {"secret", "job"} => obj'[k].storage = StorageOf(seen[k])
<1>0. k \in Controllers /\ obj[k] \in Resource /\ seen[k] \in Resource /\ WorkerOK
  BY ControllersAre, TypeParts DEF TypeOK
<1>1. CASE Return(k)
  BY <1>0, <1>1, ReturnFacts
<1>2. CASE Restarted
  BY <1>0, <1>2 DEF Restarted, Crash, Panic, Restart
<1>3. CASE Begin(k)
  <2>1. pc[k] = "idle"
    BY <1>3 DEF Begin, Get
  <2>2. CASE HandleEnded(k)
    <3>1. /\ obj'[k] = [seen[k] EXCEPT !.storage = seen[k].spec.storage]
          /\ Exists(seen[k]) /\ pc'[k] \in {"sync", "clear"}
      BY <1>0, <2>2 DEF HandleEnded, Goto, WorkerOK
    <3>2. obj'[k].spec = seen[k].spec
      BY <1>0, <3>1 DEF Resource
    <3>3. QED
      BY <2>1, <3>1, <3>2
  <2>3. CASE HandleRunning(k)
    <3>1. /\ obj'[k] = [seen[k] EXCEPT !.storage = StorageOf(seen[k]),
                                       !.conds = @ \cup JobConditions(k)]
          /\ Exists(seen[k])
      BY <1>0, <2>3 DEF HandleRunning, WorkerOK
    <3>2. obj'[k].spec = seen[k].spec /\ obj'[k].storage = StorageOf(seen[k])
      BY <1>0, <3>1 DEF Resource
    <3>3. QED
      BY <2>1, <3>1, <3>2
  <2>4. CASE HandleNothing(k)
    BY <2>1, <2>4 DEF HandleNothing
  <2>5. QED
    BY <1>3, <2>2, <2>3, <2>4 DEF Begin
<1>4. CASE GetSecret(k)
  <2>1. pc[k] = "secret" /\ (Return(k) \/ (Goto(k, "job") /\ UNCHANGED obj))
    BY <1>4 DEF GetSecret, CreateTempSecret
  <2>2. QED
    BY <1>1, <2>1
<1>5. CASE CreateJob(k)
  <2>1. /\ pc[k] = "job" /\ pc'[k] = "status"
        /\ obj'[k] = [obj[k] EXCEPT !.conds = @ \cup {"Started"}]
    BY <1>0, <1>5 DEF CreateJob, Goto, WorkerOK
  <2>2. obj'[k].spec = obj[k].spec /\ obj'[k].storage = obj[k].storage
    BY <1>0, <2>1 DEF Resource
  <2>3. QED
    BY <2>1, <2>2
<1>6. CASE UpdateStatus(k)
  <2>1. \/ Return(k)
        \/ pc[k] = "sync" /\ Goto(k, "clear") /\ UNCHANGED obj
    BY <1>6 DEF UpdateStatus
  <2>2. Goto(k, "clear") => pc'[k] = "clear"
    BY <1>0 DEF Goto, WorkerOK
  <2>3. QED
    BY <1>1, <2>1, <2>2
<1>7. CASE JobAlreadyExists(k) \/ UpdateStatusConflict(k) \/ ClearSecrets(k) \/ CallFails(k)
  BY <1>1, <1>7 DEF JobAlreadyExists, UpdateStatusConflict, ClearSecrets, CallFails
<1>8. QED
  BY <1>2, <1>3, <1>4, <1>5, <1>6, <1>7 DEF WorkerFrame, Handles

\* The same for the collector's.
LEMMA CollectorSteps ==
    ASSUME TypeOK, "backup" \in Kinds, CollectorFrame
    PROVE  \/ pc'["gc"] = "idle"
           \/ pc["gc"] # "idle" /\ obj'["gc"] = obj["gc"]
           \/ /\ pc["gc"] = "idle" /\ Exists(seen["backup"])
              /\ obj'["gc"].spec = seen["backup"].spec
              /\ obj'["gc"].storage = StorageOf(seen["backup"])
<1>0. "gc" \in Controllers /\ seen["backup"] \in Resource /\ WorkerOK
  BY ControllersAre, TypeParts DEF TypeOK
<1>1. CASE BeginCollect
  <2>1. /\ obj'["gc"] = [seen["backup"] EXCEPT !.storage = StorageOf(seen["backup"])]
        /\ pc["gc"] = "idle" /\ Exists(seen["backup"])
    BY <1>0, <1>1 DEF BeginCollect, Get, HasExpired, WorkerOK
  <2>2. obj'["gc"].spec = seen["backup"].spec /\ obj'["gc"].storage = StorageOf(seen["backup"])
    BY <1>0, <2>1 DEF Resource
  <2>3. QED
    BY <2>1, <2>2
<1>2. CASE DeleteBackupData \/ DataNotDeleted
  BY <1>2 DEF DeleteBackupData, DataNotDeleted
<1>3. CASE DeleteBackup \/ CallFails("gc")
  BY <1>0, <1>3, ReturnFacts DEF DeleteBackup, CallFails
<1>4. CASE Restarted
  BY <1>0, <1>4 DEF Restarted, Crash, Panic, Restart
<1>5. QED
  BY <1>0, <1>1, <1>2, <1>3, <1>4 DEF CollectorFrame, Collects

LEMMA NextStorage ==
    ASSUME MaxUids = 1, "backup" \in Kinds, Known, StorageInv, [Next]_vars
    PROVE  StorageInv'
<1> DEFINE k == "backup"
<1> SUFFICES ASSUME Exists(res'[k])
             PROVE  /\ Exists(seen'[k]) => seen'[k].spec = res'[k].spec
                    /\ \A c \in {k, "gc"} : pc'[c] # "idle" => obj'[c].spec = res'[k].spec
                    /\ pc'[k] \in {"secret", "job"} => Fits(obj[k].storage)'
                    /\ pc'["gc"] # "idle" => Fits(obj["gc"].storage)'
                    /\ job'[k] # NoJob => Fits(job[k].bucket)'
  BY DEF StorageInv, Exists
<1> TypeOK /\ LocalsInv /\ KindInv(k)
  BY DEF Known, RequestInv
<1>1. WorkerFrame(k) /\ ResourceFrame(k) /\ JobFrame(k) /\ CollectorFrame /\ ClusterFrame
  BY StepFrames DEF Frames
<1>2. CASE Create(k) /\ created[k] = 0
  <2>1. UNCHANGED <<seen, pc, obj, job>>
    BY <1>2 DEF Create, cacheVars, workerVars, toolVars
  <2>2. seen[k] = NoResource /\ job[k] = NoJob /\ pc[k] = "idle" /\ pc["gc"] = "idle"
    BY <1>2, ControllersAre DEF KindInv, Unborn, KindOf
  <2>3. ~Exists(NoResource)
    BY DEF Exists, NoResource
  <2>4. QED
    BY <2>1, <2>2, <2>3
<1>3. CASE Exists(res[k]) /\ res'[k].spec = res[k].spec
  <2>1. ASSUME NEW s, Fits(s), NEW t, t = s
        PROVE  IF res'[k].spec.storage # Unset THEN t = res'[k].spec.storage
               ELSE edits' = 0 => t = backupSpec'.storage
    <3>1. (backupSpec' = backupSpec /\ edits' = edits) \/ edits' # 0
      <4>1. edits \in Nat
        BY HandlerAssumption DEF TypeOK
      <4>2. QED
        BY <1>1, <4>1 DEF ClusterFrame, EditCluster
    <3>2. QED
      BY <1>3, <2>1, <3>1 DEF Fits
  <2>2. Exists(seen'[k]) => seen'[k].spec = res'[k].spec
    <3>1. CASE seen'[k] = seen[k]
      BY <1>3, <3>1 DEF StorageInv
    <3>2. CASE ResourceEvent(k) \/ Restarted
      <4>1. seen'[k] = res[k]
        BY <3>2 DEF ResourceEvent, Restarted, Crash, Panic, Restart, TypeOK
      <4>2. QED
        BY <1>3, <4>1
    <3>3. QED
      BY <3>1, <3>2, CacheFrames
  \* What is read from the informer's copy fits.
  <2>3. ASSUME Exists(seen[k])
        PROVE  seen[k].spec = res[k].spec /\ Fits(StorageOf(seen[k]))
    BY <1>3, <2>3 DEF StorageInv, Fits, StorageOf
  <2>4. /\ pc'[k] # "idle" => obj'[k].spec = res'[k].spec
        /\ pc'[k] \in {"secret", "job"} => Fits(obj[k].storage)'
    <3>1. CASE pc'[k] = "idle"
      BY <3>1
    <3>2. CASE /\ pc[k] # "idle"
               /\ obj'[k].spec = obj[k].spec /\ obj'[k].storage = obj[k].storage
               /\ pc'[k] \in {"secret", "job"} => pc[k] \in {"secret", "job"}
      <4>1. /\ obj[k].spec = res[k].spec
            /\ pc[k] \in {"secret", "job"} => Fits(obj[k].storage)
        BY <1>3, <3>2 DEF StorageInv
      <4>2. QED
        BY <1>3, <2>1, <3>2, <4>1 DEF Fits
    <3>3. CASE /\ pc[k] = "idle" /\ Exists(seen[k]) /\ obj'[k].spec = seen[k].spec
               /\ pc'[k] \in {"secret", "job"} => obj'[k].storage = StorageOf(seen[k])
      BY <1>3, <2>1, <2>3, <3>3 DEF Fits
    <3>4. QED
      BY <1>1, <3>1, <3>2, <3>3, CopySteps
  <2>5. /\ pc'["gc"] # "idle" => obj'["gc"].spec = res'[k].spec
        /\ pc'["gc"] # "idle" => Fits(obj["gc"].storage)'
    <3>1. CASE pc'["gc"] = "idle"
      BY <3>1
    <3>2. CASE pc["gc"] # "idle" /\ obj'["gc"] = obj["gc"]
      <4>1. obj["gc"].spec = res[k].spec /\ Fits(obj["gc"].storage)
        BY <1>3, <3>2 DEF StorageInv
      <4>2. QED
        BY <1>3, <2>1, <3>2, <4>1 DEF Fits
    <3>3. CASE /\ Exists(seen[k]) /\ obj'["gc"].spec = seen[k].spec
               /\ obj'["gc"].storage = StorageOf(seen[k])
      BY <1>3, <2>1, <2>3, <3>3 DEF Fits
    <3>4. QED
      BY <1>1, <3>1, <3>2, <3>3, CollectorSteps
  <2>6. job'[k] # NoJob => Fits(job[k].bucket)'
    <3>1. CASE job[k] # NoJob /\ job'[k].bucket = job[k].bucket
      <4>1. Fits(job[k].bucket)
        BY <1>3, <3>1 DEF StorageInv
      <4>2. QED
        BY <2>1, <3>1, <4>1 DEF Fits
    <3>2. CASE JobStep(k)
      <4>1. ToolOK /\ ToolStep(k)
        BY <3>2, TypeParts DEF JobStep
      <4>2. job[k].st = "active" /\ (JobGoesOn(k) \/ JobHasEnded(k))
        BY <4>1, JobProgress
      <4>3. job'[k].bucket = job[k].bucket /\ job[k] # NoJob
        BY <4>2, NoJobType DEF JobGoesOn, JobHasEnded
      <4>4. QED
        BY <3>1, <4>3
    <3>3. CASE CollectJob(k)
      BY <3>3 DEF CollectJob, TypeOK
    <3>4. CASE CreateJob(k)
      <4>1. job'[k].bucket = obj[k].storage /\ pc[k] = "job"
        BY <3>4, LaunchedJob
      <4>2. Fits(obj[k].storage)
        BY <1>3, <4>1 DEF StorageInv
      <4>3. QED
        BY <2>1, <4>1, <4>2 DEF Fits
    <3>5. QED
      BY <1>1, <3>1, <3>2, <3>3, <3>4 DEF JobFrame
  <2>7. QED
    BY <2>2, <2>4, <2>5, <2>6
<1>4. QED
  BY <1>1, <1>2, <1>3, ExistedBefore

\* While the collector has a copy of a backup that had ended, the backup's job
\* is there, and has ended too.
LEMMA EndedJob ==
    ASSUME MaxUids = 1, "backup" \in Kinds, Known, Exists(res["backup"]),
           pc["gc"] # "idle", Ended(obj["gc"])
    PROVE  /\ job["backup"] # NoJob /\ job["backup"].st \in {"complete", "failed"}
           /\ job["backup"].uid = res["backup"].uid
<1> DEFINE k == "backup"
<1>1. KindInv(k) /\ TypeOK /\ "gc" \in Controllers /\ KindOf("gc") = k
  BY ControllersAre DEF Known, RequestInv, KindOf
<1>2. LaunchInv(k) /\ Tells(k, obj["gc"])
  BY <1>1 DEF KindInv, TellInv
<1>3. Outcome(k) \in {"complete", "failed"}
  BY <1>2 DEF Tells, Ended
<1>4. job[k] # NoJob
  BY <1>2, <1>3 DEF LaunchInv
<1>5. res[k].uid = 1
  BY <1>1, OnceTypes DEF Exists
<1>6. QED
  BY <1>1, <1>3, <1>4, <1>5 DEF KindInv, JobInv

\* What the tool writes is tidy, as the metadata comes first.
LEMMA TidyUpload ==
    ASSUME TypeOK, LocalsInv, "close" \notin Losses, NEW k \in Kinds, k = "backup", JobStep(k),
           \A b \in Buckets : Tidy(objects[b]),
           job[k].at = "data" => objects[job[k].bucket].meta = TRUE
    PROVE  /\ \A b \in Buckets : Tidy(objects'[b])
           /\ job'[k].st = "active" /\ job'[k].at = "data" => objects'[job'[k].bucket].meta = TRUE
<1> DEFINE w == job[k].bucket
           o == objects[w]
<1>1. /\ job[k].st = "active" /\ w \in Buckets /\ job'[k].bucket = w
      /\ UploadStep(k, w)
  BY UploadSteps
<1>2. /\ objects \in [Buckets -> [meta : BOOLEAN, data : {"none", "partial", "full"}]]
      /\ o \in [meta : BOOLEAN, data : {"none", "partial", "full"}]
  BY <1>1 DEF TypeOK
<1>3. ASSUME NEW n, objects' = [objects EXCEPT ![w] = n], n.meta = TRUE
      PROVE  (\A b \in Buckets : Tidy(objects'[b])) /\ objects'[w].meta = TRUE
  BY <1>1, <1>2, <1>3 DEF Tidy
<1>4. CASE objects' = [objects EXCEPT ![w] = [o EXCEPT !.meta = TRUE]]
  BY <1>1, <1>2, <1>3, <1>4, ObjectWrites
<1>5. ASSUME NEW d, job[k].at = "data", objects' = [objects EXCEPT ![w] = [o EXCEPT !.data = d]]
      PROVE  (\A b \in Buckets : Tidy(objects'[b])) /\ objects'[w].meta = TRUE
  BY <1>2, <1>3, <1>5, ObjectWrites
<1>6. CASE objects' = objects /\ ~(job'[k].st = "active" /\ job'[k].at = "data")
  BY <1>6
<1>7. UploadStep(k, w) =>
         \/ objects' = [objects EXCEPT ![w] = [o EXCEPT !.meta = TRUE]]
         \/ \E d : job[k].at = "data" /\ objects' = [objects EXCEPT ![w] = [o EXCEPT !.data = d]]
         \/ objects' = objects /\ ~(job'[k].st = "active" /\ job'[k].at = "data")
  BY DEF UploadStep
<1>8. QED
  BY <1>1, <1>4, <1>5, <1>6, <1>7

LEMMA NextTidy ==
    ASSUME MaxUids = 1, "close" \notin Losses, "backup" \in Kinds,
           Known, UploadInv, StorageInv, TidyInv, [Next]_vars
    PROVE  TidyInv'
<1> DEFINE k == "backup"
           j == job[k]
           n == job'[k]
<1> SUFFICES ASSUME Smooth', created'[k] = 0 \/ Exists(res'[k])
             PROVE  /\ pc'["gc"] # "delete" =>
                          /\ \A b \in Buckets : Tidy(objects'[b])
                          /\ n.st = "active" /\ n.at = "data"
                                => objects'[n.bucket].meta = TRUE
                    /\ pc'["gc"] = "delete" /\ Ended(obj'["gc"])
                       /\ (edits' = 0 \/ res'[k].spec.storage # Unset)
                          => objects'[n.bucket].data = "none"
  BY DEF TidyInv, Exists, Tidy, Ended
<1> TypeOK /\ LocalsInv /\ KindInv(k) /\ "gc" \in Controllers /\ k \in Kinds
  BY ControllersAre DEF Known, RequestInv
<1>1. ResourceFrame(k) /\ JobFrame(k) /\ CollectorFrame /\ ObjectFrame /\ ClusterFrame
  BY StepFrames DEF Frames
<1>2. Smooth /\ ~Restarted /\ ~DataNotDeleted /\ ~CallFails("gc")
  BY SmoothSteps
<1>3. created[k] = 0 \/ (Exists(res[k]) /\ res'[k].spec = res[k].spec /\ Exists(res'[k]))
  BY <1>1, CacheFrames, ExistedBefore
<1>4. created[k] = 0 => pc["gc"] = "idle"
  BY DEF KindInv, Unborn, KindOf
<1>5. ~DeleteBackup
  <2>1. SUFFICES ASSUME DeleteBackup PROVE FALSE
    OBVIOUS
  <2>2. pc["gc"] = "delete" /\ res'[k] = NoResource
    BY <2>1 DEF DeleteBackup, TypeOK
  <2>3. ~Exists(res'[k])
    BY <2>2 DEF Exists, NoResource
  <2>4. QED
    BY <1>3, <1>4, <2>2, <2>3
<1>6. CASE pc'["gc"] # "delete"
  <2>1. pc["gc"] # "delete" /\ ~DeleteBackupData
    <3>1. DeleteBackupData => pc'["gc"] = "delete"
      BY DEF DeleteBackupData, Goto, TypeOK
    <3>2. BeginCollect => pc["gc"] = "idle"
      BY DEF BeginCollect, Get
    <3>3. QED
      BY <1>1, <1>2, <1>5, <1>6, <3>1, <3>2 DEF CollectorFrame, Collects
  <2>2. /\ \A b \in Buckets : Tidy(objects[b])
        /\ j.st = "active" /\ j.at = "data" => objects[j.bucket].meta = TRUE
    BY <1>2, <1>3, <2>1 DEF TidyInv
  <2>3. CASE JobStep(k)
    <3>1. j.st = "active"
      BY <2>3, UploadSteps
    <3>2. QED
      BY <1>6, <2>2, <2>3, <3>1, TidyUpload
  <2>4. CASE ~JobStep(k)
    <3>1. objects' = objects
      BY <1>1, <1>2, <2>1, <2>4 DEF ObjectFrame
    <3>2. n = j \/ n.st # "active" \/ n.at = "meta"
      <4>1. CollectJob(k) => n = NoJob
        BY DEF CollectJob, TypeOK
      <4>2. CreateJob(k) => n.at = "meta"
        BY LaunchedJob
      <4>3. QED
        BY <1>1, <2>4, <4>1, <4>2, NoJobType DEF JobFrame
    <3>3. QED
      BY <1>6, <2>2, <3>1, <3>2
  <2>5. QED
    BY <2>3, <2>4
<1>7. CASE pc'["gc"] = "delete" /\ Ended(obj'["gc"])
           /\ (edits' = 0 \/ res'[k].spec.storage # Unset)
  <2>1. /\ pc["gc"] \in {"data", "delete"} /\ obj'["gc"] = obj["gc"]
        /\ pc["gc"] = "data" => DeleteBackupData
    <3>1. ~BeginCollect
      <4>1. BeginCollect => pc'["gc"] = "data"
        BY DEF BeginCollect, Goto, TypeOK
      <4>2. QED
        BY <1>7, <4>1
    <3>2. DeleteBackupData => pc["gc"] = "data" /\ obj' = obj
      BY DEF DeleteBackupData
    <3>3. QED
      BY <1>1, <1>2, <1>5, <1>7, <3>1, <3>2 DEF CollectorFrame, Collects
  <2>2. Exists(res[k]) /\ res'[k].spec = res[k].spec
    BY <1>3, <1>4, <2>1
  <2>3. edits' = 0 => edits = 0
    <3>1. edits \in Nat
      BY HandlerAssumption DEF TypeOK
    <3>2. QED
      BY <1>1, <3>1 DEF ClusterFrame, EditCluster
  <2>4. Ended(obj["gc"]) /\ (edits = 0 \/ res[k].spec.storage # Unset)
    BY <1>7, <2>1, <2>2, <2>3
  <2>5. j # NoJob /\ j.st \in {"complete", "failed"} /\ j.uid = res[k].uid
    BY <2>1, <2>2, <2>4, EndedJob
  <2>6. ~JobStep(k) /\ n = j
    <3>1. ~JobStep(k)
      BY <2>5, UploadSteps
    <3>2. ~CollectJob(k)
      BY <2>5 DEF CollectJob
    <3>3. ~CreateJob(k)
      BY <2>5, LaunchedJob
    <3>4. QED
      BY <1>1, <3>1, <3>2, <3>3 DEF JobFrame
  <2>7. CASE pc["gc"] = "delete"
    <3>1. objects' = objects
      <4>1. ~DeleteBackupData
        BY <2>7 DEF DeleteBackupData
      <4>2. QED
        BY <1>1, <1>2, <2>6, <4>1 DEF ObjectFrame
    <3>2. objects[j.bucket].data = "none"
      BY <1>2, <2>2, <2>4, <2>7 DEF TidyInv
    <3>3. QED
      BY <1>7, <2>6, <3>1, <3>2
  <2>8. CASE pc["gc"] = "data"
    <3>1. Fits(j.bucket) /\ Fits(obj["gc"].storage)
      BY <2>2, <2>5, <2>8 DEF StorageInv
    <3>2. obj["gc"].storage = j.bucket /\ j.bucket \in Buckets
      BY <2>4, <2>5, <3>1 DEF Fits, UploadInv
    <3>3. Tidy(objects[j.bucket])
      BY <1>2, <2>2, <2>8, <3>2 DEF TidyInv
    <3>4. objects' = IF objects[j.bucket].meta THEN [objects EXCEPT ![j.bucket] = NoObjects]
                     ELSE objects
      BY <2>1, <2>8, <3>2 DEF DeleteBackupData
    <3>5. objects'[j.bucket].data = "none"
      <4>1. CASE objects[j.bucket].meta
        <5>1. objects'[j.bucket] = NoObjects
          BY <3>2, <3>4, <4>1 DEF TypeOK
        <5>2. QED
          BY <5>1 DEF NoObjects
      <4>2. CASE ~objects[j.bucket].meta
        <5>1. objects' = objects
          BY <3>4, <4>2
        <5>2. objects[j.bucket].meta # TRUE
          BY <4>2
        <5>3. QED
          BY <3>3, <5>1, <5>2 DEF Tidy
      <4>3. QED
        BY <4>1, <4>2
    <3>6. QED
      BY <1>7, <2>6, <3>5
  <2>9. QED
    BY <2>1, <2>7, <2>8
<1>8. QED
  BY <1>6, <1>7

LEMMA InitTidy == ASSUME "backup" \in Kinds PROVE Init => StorageInv /\ TidyInv
<1> SUFFICES ASSUME Init PROVE StorageInv /\ TidyInv
  OBVIOUS
<1>1. ~Exists(res["backup"])
  BY DEF Init, Exists, NoResource
<1>2. StorageInv
  BY <1>1 DEF StorageInv
<1>3. job["backup"] = NoJob /\ pc["gc"] = "idle"
  BY ControllersAre DEF Init, ToolInit
<1>4. Tidy(NoObjects) /\ Tidy(Uploaded)
  BY DEF Tidy, NoObjects, Uploaded
<1>5. \A b \in Buckets : Tidy(objects[b])
  <2>1. \A b \in Buckets : objects[b] \in {NoObjects, Uploaded}
    BY DEF Init, ToolInit
  <2>2. QED
    BY <1>4, <2>1
<1>6. TidyInv
  BY <1>3, <1>5, NoJobType DEF TidyInv
<1>7. QED
  BY <1>2, <1>6

\* For a name that is used once, and as long as the writers of objects can be
\* closed, no data is left behind when the collector deletes a backup that had
\* ended, unless a call has failed, the operator has stopped or the cluster has
\* been given another storage: the collector finds the objects where the job
\* has written them, although each takes the storage from its own copy, and as
\* the metadata is written first, what deleteBackupDataGCS deletes is all.
THEOREM DataGoes ==
    ASSUME MaxUids = 1, "close" \notin Losses, "backup" \in Kinds
    PROVE  Spec => DataGoesWithBackup
<1>1. Spec => []Known
  BY KnownAlways
<1> DEFINE Inv == UploadInv /\ StorageInv /\ TidyInv
<1>2. Init => Inv
  BY InitUpload, InitTidy
<1>3. Known /\ Inv /\ [Next]_vars => Inv'
  BY NextUpload, NextStorage, NextTidy
<1>4. Known /\ Inv /\ [Next]_vars
      => [LET r == obj["gc"]
          IN  /\ pc["gc"] = "delete" /\ pc'["gc"] = "idle"
              /\ Ended(r) /\ r.uid = res["backup"].uid
              /\ faults' = 0 /\ ~panicked' /\ (edits = 0 \/ r.spec.storage # Unset)
              => objects[wroteTo[<<"backup", r.uid>>]].data = "none"]_vars
  <2> DEFINE r == obj["gc"]
  <2> SUFFICES ASSUME Known, Inv, [Next]_vars, pc["gc"] = "delete", Ended(r),
                      r.uid = res["backup"].uid, faults' = 0, ~panicked',
                      edits = 0 \/ r.spec.storage # Unset
               PROVE  objects[wroteTo[<<"backup", r.uid>>]].data = "none"
    OBVIOUS
  <2>1. TypeOK /\ LocalsInv /\ "gc" \in Controllers
    BY ControllersAre DEF Known
  <2>2. r.uid = 1 /\ Exists(res["backup"])
    <3>1. r.uid \in Uids /\ Uids = {1}
      BY <2>1, OnceTypes DEF LocalsInv
    <3>2. QED
      BY <3>1 DEF Exists
  <2>3. Smooth
    BY <2>1, SmoothSteps DEF Smooth
  <2>4. r.spec = res["backup"].spec
    BY <2>2 DEF StorageInv
  <2>5. objects[job["backup"].bucket].data = "none"
    BY <2>2, <2>3, <2>4 DEF TidyInv
  <2>6. job["backup"] # NoJob
    BY <2>2, EndedJob
  <2>7. QED
    BY <2>2, <2>5, <2>6 DEF UploadInv
<1>5. QED
  BY <1>1, <1>2, <1>3, <1>4, PTL DEF Spec, DataGoesWithBackup

=============================================================================
