----------------------------- MODULE BackupTool -----------------------------
(***************************************************************************)
(* What the operator's jobs do: the tool of cmd/backup/main.go that a      *)
(* job's pod runs, the objects it streams to and from a bucket             *)
(* (pkg/backuprestore/gcs), and the Kubernetes job that starts it again    *)
(* when it fails (BackoffLimit in pkg/backuprestore/job.go).               *)
(*                                                                         *)
(* The module is about one name, which a backup and a restore may bear:    *)
(* both use the objects of that name.  A request is <<kind, n>>, the n-th  *)
(* resource of that kind created under the name.                           *)
(***************************************************************************)
EXTENDS Integers

CONSTANTS
    Kinds,         \* of "backup" and "restore"
    MaxUids,       \* bound: resources of a kind created under the name
    Buckets,       \* buckets of the cloud storage
    OldObjects,    \* those that may have objects of that name already
    BackoffLimit,  \* jobBackoffLimit, 3 in the code
    Losses         \* what may go wrong in a pod, of AllLosses

\* The pod is lost or a call of the tool fails; asbackup or asrestore dies in
\* mid-stream; closing the writer of an object fails.
AllLosses == {"pod", "dies", "close"}

ASSUME ToolAssumption ==
    /\ Kinds \subseteq {"backup", "restore"} /\ Kinds # {}
    /\ MaxUids \in Nat \ {0}
    /\ OldObjects \subseteq Buckets
    /\ BackoffLimit \in Nat
    /\ Losses \subseteq AllLosses

VARIABLES
    job,       \* job[k]: the job of that name and kind
    ran,       \* history: how far the operation of each request has come
    wroteTo,   \* history: the bucket that its job was given
    objects,   \* objects[b]: the metadata and the data of that name
    restored   \* what the last restore has read

toolVars == <<job, ran, wroteTo, objects, restored>>

Uids == 1 .. MaxUids
Requests == Kinds \X Uids

NoBucket == "none"

\* st "none": no such job; at: where its pod is; fails: failed pods so far;
\* secret: the temporary secret that it mounts, 0 for the user's own.
Job == [uid : 0 .. MaxUids, st : {"none", "active", "complete", "failed"},
        at : {"meta", "data", "exit", "dead"}, fails : 0 .. BackoffLimit,
        bucket : Buckets \cup {NoBucket}, secret : Nat]
NoJob == [uid |-> 0, st |-> "none", at |-> "meta", fails |-> 0,
          bucket |-> NoBucket, secret |-> 0]

NoObjects == [meta |-> FALSE, data |-> "none"]
Uploaded == [meta |-> TRUE, data |-> "full"]

ToolInit ==
    /\ job = [k \in Kinds |-> NoJob]
    /\ ran = [q \in Requests |-> "none"]
    /\ wroteTo = [q \in Requests |-> NoBucket]
    /\ objects \in [Buckets -> {NoObjects, Uploaded}]
    /\ \A b \in Buckets \ OldObjects : objects[b] = NoObjects
    /\ restored = "none"

-----------------------------------------------------------------------------
(* The job and its pods.                                                   *)

\* Variant: a job that exists is replaced.
RelaunchJob(k, uid, bucket, secret) ==
    /\ job' = [job EXCEPT ![k] = [NoJob EXCEPT !.uid = uid, !.st = "active",
                                      !.bucket = bucket, !.secret = secret]]
    /\ ran' = [ran EXCEPT ![<<k, uid>>] = "active"]
    /\ wroteTo' = [wroteTo EXCEPT ![<<k, uid>>] = bucket]
    /\ UNCHANGED <<objects, restored>>

\* createJob: the request and the bucket are arguments of the tool.
LaunchJob(k, uid, bucket, secret) ==
    /\ job[k] = NoJob
    /\ job' = [job EXCEPT ![k] = [NoJob EXCEPT !.uid = uid, !.st = "active",
                                      !.bucket = bucket, !.secret = secret]]
    /\ ran' = [ran EXCEPT ![<<k, uid>>] = "active"]
    /\ wroteTo' = [wroteTo EXCEPT ![<<k, uid>>] = bucket]
    /\ UNCHANGED <<objects, restored>>

Moves(k, at) ==
    /\ job' = [job EXCEPT ![k].at = at]
    /\ UNCHANGED <<ran, wroteTo>>

\* The job has a condition from now on.
JobEnds(k, st) ==
    /\ job' = [job EXCEPT ![k].st = st, ![k].at = "meta"]
    /\ ran' = [ran EXCEPT ![<<k, job[k].uid>>] = st]
    /\ UNCHANGED wroteTo

\* Variant: one more pod than the limit allows.
PodFailsOnceMore(k) ==
    IF job[k].fails > BackoffLimit THEN JobEnds(k, "failed")
    ELSE /\ job' = [job EXCEPT ![k].fails = @ + 1, ![k].at = "meta"]
         /\ UNCHANGED <<ran, wroteTo>>

\* The tool exits with an error: another pod, unless there were too many.
PodFails(k) ==
    IF job[k].fails = BackoffLimit THEN JobEnds(k, "failed")
    ELSE /\ job' = [job EXCEPT ![k].fails = @ + 1, ![k].at = "meta"]
         /\ UNCHANGED <<ran, wroteTo>>

PodAt(k, at) == job[k].st = "active" /\ job[k].at = at

PodLost(k) ==
    /\ job[k].st = "active"
    /\ "pod" \in Losses \/ job[k].at = "dead"
    /\ PodFails(k)
    /\ UNCHANGED <<objects, restored>>

-----------------------------------------------------------------------------
(* doBackup.  The writer of an object is closed by a defer whose error is  *)
(* dropped: then the object is as before, and the tool goes on.            *)

\* The object is written, or its writer could not be closed.
Written(k, o) ==
    LET b == job[k].bucket
    IN  {[objects EXCEPT ![b] = o]} \cup
            (IF "close" \in Losses THEN {objects} ELSE {})

DumpMetadata(k) ==
    /\ k = "backup" /\ PodAt(k, "meta")
    /\ objects' \in Written(k, [objects[job[k].bucket] EXCEPT !.meta = TRUE])
    /\ Moves(k, "data")
    /\ UNCHANGED restored

TransferToGCS(k) ==
    /\ k = "backup" /\ PodAt(k, "data")
    /\ objects' \in Written(k, [objects[job[k].bucket] EXCEPT !.data = "full"])
    /\ Moves(k, "exit")
    /\ UNCHANGED restored

\* Variant: the exit code of asbackup is not looked at.
TransferCutUnnoticed(k) ==
    /\ k = "backup" /\ PodAt(k, "data") /\ "dies" \in Losses
    /\ objects' \in
           Written(k, [objects[job[k].bucket] EXCEPT !.data = "partial"])
    /\ Moves(k, "exit")
    /\ UNCHANGED restored

\* asbackup dies: the stream ends early, which is no error for TransferToGCS.
TransferCut(k) ==
    /\ k = "backup" /\ PodAt(k, "data") /\ "dies" \in Losses
    /\ objects' \in
           Written(k, [objects[job[k].bucket] EXCEPT !.data = "partial"])
    /\ Moves(k, "dead")
    /\ UNCHANGED restored

-----------------------------------------------------------------------------
(* doRestore.                                                              *)

ReadMetadata(k) ==
    /\ k = "restore" /\ PodAt(k, "meta")
    /\ IF objects[job[k].bucket].meta THEN Moves(k, "data") ELSE PodFails(k)
    /\ UNCHANGED <<objects, restored>>

TransferFromGCS(k) ==
    /\ k = "restore" /\ PodAt(k, "data")
    /\ LET data == objects[job[k].bucket].data
       IN  IF data = "none" THEN PodFails(k) /\ UNCHANGED restored
           ELSE /\ restored' = data
                /\ Moves(k, "exit")
    /\ UNCHANGED objects

\* asrestore dies: writing to its standard input fails, or Wait does.
RestoreCut(k) ==
    /\ k = "restore" /\ PodAt(k, "data") /\ "dies" \in Losses
    /\ objects[job[k].bucket].data # "none"
    /\ restored' = "partial"
    /\ Moves(k, "dead")
    /\ UNCHANGED objects

\* cmd.Wait returns nil and the tool exits with 0.
ToolSucceeds(k) ==
    /\ PodAt(k, "exit")
    /\ JobEnds(k, "complete")
    /\ UNCHANGED <<objects, restored>>

\* A pod starts once the secret that it mounts is there.
ToolStep(k) ==
    DumpMetadata(k) \/ TransferToGCS(k) \/ TransferCut(k)
      \/ ReadMetadata(k) \/ TransferFromGCS(k) \/ RestoreCut(k)
      \/ ToolSucceeds(k) \/ PodLost(k)

=============================================================================
