-------------------------- MODULE UpgradeInvariant --------------------------
(***************************************************************************)
(* The inductive invariant of an upgrade: why no pod runs another version  *)
(* than the recorded one before the cluster has been backed up.            *)
(*                                                                         *)
(* Three things that the code takes for granted are assumed: users wait    *)
(* until an upgrade has settled, a reconcile starts from an up-to-date     *)
(* copy of the resource, and the names of backups are neither shared by    *)
(* clusters nor used again.                                                *)
(***************************************************************************)
EXTENDS ClusterReconciler

\* Upgrades go to later versions only.
ForwardOnly == \A p \in Upgradable : p[1] < p[2]

\* No two clusters of the Kubernetes namespace have an Aerospike namespace of
\* the same name.
DistinctNames ==
    \A c, d \in Clusters : c # d => NamespacesOf[c] \cap NamespacesOf[d] = {}

Assumed ==
    Patience = "settled" /\ FreshReads = TRUE /\ ForwardOnly /\ DistinctNames

\* Every backup belongs to the cluster its name suggests and to a version
\* the cluster has had; one made from the version recorded now is fresh.
BackupsBelong ==
    \A b \in BackupName :
        backups[b] # "absent"
        => LET v == api[backupOf[b]].ver
           IN  /\ b[1] \in NamespacesOf[backupOf[b]]
               /\ v \in Versions
               /\ b[2] <= v
               /\ b[2] = v => b \in fresh

\* The upgrade from f to t of cluster c has its backups.
Covered(c, f, t) ==
    \A ns \in NamespacesOf[c] : backups[<<ns, f, t>>] = "finished"

\* Pods of c run one of the versions of V.
PodsAmong(c, V) == \A i \in Index : pods[c][i] \in V \cup {NoVersion}

\* What the annotation and the status of a cluster say of its pods.
ResourceOK(c) ==
    LET o == api[c]
    IN  /\ o.ver = NoVersion => o.ann = "none" /\ PodsAmong(c, {o.spec})
        /\ o.ver # NoVersion => o.ver <= o.spec
        /\ o.ver # NoVersion /\ (o.ann # "started" \/ o.ver = o.spec)
           => PodsAmong(c, {o.ver})
        /\ o.ver # NoVersion /\ o.ann = "started" /\ o.ver # o.spec
           => PodsAmong(c, {o.ver, o.spec}) /\ Covered(c, o.ver, o.spec)

\* The local copy tells the versions of the resource.
SameVersions(c) == cl[c].spec = api[c].spec /\ cl[c].ver = api[c].ver

\* The local copy is that of an upgrade whose annotation is a.
Upgrading(c, a) ==
    /\ up[c] = TRUE
    /\ SameVersions(c)
    /\ api[c].ver # NoVersion
    /\ api[c].ver # api[c].spec
    /\ api[c].ann = a

\* What a reconcile relies on while it writes each of the signals: before
\* the patch the annotation is that of the local copy, after it the new one.
SignalOK(c) ==
    LET a == IF pc[c] = "patch" THEN cl[c].ann ELSE NewAnnotation(sig[c], cl[c])
    IN  /\ sig[c] = "backupStarted" => Upgrading(c, a) /\ cl[c].ann = "none"
        /\ sig[c] \in {"backupFinished", "backupFailed", "upgradeStarted", "upgradeFailed"}
           => Upgrading(c, a) /\ cl[c].ann = "backup"
        /\ sig[c] \in {"backupFinished", "upgradeStarted"}
           => Covered(c, cl[c].ver, cl[c].spec)
        /\ sig[c] = "reconciled"
           => /\ SameVersions(c) /\ api[c].ver # api[c].spec
              /\ PodsAmong(c, {cl[c].spec})
              /\ up[c] => Upgrading(c, "started") /\ cl[c].ann = "started"
              /\ ~up[c] => api[c].ver = NoVersion /\ cl[c].ann = "none"
        /\ sig[c] = "upgradeFinished"
           => /\ cl[c].ann = "started" /\ api[c].ann = a
              /\ cl[c].ver = cl[c].spec /\ api[c].ver = cl[c].ver
              /\ api[c].ver # NoVersion
              /\ pc[c] = "patch" => api[c].spec = cl[c].spec

\* What a reconcile relies on in the loop of ensurePods.
LoopOK(c) ==
    /\ cl[c].spec # NoVersion
    /\ up[c] = TRUE
       => /\ Upgrading(c, "started") /\ cl[c].ann = "started"
          /\ \A i \in Index : i < idx[c] => pods[c][i] \in {cl[c].spec, NoVersion}
    /\ up[c] = FALSE
       => \/ SameVersions(c) /\ cl[c].ver = NoVersion /\ cl[c].ann = "none"
          \/ /\ cl[c].ver = cl[c].spec /\ api[c].ver = cl[c].ver
             /\ api[c].spec = cl[c].spec \/ api[c].ann = "none"
    /\ pc[c] = "waitPod" /\ idx[c] \in Index
       => pods[c][idx[c]] \in {cl[c].spec, NoVersion}

LocalOK(c) ==
    /\ pc[c] = "idle" => idx[c] = 0
    /\ pc[c] \in {"patch", "updateStatus"} => SignalOK(c)
    /\ pc[c] = "backupCluster" => Upgrading(c, "backup")
    /\ pc[c] = "checkBackups" => Upgrading(c, "backup") /\ cl[c].ann = "backup"
    /\ pc[c] \in {"ensurePods", "waitPod"} => LoopOK(c)

\* The inductive invariant.
BackupInv ==
    /\ BackupsBelong
    /\ \A c \in Clusters : ResourceOK(c) /\ LocalOK(c)

=============================================================================
