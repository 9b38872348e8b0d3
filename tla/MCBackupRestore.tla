--------------------------- MODULE MCBackupRestore ---------------------------
(***************************************************************************)
(* Instances of BackupRestore: resources that leave the storage to their   *)
(* cluster and expire, and clusters with a backupSpec in any bucket,       *)
(* without one, and deleted.                                               *)
(***************************************************************************)
EXTENDS BackupRestore

MCSpecs == {[storage |-> Unset, ttl |-> 1]}

MCBackupSpecs == [storage : Buckets, ttl : {0}] \cup {Unset, Gone}

=============================================================================
