------------------------ MODULE MCClusterReconciler ------------------------
(***************************************************************************)
(* Small instances of ClusterReconciler: versions are 1 .. MaxVersion, and *)
(* an upgrade goes to any later one.                                       *)
(*                                                                         *)
(* The admission webhook, when it is enabled, limits a cluster to one      *)
(* Aerospike namespace; the loops over namespaces are checked with two.    *)
(***************************************************************************)
EXTENDS UpgradeInvariant

CONSTANTS
    MaxVersion,   \* bound: number of versions
    Names,        \* bound: Aerospike namespaces of a cluster
    SharedNames   \* clusters name their Aerospike namespaces alike

MCVersions == 1 .. MaxVersion
MCUpgradable == {p \in MCVersions \X MCVersions : p[1] < p[2]}
MCNamespaces == IF SharedNames THEN Names ELSE Clusters \X Names
MCNamespacesOf ==
    [c \in Clusters |-> IF SharedNames THEN Names ELSE {c} \X Names]

=============================================================================
