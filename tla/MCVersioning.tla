---------------------------- MODULE MCVersioning ----------------------------
(***************************************************************************)
(* Versioning with the versions the operator supports, and some others.    *)
(***************************************************************************)
EXTENDS Versioning

V4(minor, revisions) ==
    {[major |-> 4, minor |-> minor, patch |-> 0, revision |-> r] : r \in revisions}

MCSupportedVersions ==
    V4(0, {4, 5, 6}) \cup V4(1, {1, 6}) \cup V4(2, {3, 4, 5, 10})
    \cup V4(3, {2, 4, 6, 7, 8, 10})

MCOtherVersions ==
    V4(3, {1, 11}) \cup V4(4, {0})
    \cup {[major |-> 5, minor |-> 0, patch |-> 0, revision |-> 3]}

=============================================================================
