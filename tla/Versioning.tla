----------------------------- MODULE Versioning -----------------------------
(***************************************************************************)
(* Versions of Aerospike and the upgrades between them (pkg/versioning),   *)
(* and what they are used for: admission of a change of .spec.version      *)
(* (validateVersion), the choice of an upgrade strategy (GetStrategy), and *)
(* the name of the pre-upgrade backup (GetBackupName).                     *)
(***************************************************************************)
EXTENDS Integers, Sequences

CONSTANTS
    SupportedVersions,  \* AerospikeServerSupportedVersions
    OtherVersions,      \* versions users may ask for that are not supported
    MaxUpgrades         \* bound: upgrades of a cluster

\* A version: major, minor, patch and revision number.
Version == [major : Nat, minor : Nat, patch : Nat, revision : Nat]

ASSUME VersioningAssumption ==
    /\ SupportedVersions \subseteq Version
    /\ OtherVersions \subseteq Version
    /\ MaxUpgrades \in Nat

VARIABLES
    version,  \* .spec.version of a cluster
    names     \* the names of its pre-upgrade backups, in order

vars == <<version, names>>

-----------------------------------------------------------------------------
(* VersionUpgrade: s is its source, t its target.                          *)

\* Variant: every version is supported.
AnySupported(v) == TRUE

IsSupported(v) == v \in SupportedVersions

\* The last comparison is of the target with itself.
isDowngrade(s, t) ==
    \/ t.major < s.major
    \/ t.minor < s.minor
    \/ t.patch < s.patch
    \/ t.revision < t.revision

isMajorUpgrade(s, t) == ~isDowngrade(s, t) /\ t.major > s.major

isMinorUpgrade(s, t) ==
    /\ ~isDowngrade(s, t) /\ ~isMajorUpgrade(s, t)
    /\ t.minor > s.minor

isPatchUpgrade(s, t) ==
    /\ ~isDowngrade(s, t) /\ ~isMajorUpgrade(s, t) /\ ~isMinorUpgrade(s, t)
    /\ t.patch > s.patch

\* Variant: a larger revision number is enough.
anyRevisionUpgrade(s, t) == t.revision > s.revision

isRevisionUpgrade(s, t) ==
    /\ ~isDowngrade(s, t) /\ ~isMajorUpgrade(s, t) /\ ~isMinorUpgrade(s, t)
    /\ ~isPatchUpgrade(s, t)
    /\ t.revision > s.revision

IsValid(s, t) ==
    /\ IsSupported(s) /\ IsSupported(t)
    /\ isMinorUpgrade(s, t) \/ isPatchUpgrade(s, t) \/ isRevisionUpgrade(s, t)

\* Variant: the boundary between the storage formats is one version off.
RecreateFrom43(s, t) == t.major = 4 /\ s.minor <= 2 /\ t.minor >= 3

\* GetStrategy: TRUE for To42XYStrategy, which recreates persistent volume
\* claims, FALSE for DefaultStrategy.
RecreatePersistentVolumeClaims(s, t) ==
    t.major = 4 /\ s.minor <= 1 /\ t.minor >= 2

-----------------------------------------------------------------------------
(* GetBackupName writes a version without its dots.  What is left is the   *)
(* decimal number whose digits are those of the four parts.                *)

\* The number whose digits are those of a followed by those of b.
Append10(a, b) ==
    IF b < 10 THEN 10 * a + b ELSE IF b < 100 THEN 100 * a + b ELSE 1000 * a + b

\* Variant: the revision is left out of the name.
WithoutRevision(v) == Append10(Append10(v.major, v.minor), v.patch)

WithoutDots(v) == Append10(Append10(Append10(v.major, v.minor), v.patch), v.revision)

\* The name of the backup, but for the name of the namespace.
GetBackupName(s, t) == <<WithoutDots(s), WithoutDots(t)>>

-----------------------------------------------------------------------------

Init ==
    /\ version \in SupportedVersions
    /\ names = <<>>

\* A user asks for a version.  The webhook admits a valid upgrade, which is
\* carried out after a backup; it refuses anything else.
ChangeVersion(v) ==
    /\ Len(names) < MaxUpgrades
    /\ v # version
    /\ IsValid(version, v)
    /\ version' = v
    /\ names' = Append(names, GetBackupName(version, v))

Next ==
    \E v \in SupportedVersions \cup OtherVersions : ChangeVersion(v)

Spec == Init /\ [][Next]_vars

-----------------------------------------------------------------------------
(* Properties.                                                             *)

\* The order of versions.
Less(s, t) ==
    \/ s.major < t.major
    \/ s.major = t.major /\ s.minor < t.minor
    \/ s.major = t.major /\ s.minor = t.minor /\ s.patch < t.patch
    \/ /\ s.major = t.major /\ s.minor = t.minor /\ s.patch = t.patch
       /\ s.revision < t.revision

\* Every variable has its type: a cluster is never moved to a version that is
\* not supported (IsSupported).
TypeOK ==
    /\ version \in SupportedVersions
    /\ names \in Seq(Nat \X Nat)

\* The version of a cluster only moves forwards (validateVersion and IsValid:
\* "downgrading is NOT supported").
NeverBackwards == [][Less(version, version')]_vars

\* A backup name tells the upgrade it was made for: a cluster never needs
\* the same name twice (GetBackupName, which drops the dots).
NamesAreUnique ==
    \A i, j \in 1 .. Len(names) : names[i] = names[j] => i = j

\* Storage formats changed with 4.2: the volumes of a pod are replaced by an
\* upgrade across that version, and by no other (GetStrategy).
V42 == [major |-> 4, minor |-> 2, patch |-> 0, revision |-> 0]
RecreatesAcross42 ==
    [][RecreatePersistentVolumeClaims(version, version')
       <=> Less(version, V42) /\ ~Less(version', V42)]_vars

=============================================================================
