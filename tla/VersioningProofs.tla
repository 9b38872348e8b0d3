-------------------------- MODULE VersioningProofs --------------------------
(***************************************************************************)
(* Proofs about Versioning, for every set of supported versions.           *)
(***************************************************************************)
EXTENDS Versioning, TLAPS

\* A valid upgrade goes to a later version of the same major release, though
\* isDowngrade overlooks the revision: no kind of upgrade does.
LEMMA ValidIsForward ==
    ASSUME NEW s \in Version, NEW t \in Version, IsValid(s, t)
    PROVE  Less(s, t) /\ s.major = t.major
<1> USE DEF Version
<1>1. ~isDowngrade(s, t) /\ ~isMajorUpgrade(s, t)
  BY DEF IsValid, isMinorUpgrade, isPatchUpgrade, isRevisionUpgrade
<1>2. s.major = t.major /\ s.minor <= t.minor /\ s.patch <= t.patch
  BY <1>1 DEF isDowngrade, isMajorUpgrade
<1>3. s.minor < t.minor \/ s.patch < t.patch \/ s.revision < t.revision
  BY DEF IsValid, isMinorUpgrade, isPatchUpgrade, isRevisionUpgrade
<1>4. CASE s.minor < t.minor
  BY <1>2, <1>4 DEF Less
<1>5. CASE s.minor = t.minor /\ s.patch < t.patch
  BY <1>2, <1>5 DEF Less
<1>6. CASE s.minor = t.minor /\ s.patch = t.patch
  BY <1>2, <1>3, <1>6 DEF Less
<1>7. QED
  BY <1>2, <1>4, <1>5, <1>6

\* The strategy of a valid upgrade recreates volumes when the upgrade crosses
\* 4.2, where the storage format changed.
LEMMA StrategyIsRight ==
    ASSUME NEW s \in Version, NEW t \in Version, IsValid(s, t)
    PROVE  RecreatePersistentVolumeClaims(s, t) <=> Less(s, V42) /\ ~Less(t, V42)
<1>1. s.major = t.major
  BY ValidIsForward
<1>2. ASSUME NEW v \in Version, v.major = 4 PROVE Less(v, V42) <=> v.minor <= 1
  BY <1>2 DEF Less, V42, Version
<1>3. CASE t.major = 4
  <2>1. t.minor >= 2 <=> ~(t.minor <= 1)
    BY DEF Version
  <2>2. QED
    BY <1>1, <1>2, <1>3, <2>1 DEF RecreatePersistentVolumeClaims
<1>4. CASE t.major # 4
  BY <1>1, <1>4 DEF RecreatePersistentVolumeClaims, Less, V42, Version
<1>5. QED
  BY <1>3, <1>4

\* The digits of versions make a number.
LEMMA BackupNameType ==
    ASSUME NEW s \in Version, NEW t \in Version
    PROVE  GetBackupName(s, t) \in Nat \X Nat
<1>1. \A a, b \in Nat : Append10(a, b) \in Nat
  BY DEF Append10
<1>2. \A v \in Version : WithoutDots(v) \in Nat
  BY <1>1 DEF WithoutDots, Version
<1>3. QED
  BY <1>2 DEF GetBackupName

\* A cluster is only ever at a supported version.
THEOREM AlwaysSupported == Spec => []TypeOK
<1>1. Init => TypeOK
  BY DEF Init, TypeOK
<1>2. TypeOK /\ [Next]_vars => TypeOK'
  <2>1. ASSUME TypeOK, NEW v \in SupportedVersions \cup OtherVersions, ChangeVersion(v)
        PROVE  TypeOK'
    <3>1. version' \in SupportedVersions /\ version' = v
      BY <2>1 DEF ChangeVersion, IsValid, IsSupported
    <3>2. GetBackupName(version, v) \in Nat \X Nat
      BY <2>1, <3>1, VersioningAssumption, BackupNameType DEF TypeOK
    <3>3. QED
      BY <2>1, <3>1, <3>2 DEF ChangeVersion, TypeOK
  <2>2. TypeOK /\ UNCHANGED vars => TypeOK'
    BY DEF TypeOK, vars
  <2>3. QED
    BY <2>1, <2>2 DEF Next
<1>3. QED
  BY <1>1, <1>2, PTL DEF Spec

\* The webhook never lets a cluster go back to an earlier version.
THEOREM ForwardsOnly == Spec => NeverBackwards
<1>1. TypeOK /\ [Next]_vars => [Less(version, version')]_vars
  <2>1. ASSUME TypeOK, NEW v \in SupportedVersions \cup OtherVersions, ChangeVersion(v)
        PROVE  Less(version, version')
    BY <2>1, VersioningAssumption, ValidIsForward DEF TypeOK, ChangeVersion
  <2>2. QED
    BY <2>1 DEF Next
<1>2. QED
  BY <1>1, AlwaysSupported, PTL DEF Spec, NeverBackwards

\* Volumes are recreated by the upgrades that cross 4.2 and by no other.
THEOREM VolumesRecreatedAcross42 == Spec => RecreatesAcross42
<1>1. TypeOK /\ [Next]_vars
      => [RecreatePersistentVolumeClaims(version, version')
          <=> Less(version, V42) /\ ~Less(version', V42)]_vars
  <2>1. ASSUME TypeOK, NEW v \in SupportedVersions \cup OtherVersions, ChangeVersion(v)
        PROVE  RecreatePersistentVolumeClaims(version, version')
               <=> Less(version, V42) /\ ~Less(version', V42)
    BY <2>1, VersioningAssumption, StrategyIsRight DEF TypeOK, ChangeVersion
  <2>2. QED
    BY <2>1 DEF Next
<1>2. QED
  BY <1>1, AlwaysSupported, PTL DEF Spec, RecreatesAcross42

(***************************************************************************)
(* Names of backups.  Without its dots a version may be confused with      *)
(* another one: 4.1.12.3 with 4.11.2.3.  The versions the operator         *)
(* supports have single digits, but for the revision.                      *)
(***************************************************************************)

ShortVersions ==
    \A v \in SupportedVersions :
        v.major \in 1 .. 9 /\ v.minor < 10 /\ v.patch < 10 /\ v.revision < 100

Digit == 0 .. 9
FirstDigit == 1 .. 9
ThreeDigits == 100 .. 999
TwoDigits == 0 .. 99

\* The digits of major, minor and patch number.
Release(v) == Append10(Append10(v.major, v.minor), v.patch)

\* The digits of a release can be told apart from those of a revision.
LEMMA RevisionDigits ==
    ASSUME NEW a \in ThreeDigits, NEW b \in ThreeDigits,
           NEW q \in TwoDigits, NEW r \in TwoDigits,
           Append10(a, q) = Append10(b, r)
    PROVE  a = b /\ q = r
<1> USE DEF ThreeDigits, TwoDigits, Append10
<1>1. CASE q < 10 /\ r < 10
  BY <1>1
<1>2. CASE q >= 10 /\ r >= 10
  BY <1>2
<1>3. CASE q < 10 /\ r >= 10
  BY <1>3
<1>4. CASE q >= 10 /\ r < 10
  BY <1>4
<1>5. QED
  BY <1>1, <1>2, <1>3, <1>4

\* So can those of two releases.
LEMMA ReleaseDigits ==
    /\ \A a \in FirstDigit, b, c \in Digit : Append10(Append10(a, b), c) \in ThreeDigits
    /\ \A a, i \in FirstDigit, b, c, j, k \in Digit :
           Append10(Append10(i, j), k) = Append10(Append10(a, b), c)
           => i = a /\ j = b /\ k = c
BY DEF Append10, Digit, FirstDigit, ThreeDigits

\* Short versions can be told apart without their dots.
LEMMA DotsAreRedundant ==
    ASSUME ShortVersions, NEW v \in SupportedVersions, NEW w \in SupportedVersions,
           WithoutDots(v) = WithoutDots(w)
    PROVE  v = w
<1>1. ASSUME NEW u \in SupportedVersions
      PROVE  /\ u \in Version
             /\ u.major \in FirstDigit /\ u.minor \in Digit /\ u.patch \in Digit
             /\ u.revision \in TwoDigits
  BY VersioningAssumption DEF ShortVersions, Version, FirstDigit, Digit, TwoDigits
<1>2. Release(v) \in ThreeDigits /\ Release(w) \in ThreeDigits
  BY <1>1, ReleaseDigits DEF Release
<1>3. Append10(Release(v), v.revision) = Append10(Release(w), w.revision)
  BY DEF WithoutDots, Release
<1>4. Release(v) = Release(w) /\ v.revision = w.revision
  BY <1>1, <1>2, <1>3, RevisionDigits
<1>5. v.major = w.major /\ v.minor = w.minor /\ v.patch = w.patch
  BY <1>1, <1>4, ReleaseDigits DEF Release
<1>6. v \in Version /\ w \in Version
  BY <1>1
<1>7. QED
  BY <1>4, <1>5, <1>6 DEF Version

\* The order of versions is a strict order.
LEMMA LessOrders ==
    ASSUME NEW u \in Version, NEW v \in Version, NEW w \in Version
    PROVE  /\ ~Less(u, u)
           /\ Less(u, v) /\ Less(v, w) => Less(u, w)
BY DEF Less, Version

\* Every backup so far was made of an earlier version.
EarlierInv ==
    \A i \in 1 .. Len(names) :
        \E s \in SupportedVersions : names[i][1] = WithoutDots(s) /\ Less(s, version)

\* A cluster never needs the name of a backup twice, whatever upgrades it goes
\* through, as long as versions are short.
THEOREM NamesStayUnique ==
    ASSUME ShortVersions
    PROVE  Spec => []NamesAreUnique
<1> DEFINE Inv == EarlierInv /\ NamesAreUnique
<1>1. Init => Inv
  BY DEF Init, EarlierInv, NamesAreUnique
<1>2. TypeOK /\ Inv /\ [Next]_vars => Inv'
  <2>1. ASSUME TypeOK, Inv, NEW v \in SupportedVersions \cup OtherVersions, ChangeVersion(v)
        PROVE  Inv'
    <3> DEFINE n == Len(names) + 1
               name == GetBackupName(version, v)
    <3>1. /\ version \in SupportedVersions /\ version \in Version
          /\ v \in SupportedVersions /\ v \in Version /\ Less(version, v)
      BY <2>1, VersioningAssumption, ValidIsForward
         DEF TypeOK, ChangeVersion, IsValid, IsSupported
    <3>2. /\ name \in Nat \X Nat /\ name[1] = WithoutDots(version)
      BY <3>1, BackupNameType DEF GetBackupName
    <3>3. /\ names \in Seq(Nat \X Nat) /\ names' = Append(names, name) /\ version' = v
      BY <2>1 DEF TypeOK, ChangeVersion
    <3> HIDE DEF name
    <3>4. /\ Len(names') = n /\ names'[n] = name /\ n \in Nat
          /\ \A i \in 1 .. Len(names) : names'[i] = names[i]
          /\ \A i \in 1 .. n : i \in 1 .. Len(names) \/ i = n
      BY <3>2, <3>3
    <3>5. ASSUME NEW i \in 1 .. Len(names)
          PROVE  /\ \E s \in SupportedVersions : names[i][1] = WithoutDots(s) /\ Less(s, v)
                 /\ names[i] # name
      <4>1. PICK s \in SupportedVersions : names[i][1] = WithoutDots(s) /\ Less(s, version)
        BY <2>1 DEF EarlierInv
      <4>2. s \in Version
        BY VersioningAssumption
      <4>3. Less(s, v)
        BY <3>1, <4>1, <4>2, LessOrders
      <4>4. s # version
        BY <3>1, <4>1, LessOrders
      <4>5. names[i][1] # name[1]
        BY <3>1, <3>2, <4>1, <4>4, DotsAreRedundant
      <4>6. QED
        BY <4>1, <4>3, <4>5
    <3>6. EarlierInv'
      <4>1. ASSUME NEW i \in 1 .. n
            PROVE  \E s \in SupportedVersions : names'[i][1] = WithoutDots(s) /\ Less(s, v)
        BY <3>1, <3>2, <3>4, <3>5
      <4>2. QED
        BY <3>3, <3>4, <4>1 DEF EarlierInv
    <3>7. NamesAreUnique'
      <4>1. ASSUME NEW i \in 1 .. n, NEW j \in 1 .. n, names'[i] = names'[j]
            PROVE  i = j
        BY <2>1, <3>4, <3>5, <4>1 DEF NamesAreUnique
      <4>2. QED
        BY <3>4, <4>1 DEF NamesAreUnique
    <3>8. QED
      BY <3>6, <3>7
  <2>2. Inv /\ UNCHANGED vars => Inv'
    BY DEF EarlierInv, NamesAreUnique, vars
  <2>3. QED
    BY <2>1, <2>2 DEF Next
<1>3. QED
  BY <1>1, <1>2, AlwaysSupported, PTL DEF Spec
=============================================================================
