-------------------------- MODULE SnapshotsProofs --------------------------
(***************************************************************************)
(* Proofs about Snapshots, for any packages, any finite set of ids, any     *)
(* number kept, and any number of operations, failures and stops.           *)
(***************************************************************************)
EXTENDS Snapshots, FiniteSetTheorems, WellFoundedInduction, TLAPS

Rolling == {"read", "load", "verify", "plan", "remove", "install", "recover"}

(* Retention and LatestKept: what is left when the pruning is through makes *)
(* room for one more, and nothing is the latest while it prunes.            *)
StoreInv ==
  /\ at # "prune" => old = {}
  /\ at = "prune" => Cardinality(Stored \ old) < MaxSnapshots + missed
  /\ Retention
  /\ at \in {"space", "prune"} => latest = None
  /\ LatestKept

(* dpkg's database, what is captured of it, and so every plan, hold one     *)
(* version of a package.                                                    *)
PackageInv ==
  /\ Distinct(Known) /\ Distinct(data)
  /\ \A n \in Names : Distinct(listing[n])

(* What the three readings of a file and the plan made from it have in      *)
(* common with what was installed when the snapshot was taken.              *)
BookInv ==
  /\ Stored \subseteq used /\ caught \subseteq used
  /\ \A n \in caught : disk[n] = "whole" => listing[n] = taken[n]
  /\ at = "prune" => target \in used /\ (target \in caught => data = taken[target])
  /\ at \in Rolling => target \in used
  /\ at = "verify" /\ disk[target] = "whole" => data = listing[target]
  /\ at \in {"plan", "remove", "install"} /\ target \in caught => data = taken[target]

PlanInv ==
  /\ at \in {"remove", "install"} => in \subseteq data
  /\ at = "remove" => out \cap NameOf(data) = {}
  /\ sharp /\ at \in {"remove", "install"} => data \ in \subseteq installed
  /\ sharp /\ at = "remove"  => NameOf(installed) \subseteq NameOf(data) \cup out
  /\ sharp /\ at = "install" => NameOf(installed) \subseteq NameOf(data)

ResultInv ==
  /\ result # "none" => at = "idle"
  /\ RestoresSnapshot

(* What was installed when the rollback began, while nothing has failed: it *)
(* is there until the removal, and from then on it or the list to bring     *)
(* back is; that list names nothing that was not there.                     *)
PresentInv ==
  /\ at \in {"space", "prune", "apt"} => present = {}
  /\ present # {} =>
       /\ at \in {"read", "load", "verify", "plan", "remove"} => present = NameOf(installed)
       /\ at \in {"install", "recover"} => present \subseteq NameOf(installed) \cup out
       /\ at \in {"remove", "install", "recover"} => out \subseteq present \cup NameOf(residue)
  /\ FailureKeepsDrivers

IInv == TypeOK /\ StoreInv /\ PackageInv /\ BookInv /\ PlanInv /\ ResultInv /\ PresentInv

-----------------------------------------------------------------------------
(* Facts about finite sets of numbers, and about packages.                  *)

LEMMA Least == ASSUME NEW T \in SUBSET Nat, T # {}
               PROVE  \E x \in T : \A y \in T : x <= y
<1> DEFINE R == {ss \in Nat \X Nat : ss[1] < ss[2]}
<1>1. IsWellFoundedOn(R, Nat)
  BY NatLessThanWellFounded, Zenon DEF OpToRel
<1>2. \A x, y \in Nat : y < x => <<y, x>> \in R
  OBVIOUS
<1> HIDE DEF R
<1>3. PICK x \in T : \A y \in T : ~(<<y, x>> \in R)
  BY <1>1, WFMin
<1>4. \A y \in T : ~(y < x)
  BY <1>2, <1>3
<1> QED
  BY <1>4

LEMMA StoredFinite == ASSUME NEW S, S \subseteq Names
                      PROVE  IsFiniteSet(S) /\ Cardinality(S) \in Nat
BY FS_Subset, FS_CardinalityType, SnapshotConstants

LEMMA Smaller == ASSUME NEW S, NEW T, T \subseteq Names, S \subseteq T
                 PROVE  Cardinality(S) <= Cardinality(T)
BY StoredFinite, FS_Subset

(* What TooMany leaves is fewer than MaxSnapshots: the oldest of the rest   *)
(* has all of the rest at or above it.                                      *)
LEMMA RestIsFew == Cardinality(Stored \ TooMany) < MaxSnapshots
<1> DEFINE Above(o) == {m \in Stored : m >= o}
           Rest == Stored \ TooMany
<1>1. \A o \in Rest : Cardinality(Above(o)) < MaxSnapshots
  <2> SUFFICES ASSUME NEW o \in Rest PROVE Cardinality(Above(o)) < MaxSnapshots
    OBVIOUS
  <2>1. Above(o) \subseteq Names
    BY DEF Stored
  <2>2. Cardinality(Above(o)) \in Nat
    BY <2>1, StoredFinite
  <2> QED
    BY <2>2, SnapshotConstants DEF TooMany
<1>2. CASE Rest = {}
  BY <1>2, FS_EmptySet, SnapshotConstants
<1>3. CASE Rest # {}
  <2>1. Rest \subseteq Nat /\ Stored \subseteq Names
    BY SnapshotConstants DEF Stored
  <2>2. PICK o \in Rest : \A m \in Rest : o <= m
    BY <2>1, <1>3, Least
  <2>3. Rest \subseteq Above(o)
    BY <2>1, <2>2
  <2>4. Above(o) \subseteq Names
    BY <2>1
  <2>5. Cardinality(Rest) <= Cardinality(Above(o))
    BY <2>3, <2>4, Smaller
  <2>6. Cardinality(Rest) \in Nat /\ Cardinality(Above(o)) \in Nat
    BY <2>1, <2>4, StoredFinite
  <2> QED
    BY <2>5, <2>6, <1>1, SnapshotConstants
<1> QED
  BY <1>2, <1>3

(* Sets of packages with one version of each stay such when one replaces    *)
(* what it names in the other.                                              *)
LEMMA DistinctParts == ASSUME NEW S, NEW T, S \subseteq T, Distinct(T)
                       PROVE  Distinct(S)
BY DEF Distinct

LEMMA DistinctReplace ==
  ASSUME NEW S, NEW T, Distinct(S), Distinct(T)
  PROVE  Distinct({p \in T : p[1] \notin NameOf(S)} \cup S)
BY DEF Distinct, NameOf
-----------------------------------------------------------------------------
(* Types.                                                                   *)

LEMMA KnownTyped == ASSUME TypeOK PROVE Known \subseteq Builds /\ TooMany \subseteq Names /\ Stored \subseteq Names
BY DEF TypeOK, SystemTypes, Known, TooMany, Stored

LEMMA FaultTyped == ASSUME TypeOK, Fault \/ Well
                    PROVE  faults' \in Nat /\ present' \subseteq NameOf(Builds)
BY SnapshotConstants DEF TypeOK, NoteTypes, Fault, Well

LEMMA EndTyped == ASSUME TypeOK, NEW r \in {"none", "success", "failed"}, Ends(r)
                  PROVE  at' = "idle" /\ old' = {} /\ out' = {} /\ in' = {} /\ result' = r
BY DEF Ends

LEMMA RemoveTyped == ASSUME TypeOK, NEW P, AfterRemove(P)
                     PROVE  installed' \subseteq Builds /\ residue' \subseteq Builds
BY DEF TypeOK, SystemTypes, AfterRemove

LEMMA InstallTyped == ASSUME TypeOK, NEW S, S \subseteq Builds, AfterInstall(S)
                      PROVE  installed' \subseteq Builds /\ residue' \subseteq Builds
BY DEF TypeOK, SystemTypes, AfterInstall

LEMMA InitTyped == Init => TypeOK
<1> SUFFICES ASSUME Init PROVE TypeOK
  OBVIOUS
<1>1. SystemTypes
  BY DEF Init, SystemTypes
<1>2. FileTypes /\ WorkerTypes
  BY DEF Init, FileTypes, WorkerTypes
<1>3. NoteTypes
  BY DEF Init, NoteTypes
<1> QED
  BY <1>1, <1>2, <1>3 DEF TypeOK

LEMMA InstallStepsTyped ==
  ASSUME TypeOK, Install \/ NoSpace \/ CaptureKnown \/ CaptureFails
  PROVE  TypeOK'
<1> USE KnownTyped, FaultTyped DEF TypeOK
<1>1. CASE Install
  BY <1>1, SnapshotConstants DEF SystemTypes, FileTypes, WorkerTypes, NoteTypes, Install, system, files
<1>2. CASE NoSpace
  BY <1>2 DEF SystemTypes, FileTypes, WorkerTypes, NoteTypes, NoSpace, system, files, notes
<1>3. CASE \E n \in Names, answer \in {Known, {}} : Capture(n, answer) /\ (Fault \/ Well)
  <2>1. PICK n \in Names, answer \in {Known, {}} : Capture(n, answer) /\ (Fault \/ Well)
    BY <1>3
  <2>2. SystemTypes' /\ FileTypes'
    BY <2>1 DEF SystemTypes, FileTypes, Capture, system, files
  <2>3. WorkerTypes'
    BY <2>1, SnapshotConstants DEF WorkerTypes, Capture, None
  <2>4. NoteTypes'
    BY <2>1 DEF SystemTypes, NoteTypes, Capture
  <2> QED
    BY <2>2, <2>3, <2>4
<1> QED
  BY <1>1, <1>2, <1>3 DEF CaptureKnown, CaptureFails

LEMMA PruneTyped == ASSUME TypeOK, NEW o \in Names, Prune(o) PROVE TypeOK'
<1> USE FaultTyped DEF TypeOK
<1>1. SystemTypes' /\ FileTypes'
  BY DEF SystemTypes, FileTypes, Prune, system
<1>2. WorkerTypes'
  BY DEF WorkerTypes, Prune
<1>3. NoteTypes'
  BY DEF NoteTypes, Prune
<1> QED
  BY <1>1, <1>2, <1>3

LEMMA WriteTyped == ASSUME TypeOK, Write PROVE TypeOK'
<1> USE FaultTyped DEF TypeOK
<1>1. SystemTypes' /\ FileTypes'
  BY DEF SystemTypes, FileTypes, WorkerTypes, Write, system, files
<1>2. WorkerTypes' /\ NoteTypes'
  BY DEF WorkerTypes, NoteTypes, Write
<1> QED
  BY <1>1, <1>2

LEMMA TransactTyped == ASSUME TypeOK, NEW p \in Builds, Transact(p) PROVE TypeOK'
<1> USE FaultTyped, RemoveTyped DEF TypeOK
<1>1. SystemTypes'
  BY DEF SystemTypes, Transact, system
<1>2. FileTypes' /\ WorkerTypes' /\ NoteTypes'
  BY DEF FileTypes, WorkerTypes, NoteTypes, Transact, files, notes
<1> QED
  BY <1>1, <1>2

LEMMA RollbackTyped == ASSUME TypeOK, NEW n \in Names, Rollback(n) PROVE TypeOK'
<1> USE DEF TypeOK
<1>1. SystemTypes' /\ FileTypes'
  BY DEF SystemTypes, FileTypes, Rollback, system, files
<1>2. WorkerTypes'
  BY SnapshotConstants DEF WorkerTypes, Rollback, None
<1>3. NoteTypes'
  BY SnapshotConstants DEF NoteTypes, SystemTypes, NameOf, Rollback, notes
<1> QED
  BY <1>1, <1>2, <1>3

LEMMA ReadTyped == ASSUME TypeOK, Read \/ VerifyIntegrity PROVE TypeOK'
<1> USE EndTyped DEF TypeOK
<1>1. SystemTypes' /\ FileTypes' /\ NoteTypes'
  BY DEF SystemTypes, FileTypes, NoteTypes, Read, VerifyIntegrity, system, files, notes, bounds
<1>2. CASE Read
  <2>1. listing[target] \subseteq Builds
    BY <1>2 DEF FileTypes, WorkerTypes, Read
  <2> QED
    BY <1>1, <1>2, <2>1 DEF WorkerTypes, Read
<1>3. CASE VerifyIntegrity
  BY <1>1, <1>3 DEF WorkerTypes, VerifyIntegrity
<1> QED
  BY <1>2, <1>3

LEMMA PlanTyped == ASSUME TypeOK, NEW current, current \subseteq Builds, Plan(current), Fault \/ Well PROVE TypeOK'
<1> USE EndTyped, FaultTyped DEF TypeOK
<1>1. SystemTypes' /\ FileTypes' /\ NoteTypes'
  BY DEF SystemTypes, FileTypes, NoteTypes, Plan, system, files
<1>2. WorkerTypes'
  BY DEF WorkerTypes, Plan, Extra, NameOf
<1> QED
  BY <1>1, <1>2

LEMMA RestoreTyped == ASSUME TypeOK, RemoveExtra \/ InstallSnapshot \/ Recover PROVE TypeOK'
<1> USE EndTyped, FaultTyped, RemoveTyped DEF TypeOK
<1>1. SystemTypes'
  <2>1. CASE RemoveExtra
    BY <2>1 DEF SystemTypes, RemoveExtra
  <2>2. CASE InstallSnapshot
    BY <2>2, InstallTyped DEF SystemTypes, WorkerTypes, InstallSnapshot, system
  <2>3. CASE Recover
    BY <2>3, InstallTyped DEF SystemTypes, Recover, system
  <2> QED
    BY <2>1, <2>2, <2>3
<1>2. FileTypes' /\ NoteTypes'
  BY DEF FileTypes, NoteTypes, RemoveExtra, InstallSnapshot, Recover, files, notes
<1>3. WorkerTypes'
  BY DEF WorkerTypes, RemoveExtra, InstallSnapshot, InstallFails, Recover
<1> QED
  BY <1>1, <1>2, <1>3

LEMMA OthersTyped ==
  ASSUME TypeOK, NEW n \in Names, DeleteSnapshot(n) \/ Damage(n)
  PROVE  TypeOK'
<1> USE FaultTyped DEF TypeOK
<1>1. SystemTypes' /\ WorkerTypes'
  BY DEF SystemTypes, WorkerTypes, DeleteSnapshot, Damage, system, worker
<1>2. FileTypes'
  BY DEF FileTypes, DeleteSnapshot, Damage, files
<1>3. NoteTypes'
  BY DEF NoteTypes, DeleteSnapshot, Damage, bounds, notes
<1> QED
  BY <1>1, <1>2, <1>3

LEMMA WorldTyped == ASSUME TypeOK, (\E p \in Builds : Withdraw(p)) \/ Stop PROVE TypeOK'
<1> USE FaultTyped, EndTyped DEF TypeOK
<1>1. SystemTypes' /\ FileTypes' /\ WorkerTypes'
  BY DEF SystemTypes, FileTypes, WorkerTypes, Withdraw, Stop, system, files, worker
<1>2. CASE Stop
  <2>1. Cardinality(old \cap Stored) \in Nat
    BY StoredFinite DEF Stored
  <2> QED
    BY <2>1, <1>1, <1>2 DEF NoteTypes, Stop
<1>3. CASE \E p \in Builds : Withdraw(p)
  BY <1>1, <1>3, SnapshotConstants DEF NoteTypes, Withdraw, notes
<1> QED
  BY <1>2, <1>3

LEMMA StepTyped == TypeOK /\ [Next]_vars => TypeOK'
<1> SUFFICES ASSUME TypeOK, [Next]_vars PROVE TypeOK'
  OBVIOUS
<1>1. CASE UNCHANGED vars
  BY <1>1 DEF TypeOK, SystemTypes, FileTypes, WorkerTypes, NoteTypes, vars, system, files, worker, bounds, notes
<1>2. CASE PlanKnown \/ PlanBlind
  BY <1>2, PlanTyped, KnownTyped DEF PlanKnown, PlanBlind
<1> QED
  BY <1>1, <1>2, InstallStepsTyped, PruneTyped, WriteTyped, TransactTyped, RollbackTyped, ReadTyped, RestoreTyped,
     OthersTyped, WorldTyped DEF Next

(* Every variable keeps its type.                                           *)
THEOREM TypeCorrect == Spec => []TypeOK
BY InitTyped, StepTyped, PTL DEF Spec
-----------------------------------------------------------------------------
(* The store.                                                               *)

LEMMA SplitStore == ASSUME NEW S, NEW T, S \subseteq Names, T \subseteq Names
                    PROVE  Cardinality(S) <= Cardinality(S \ T) + Cardinality(S \cap T)
<1>1. IsFiniteSet(S \ T) /\ IsFiniteSet(S \cap T)
  BY StoredFinite
<1>2. (S \ T) \cup (S \cap T) = S /\ (S \ T) \cap (S \cap T) = {}
  OBVIOUS
<1> QED
  BY <1>1, <1>2, FS_Union, FS_EmptySet, StoredFinite

(* Retention follows from what is left to prune.                            *)
LEMMA FewEnough ==
  ASSUME NEW S, NEW T, S \subseteq Names, T \subseteq Names, NEW k \in Nat,
         Cardinality(S \ T) < MaxSnapshots + k
  PROVE  Cardinality(S) <= MaxSnapshots + k + Cardinality(T)
<1>1. Cardinality(S) <= Cardinality(S \ T) + Cardinality(S \cap T)
  BY SplitStore
<1>2. Cardinality(S \cap T) <= Cardinality(T)
  BY Smaller
<1>3. /\ Cardinality(S) \in Nat /\ Cardinality(S \ T) \in Nat
      /\ Cardinality(S \cap T) \in Nat /\ Cardinality(T) \in Nat
  BY StoredFinite
<1> QED
  BY <1>1, <1>2, <1>3, SnapshotConstants

LEMMA InstallKeepsStore ==
  ASSUME TypeOK, StoreInv, Install \/ NoSpace
  PROVE  StoreInv'
BY DEF StoreInv, Retention, LatestKept, Stored, Install, NoSpace, files, notes

LEMMA CaptureKeepsStore ==
  ASSUME TypeOK, StoreInv, NEW n \in Names, NEW answer, Capture(n, answer)
  PROVE  StoreInv'
<1>1. Stored' = Stored /\ old' = TooMany /\ missed' = 0 /\ at' = "prune" /\ latest' = None
  BY DEF Capture, Stored, files, StoreInv
<1>2. Cardinality(Stored' \ old') < MaxSnapshots + missed'
  BY <1>1, RestIsFew, SnapshotConstants
<1>3. Retention'
  BY <1>1, <1>2, FewEnough, KnownTyped DEF Retention
<1> QED
  BY <1>1, <1>2, <1>3 DEF StoreInv, LatestKept

LEMMA PruneKeepsStore ==
  ASSUME TypeOK, StoreInv, TypeOK', NEW o \in Names, Prune(o)
  PROVE  StoreInv'
<1> DEFINE S == Stored \ old
           T == Stored' \ old'
<1>1. S \subseteq Names /\ T \subseteq Names /\ old' \subseteq Names /\ Stored' \subseteq Names
  BY DEF Stored, TypeOK, WorkerTypes
<1>2. missed \in Nat /\ missed' \in Nat
  BY DEF TypeOK, NoteTypes
<1>3. Cardinality(S) \in Nat /\ Cardinality(T) \in Nat
  BY <1>1, StoredFinite
<1>4. Cardinality(T) < MaxSnapshots + missed'
  <2>1. CASE disk' = [disk EXCEPT ![o] = "absent"] /\ UNCHANGED missed
    <3>1. T \subseteq S
      BY <2>1 DEF Stored, Prune, TypeOK, FileTypes
    <3>2. Cardinality(T) <= Cardinality(S)
      BY <1>1, <3>1, Smaller
    <3>3. Cardinality(S) < MaxSnapshots + missed
      BY DEF StoreInv, Prune
    <3> HIDE DEF S, T
    <3> QED
      BY <1>2, <1>3, <2>1, <3>2, <3>3, SnapshotConstants
  <2>2. CASE missed' = missed + 1 /\ UNCHANGED disk
    <3>1. T \subseteq S \cup {o}
      BY <2>2 DEF Stored, Prune
    <3>2. Cardinality(S \cup {o}) <= Cardinality(S) + 1
      BY <1>1, <1>3, FS_AddElement, StoredFinite
    <3>3. Cardinality(T) <= Cardinality(S \cup {o}) /\ Cardinality(S \cup {o}) \in Nat
      BY <1>1, <3>1, Smaller, StoredFinite
    <3>4. Cardinality(S) < MaxSnapshots + missed
      BY DEF StoreInv, Prune
    <3> HIDE DEF S, T
    <3> QED
      BY <1>2, <1>3, <2>2, <3>2, <3>3, <3>4, SnapshotConstants
  <2> QED
    BY <2>1, <2>2 DEF Prune
<1>5. Retention'
  BY <1>1, <1>2, <1>4, FewEnough DEF Retention
<1>6. latest' = None /\ at' = "prune"
  BY DEF Prune, StoreInv
<1> QED
  BY <1>4, <1>5, <1>6 DEF StoreInv, LatestKept

LEMMA WriteKeepsStore ==
  ASSUME TypeOK, StoreInv, TypeOK', Write
  PROVE  StoreInv'
<1>1. Stored' \subseteq Stored \cup {target}
  BY DEF Write, Stored, TypeOK, FileTypes, files
<1>2. old = {} /\ old' = {} /\ missed' = missed /\ at' = "apt"
  BY DEF Write
<1>3. Stored \subseteq Names /\ target \in Names
  BY DEF Write, Stored, TypeOK, WorkerTypes
<1>4. Cardinality(Stored') <= Cardinality(Stored \cup {target})
  BY <1>1, <1>3, Smaller
<1>5. Cardinality(Stored \cup {target}) <= Cardinality(Stored) + 1
  BY <1>3, FS_AddElement, StoredFinite
<1>6. /\ Cardinality(Stored) \in Nat /\ Cardinality(Stored \cup {target}) \in Nat
      /\ Cardinality(Stored') \in Nat /\ missed \in Nat
  BY <1>1, <1>3, StoredFinite DEF TypeOK, NoteTypes
<1>7. Cardinality(Stored) < MaxSnapshots + missed
  <2>1. Stored \ old = Stored
    BY <1>2
  <2> QED
    BY <2>1 DEF StoreInv, Write
<1>8. Cardinality(old') = 0
  BY <1>2, FS_EmptySet
<1>9. Retention'
  <2>1. Cardinality(Stored') <= MaxSnapshots + missed
    BY <1>4, <1>5, <1>6, <1>7, SnapshotConstants
  <2> QED
    BY <1>2, <1>6, <1>8, <2>1, SnapshotConstants DEF Retention
<1>10. LatestKept'
  BY <1>3 DEF LatestKept, StoreInv, Write, TypeOK, FileTypes, files
<1> QED
  BY <1>2, <1>9, <1>10 DEF StoreInv

(* The steps that write no file.                                            *)
LEMMA OthersKeepStore ==
  ASSUME TypeOK, StoreInv, at # "prune", at' \notin {"space", "prune"}, old' = {},
         UNCHANGED <<disk, missed, latest>>
  PROVE  StoreInv'
BY DEF StoreInv, Retention, LatestKept, Stored

LEMMA DeleteKeepsStore ==
  ASSUME TypeOK, StoreInv, NEW n \in Names, DeleteSnapshot(n)
  PROVE  StoreInv'
<1>1. Stored' \subseteq Stored /\ old' = old /\ missed' = missed /\ at' = at
  BY DEF DeleteSnapshot, Stored, TypeOK, FileTypes, worker
<1>2. Stored \subseteq Names /\ Stored \ old \subseteq Names /\ Stored' \ old' \subseteq Stored \ old
  BY <1>1 DEF Stored
<1>3. Cardinality(Stored') <= Cardinality(Stored) /\ Cardinality(Stored' \ old') <= Cardinality(Stored \ old)
  BY <1>1, <1>2, Smaller
<1>4. /\ Cardinality(Stored') \in Nat /\ Cardinality(Stored) \in Nat /\ missed \in Nat
      /\ Cardinality(Stored' \ old') \in Nat /\ Cardinality(Stored \ old) \in Nat
      /\ Cardinality(old) \in Nat
  BY <1>1, <1>2, StoredFinite DEF TypeOK, WorkerTypes, NoteTypes
<1>5. LatestKept'
  BY DEF StoreInv, LatestKept, DeleteSnapshot, TypeOK, FileTypes, NoteTypes
<1>6. Retention'
  BY <1>1, <1>3, <1>4, SnapshotConstants DEF StoreInv, Retention
<1>7. at' \in {"space", "prune"} => latest' = None
  BY <1>1 DEF StoreInv, DeleteSnapshot
<1>8. at' = "prune" => Cardinality(Stored' \ old') < MaxSnapshots + missed'
  BY <1>1, <1>3, <1>4, SnapshotConstants DEF StoreInv
<1> QED
  BY <1>1, <1>5, <1>6, <1>7, <1>8 DEF StoreInv

LEMMA DamageKeepsStore ==
  ASSUME TypeOK, StoreInv, NEW n \in Names, Damage(n)
  PROVE  StoreInv'
<1>1. Stored' = Stored
  BY DEF Damage, Stored, TypeOK, FileTypes
<1>2. latest' # None => disk'[latest'] # "absent"
  BY DEF Damage, StoreInv, LatestKept, TypeOK, FileTypes, NoteTypes, notes
<1> QED
  BY <1>1, <1>2 DEF Damage, StoreInv, Retention, LatestKept, worker, notes

LEMMA StopKeepsStore ==
  ASSUME TypeOK, StoreInv, Stop
  PROVE  StoreInv'
<1>1. Stored' = Stored /\ old' = {} /\ at' = "idle" /\ missed' = missed + Cardinality(old \cap Stored)
  BY DEF Stop, Ends, Stored, files
<1>2. Stored \subseteq Names /\ old \subseteq Names
  BY DEF Stored, TypeOK, WorkerTypes
<1>3. Cardinality(Stored) <= Cardinality(Stored \ old) + Cardinality(old \cap Stored)
  <2>1. Stored \cap old = old \cap Stored
    OBVIOUS
  <2> QED
    BY <1>2, <2>1, SplitStore
<1>4. /\ Cardinality(Stored) \in Nat /\ Cardinality(Stored \ old) \in Nat
      /\ Cardinality(old \cap Stored) \in Nat /\ missed \in Nat
  BY <1>2, StoredFinite DEF TypeOK, NoteTypes
<1>5. Cardinality(old') = 0
  BY <1>1, FS_EmptySet
<1>6. Cardinality(Stored) <= MaxSnapshots + missed + Cardinality(old \cap Stored)
  <2>1. CASE at = "prune"
    BY <1>3, <1>4, <2>1, SnapshotConstants DEF StoreInv
  <2>2. CASE at # "prune"
    BY <1>4, <2>2, FS_EmptySet, SnapshotConstants DEF StoreInv, Retention
  <2> QED
    BY <2>1, <2>2
<1>7. Retention'
  BY <1>1, <1>4, <1>5, <1>6, SnapshotConstants DEF Retention
<1>8. LatestKept'
  BY DEF Stop, StoreInv, LatestKept, files
<1> QED
  BY <1>1, <1>7, <1>8 DEF StoreInv

LEMMA StepKeepsStore == TypeOK /\ StoreInv /\ [Next]_vars => StoreInv'
<1> SUFFICES ASSUME TypeOK, StoreInv, [Next]_vars PROVE StoreInv'
  OBVIOUS
<1>0. TypeOK'
  BY StepTyped
<1>1. CASE UNCHANGED vars
  BY <1>1 DEF StoreInv, Retention, LatestKept, Stored, vars, files, worker, notes
<1>2. CASE CaptureKnown \/ CaptureFails
  BY <1>2, CaptureKeepsStore DEF CaptureKnown, CaptureFails
<1>3. CASE \E p \in Builds : Transact(p) \/ Withdraw(p)
  BY <1>3, OthersKeepStore DEF Transact, Withdraw, StoreInv, files, worker, notes
<1>4. CASE \E n \in Names : Rollback(n)
  BY <1>4, OthersKeepStore DEF Rollback, StoreInv, files, notes
<1>6. CASE Read \/ VerifyIntegrity \/ PlanKnown \/ PlanBlind
  BY <1>6, OthersKeepStore DEF Read, VerifyIntegrity, PlanKnown, PlanBlind, Plan, Ends, StoreInv, files, notes
<1>7. CASE RemoveExtra \/ InstallSnapshot \/ Recover
  BY <1>7, OthersKeepStore DEF RemoveExtra, InstallSnapshot, InstallFails, Recover, Ends, StoreInv, files, notes
<1> QED
  BY <1>0, <1>1, <1>2, <1>3, <1>4, <1>6, <1>7, InstallKeepsStore, PruneKeepsStore, WriteKeepsStore,
     DeleteKeepsStore, DamageKeepsStore, StopKeepsStore DEF Next
-----------------------------------------------------------------------------
(* One version of each package.                                             *)

LEMMA RemoveDistinct == ASSUME NEW P, AfterRemove(P) PROVE Known' \subseteq Known
BY DEF AfterRemove, Known

LEMMA InstallDistinct == ASSUME NEW S, Distinct(S), Distinct(Known), AfterInstall(S) PROVE Distinct(Known')
<1>1. Known' = {p \in Known : p[1] \notin NameOf(S)} \cup S
  BY DEF AfterInstall, Known
<1> QED
  BY <1>1, DistinctReplace

LEMMA TransactDistinct == ASSUME PackageInv, NEW p \in Builds, Transact(p) PROVE Distinct(Known')
<1>1. CASE installed' = {p} /\ residue' = {q \in residue \cup installed : q[1] \in Conf \ {p[1]}}
  BY <1>1 DEF PackageInv, Known, Distinct
<1>2. CASE UNCHANGED system
  BY <1>2 DEF PackageInv, Known, system
<1>3. CASE AfterRemove(NameOf(Builds))
  BY <1>3, RemoveDistinct, DistinctParts DEF PackageInv
<1> QED
  BY <1>1, <1>2, <1>3 DEF Transact

LEMMA RestoreDistinct ==
  ASSUME PackageInv, PlanInv, RemoveExtra \/ InstallSnapshot \/ Recover
  PROVE  Distinct(Known')
<1>1. ASSUME NEW P, AfterRemove(P) PROVE Distinct(Known')
  BY <1>1, RemoveDistinct, DistinctParts DEF PackageInv
<1>2. CASE RemoveExtra
  BY <1>1, <1>2 DEF RemoveExtra
<1>3. ASSUME UNCHANGED system PROVE Distinct(Known')
  BY <1>3 DEF PackageInv, Known, system
<1>4. CASE InstallSnapshot
  <2>1. in \subseteq data
    BY <1>4 DEF PlanInv, InstallSnapshot
  <2>2. ASSUME NEW S, S \subseteq in, AfterInstall(S) PROVE Distinct(Known')
    BY <2>1, <2>2, DistinctParts, InstallDistinct DEF PackageInv
  <2> QED
    BY <1>3, <1>4, <2>2 DEF InstallSnapshot
<1>5. CASE Recover
  BY <1>3, <1>5, InstallDistinct DEF Recover, PackageInv
<1> QED
  BY <1>2, <1>4, <1>5

LEMMA SystemKept == ASSUME PackageInv, UNCHANGED system PROVE Distinct(Known')
BY DEF PackageInv, Known, system

LEMMA StepKeepsPackages ==
  ASSUME TypeOK, PackageInv, PlanInv, [Next]_vars
  PROVE  PackageInv'
<1>0. Distinct({})
  BY DEF Distinct
<1>1. Distinct(Known')
  <2>1. CASE UNCHANGED vars
    BY <2>1, SystemKept DEF vars
  <2>2. CASE \E p \in Builds : Transact(p)
    BY <2>2, TransactDistinct
  <2>3. CASE RemoveExtra \/ InstallSnapshot \/ Recover
    BY <2>3, RestoreDistinct
  <2> QED
    BY <2>1, <2>2, <2>3, SystemKept DEF Next, Install, NoSpace, CaptureKnown, CaptureFails, Capture, Write, Prune,
       Withdraw, Rollback, DeleteSnapshot, Damage, Read, VerifyIntegrity, PlanKnown, PlanBlind, Plan, Stop
<1>2. Distinct(data')
  <2>1. data' \in {data, Known, {}} \/ (target \in Names /\ data' = listing[target])
    BY DEF Next, vars, Install, NoSpace, CaptureKnown, CaptureFails, Capture, Write, Prune, Transact, RemoveExtra,
       InstallSnapshot, Recover, Withdraw, Rollback, DeleteSnapshot, Damage, Read, VerifyIntegrity,
       PlanKnown, PlanBlind, Plan, Stop, worker, TypeOK, WorkerTypes
  <2> QED
    BY <1>0, <2>1 DEF PackageInv
<1>3. \A n \in Names : Distinct(listing'[n])
  <2>1. UNCHANGED listing \/ (\E n \in Names, S \in {data, {}} : listing' = [listing EXCEPT ![n] = S])
    BY DEF Next, vars, Install, NoSpace, CaptureKnown, CaptureFails, Capture, Write, Prune, Transact, RemoveExtra,
       InstallSnapshot, Recover, Withdraw, Rollback, DeleteSnapshot, Damage, Read, VerifyIntegrity,
       PlanKnown, PlanBlind, Plan, Stop, files, TypeOK, WorkerTypes
  <2> QED
    BY <1>0, <2>1 DEF PackageInv, TypeOK, FileTypes
<1> QED
  BY <1>1, <1>2, <1>3 DEF PackageInv
-----------------------------------------------------------------------------
(* What the readings of a file have in common.                              *)

LEMMA StepKeepsBook ==
  ASSUME TypeOK, BookInv, [Next]_vars
  PROVE  BookInv'
<1> USE DEF BookInv, Rolling
<1>1. CASE UNCHANGED vars
  BY <1>1 DEF vars, Stored, files, worker, notes
<1>2. CASE Install \/ NoSpace
  BY <1>2 DEF Install, NoSpace, Stored, files, notes
<1>3. ASSUME NEW n \in Names, NEW answer, Capture(n, answer) PROVE BookInv'
  <2>1. disk[n] = "absent"
    BY <1>3 DEF Capture, Stored
  <2> QED
    BY <1>3, <2>1 DEF Capture, Stored, files, TypeOK, NoteTypes
<1>4. ASSUME NEW o \in Names, Prune(o) PROVE BookInv'
  BY <1>4 DEF Prune, Stored, TypeOK, FileTypes, NoteTypes
<1>5. CASE Write
  BY <1>5 DEF Write, Stored, TypeOK, FileTypes, WorkerTypes, NoteTypes, files
<1>6. CASE \E p \in Builds : Transact(p) \/ Withdraw(p)
  BY <1>6 DEF Transact, Withdraw, Stored, files, worker, notes
<1>7. ASSUME NEW n \in Names, Rollback(n) PROVE BookInv'
  BY <1>7 DEF Rollback, Stored, files, worker, notes
<1>8. ASSUME NEW n \in Names, DeleteSnapshot(n) \/ Damage(n) PROVE BookInv'
  BY <1>8 DEF DeleteSnapshot, Damage, Stored, TypeOK, FileTypes, WorkerTypes, NoteTypes, worker, notes
<1>9. CASE Read
  BY <1>9 DEF Read, Ends, Stored, files, notes
<1>10. CASE VerifyIntegrity
  BY <1>10 DEF VerifyIntegrity, Intact, Ends, Stored, files, notes
<1>11. ASSUME NEW current, Plan(current) PROVE BookInv'
  BY <1>11 DEF Plan, Ends, Stored, files, notes
<1>12. CASE RemoveExtra \/ InstallSnapshot \/ Recover
  BY <1>12 DEF RemoveExtra, InstallSnapshot, InstallFails, Recover, Ends, Stored, files, notes
<1>13. CASE Stop
  BY <1>13 DEF Stop, Ends, Stored, files
<1> QED
  BY <1>1, <1>2, <1>3, <1>4, <1>5, <1>6, <1>7, <1>8, <1>9, <1>10, <1>11, <1>12, <1>13
     DEF Next, CaptureKnown, CaptureFails, PlanKnown, PlanBlind

(* The plan: what it does not fetch is there, and nothing stays that the    *)
(* snapshot does not name.                                                  *)
LEMMA StepKeepsPlan ==
  ASSUME TypeOK, PlanInv, [Next]_vars
  PROVE  PlanInv'
<1> USE DEF PlanInv
<1>1. CASE at' \notin {"remove", "install"}
  BY <1>1
<1>2. CASE at' = at /\ UNCHANGED <<installed, data, in, out, sharp>>
  BY <1>2
<1>3. ASSUME NEW current, Plan(current), at' = "remove" PROVE PlanInv'
  <2>1. out' = NameOf(current) \ NameOf(data) /\ in' = data \ current /\ data' = data
    BY <1>3 DEF Plan, Ends, Extra
  <2>2. sharp' => current = installed'
    BY <1>3 DEF Plan, system
  <2> QED
    BY <1>3, <2>1, <2>2 DEF NameOf
<1>4. CASE RemoveExtra /\ at' = "install"
  <2>1. AfterRemove(out) /\ UNCHANGED <<in, data, sharp>> /\ at = "remove"
    BY <1>4 DEF RemoveExtra, Ends, notes
  <2>2. sharp => NameOf(installed') \subseteq NameOf(data)
    BY <2>1 DEF AfterRemove, NameOf
  <2>3. sharp => data \ in \subseteq installed'
    BY <2>1 DEF AfterRemove, NameOf
  <2> QED
    BY <1>4, <2>1, <2>2, <2>3
<1>5. CASE UNCHANGED vars
  BY <1>2, <1>5 DEF vars, worker, system, notes
<1>6. CASE Next /\ at' \in {"remove", "install"} /\ ~(\E n \in Names : DeleteSnapshot(n) \/ Damage(n))
  <2>1. (\E current : Plan(current) /\ at' = "remove") \/ (RemoveExtra /\ at' = "install")
    BY <1>6 DEF Next, Install, NoSpace, CaptureKnown, CaptureFails, Capture, Write, Prune, Transact, Withdraw,
       Rollback, Read, VerifyIntegrity, PlanKnown, PlanBlind, Plan, RemoveExtra, InstallSnapshot,
       InstallFails, Recover, Stop, Ends, worker
  <2> QED
    BY <1>3, <1>4, <2>1
<1>7. CASE \E n \in Names : DeleteSnapshot(n) \/ Damage(n)
  BY <1>2, <1>7 DEF DeleteSnapshot, Damage, worker, system, notes
<1> QED
  BY <1>1, <1>5, <1>6, <1>7
-----------------------------------------------------------------------------
(* What a rollback reports.                                                 *)

(* Fetching what the plan names, on top of what the removal left, gives the *)
(* snapshot's packages: both hold one version of each.                      *)
LEMMA InstallCompletes ==
  ASSUME PackageInv, PlanInv, sharp, at = "install", AfterInstall(in)
  PROVE  installed' = data
<1>1. in \subseteq data /\ data \ in \subseteq installed /\ NameOf(installed) \subseteq NameOf(data)
  BY DEF PlanInv
<1>2. Distinct(installed) /\ Distinct(data)
  BY DistinctParts DEF PackageInv, Known
<1>3. installed' = {p \in installed : p[1] \notin NameOf(in)} \cup in
  BY DEF AfterInstall
<1>4. ASSUME NEW p \in installed, p[1] \notin NameOf(in) PROVE p \in data
  <2>1. PICK d \in data : d[1] = p[1]
    BY <1>1 DEF NameOf
  <2>2. d \notin in
    BY <1>4, <2>1 DEF NameOf
  <2>3. d \in installed
    BY <1>1, <2>2
  <2> QED
    BY <1>2, <2>1, <2>3 DEF Distinct
<1>5. ASSUME NEW d \in data \ in PROVE d \in installed /\ d[1] \notin NameOf(in)
  BY <1>1, <1>2 DEF NameOf, Distinct
<1> QED
  BY <1>1, <1>3, <1>4, <1>5

LEMMA StepKeepsResult ==
  ASSUME TypeOK, PackageInv, BookInv, PlanInv, ResultInv, [Next]_vars
  PROVE  ResultInv'
<1> USE DEF ResultInv, RestoresSnapshot
<1>1. CASE result' # "success" /\ (result' # "none" => at' = "idle")
  BY <1>1
<1>2. CASE UNCHANGED <<result, at, target, caught, sharp, installed, taken>>
  BY <1>2
<1>3. CASE UNCHANGED vars
  BY <1>2, <1>3 DEF vars, worker, system, notes
<1>4. ASSUME NEW current, Plan(current) PROVE ResultInv'
  <2>1. CASE result' = "success"
    <3>1. current = data /\ sharp' = (current = installed) /\ UNCHANGED <<installed, target, caught, taken>>
      BY <1>4, <2>1 DEF Plan, system
    <3>2. at' = "idle" /\ (target \in caught => data = taken[target])
      BY <1>4, <2>1 DEF Plan, Ends, BookInv
    <3> QED
      BY <3>1, <3>2
  <2> QED
    BY <1>1, <1>4, <2>1 DEF Plan, Ends
<1>5. CASE InstallSnapshot
  <2>1. CASE AfterInstall(in) /\ Ends("success")
    <3>1. sharp => installed' = data
      BY <1>5, <2>1, InstallCompletes DEF InstallSnapshot
    <3>2. target \in caught => data = taken[target]
      BY <1>5 DEF BookInv, InstallSnapshot
    <3> QED
      BY <1>5, <2>1, <3>1, <3>2 DEF InstallSnapshot, Ends, notes
  <2>2. CASE InstallFails
    BY <1>1, <1>5, <2>2 DEF InstallFails, InstallSnapshot, Ends
  <2> QED
    BY <1>5, <2>1, <2>2 DEF InstallSnapshot
<1>6. CASE Read \/ VerifyIntegrity \/ RemoveExtra \/ Recover \/ Stop
  BY <1>1, <1>6 DEF Read, VerifyIntegrity, RemoveExtra, Recover, Stop, Ends
<1>7. CASE Install \/ NoSpace \/ CaptureKnown \/ CaptureFails \/ Write
           \/ (\E o \in Names : Prune(o)) \/ (\E p \in Builds : Transact(p)) \/ (\E n \in Names : Rollback(n))
  BY <1>1, <1>7 DEF Install, NoSpace, CaptureKnown, CaptureFails, Capture, Write, Prune, Transact, Rollback
<1>8. CASE (\E p \in Builds : Withdraw(p)) \/ (\E n \in Names : DeleteSnapshot(n) \/ Damage(n))
  BY <1>2, <1>8 DEF Withdraw, DeleteSnapshot, Damage, system, worker, notes
<1> QED
  BY <1>3, <1>4, <1>5, <1>6, <1>7, <1>8 DEF Next, PlanKnown, PlanBlind

(* What a failed rollback leaves.                                           *)

LEMMA RemoveNames ==
  ASSUME NEW P, AfterRemove(P)
  PROVE  NameOf(installed) \subseteq NameOf(installed') \cup P /\ NameOf(residue) \subseteq NameOf(residue')
BY DEF AfterRemove, NameOf

LEMMA InstallNames ==
  ASSUME NEW S, AfterInstall(S)
  PROVE  NameOf(installed) \cup NameOf(S) \subseteq NameOf(installed')
BY DEF AfterInstall, NameOf

LEMMA PlanNames == NameOf(Known) \subseteq NameOf(installed) \cup NameOf(residue)
BY DEF Known, NameOf

(* The steps of a rollback from the plan on.                                *)
LEMMA RestoreKeepsPresent ==
  ASSUME PresentInv, ResultInv, PlanKnown \/ RemoveExtra \/ InstallSnapshot \/ Recover, present' # {}
  PROVE  PresentInv'
<1>1. ~Fault /\ present' = present /\ present # {} /\ UNCHANGED repo
  BY DEF PlanKnown, Plan, RemoveExtra, InstallSnapshot, Recover, Fault, Well
<1>2. at # "idle" /\ result = "none"
  BY DEF ResultInv, PlanKnown, Plan, RemoveExtra, InstallSnapshot, Recover
<1>3. CASE PlanKnown
  <2>1. present = NameOf(installed) /\ UNCHANGED system
    BY <1>1, <1>3 DEF PresentInv, PlanKnown, Plan
  <2>2. CASE at' = "remove" /\ out' = Extra(Known) /\ result' = result
    <3>1. out' \subseteq present \cup NameOf(residue)
      BY <2>1, <2>2, PlanNames DEF Extra
    <3> QED
      BY <1>1, <1>2, <2>1, <2>2, <3>1 DEF PresentInv, FailureKeepsDrivers, system
  <2>3. CASE Ends("success")
    BY <1>1, <2>3 DEF PresentInv, FailureKeepsDrivers, Ends
  <2> QED
    BY <1>3, <2>2, <2>3 DEF PlanKnown, Plan
<1>4. CASE RemoveExtra
  <2>1. /\ AfterRemove(out) /\ at' = "install" /\ UNCHANGED <<out, result>>
        /\ present = NameOf(installed) /\ out \subseteq present \cup NameOf(residue)
    BY <1>1, <1>4 DEF PresentInv, RemoveExtra
  <2>2. present \subseteq NameOf(installed') \cup out /\ out \subseteq present \cup NameOf(residue')
    BY <2>1, RemoveNames
  <2> QED
    BY <1>1, <1>2, <2>1, <2>2 DEF PresentInv, FailureKeepsDrivers
<1>5. CASE InstallSnapshot
  <2>1. /\ at = "install" /\ present \subseteq NameOf(installed) \cup out
        /\ out \subseteq present \cup NameOf(residue)
    BY <1>1, <1>5 DEF PresentInv, InstallSnapshot
  <2>2. CASE Ends("success")
    BY <1>1, <2>2 DEF PresentInv, FailureKeepsDrivers, Ends
  <2>3. CASE InstallFails /\ UNCHANGED system
    <3>1. CASE out = {} /\ Ends("failed")
      BY <1>1, <2>1, <2>3, <3>1 DEF PresentInv, FailureKeepsDrivers, Ends, system
    <3>2. CASE at' = "recover" /\ UNCHANGED <<out, result>>
      BY <1>1, <1>2, <2>1, <2>3, <3>2 DEF PresentInv, FailureKeepsDrivers, system
    <3> QED
      BY <2>3, <3>1, <3>2 DEF InstallFails
  <2> QED
    BY <1>1, <1>5, <2>2, <2>3 DEF InstallSnapshot
<1>6. CASE Recover
  <2>1. /\ at = "recover" /\ present \subseteq NameOf(installed) \cup out /\ Ends("failed")
        /\ out \subseteq present \cup NameOf(residue)
    BY <1>1, <1>6 DEF PresentInv, Recover
  <2>2. CASE \E S \in SUBSET repo : NameOf(S) = out /\ AfterInstall(S)
    <3>1. present \subseteq NameOf(installed')
      BY <2>1, <2>2, InstallNames
    <3> QED
      BY <1>1, <2>1, <3>1 DEF PresentInv, FailureKeepsDrivers, Ends
  <2>3. CASE ~(out \subseteq NameOf(repo)) /\ UNCHANGED system
    BY <1>1, <2>1, <2>3 DEF PresentInv, FailureKeepsDrivers, Ends, system
  <2> QED
    BY <1>1, <1>6, <2>2, <2>3 DEF Recover
<1> QED
  BY <1>3, <1>4, <1>5, <1>6

LEMMA StepKeepsPresent ==
  ASSUME PresentInv, ResultInv, [Next]_vars
  PROVE  PresentInv'
<1>1. CASE present' = {}
  BY <1>1 DEF PresentInv, FailureKeepsDrivers
<1>2. SUFFICES ASSUME present' # {} PROVE PresentInv'
  BY <1>1
<1>3. ~Fault
  BY <1>2 DEF Fault
<1>4. CASE UNCHANGED <<installed, residue, at, out, result, present>> /\ repo' \subseteq repo
  <2>1. NameOf(repo') \subseteq NameOf(repo)
    BY <1>4 DEF NameOf
  <2> QED
    BY <1>4, <2>1 DEF PresentInv, FailureKeepsDrivers
<1>5. CASE UNCHANGED vars \/ (\E p \in Builds : Withdraw(p)) \/ (\E n \in Names : DeleteSnapshot(n) \/ Damage(n))
  BY <1>3, <1>4, <1>5 DEF vars, Withdraw, DeleteSnapshot, Damage, system, worker
<1>6. CASE Install \/ NoSpace \/ CaptureFails \/ PlanBlind \/ Stop
  BY <1>2, <1>3, <1>6 DEF Install, NoSpace, CaptureFails, PlanBlind, Stop
<1>7. CASE CaptureKnown \/ Write \/ (\E o \in Names : Prune(o)) \/ (\E p \in Builds : Transact(p))
  <2>1. present = {}
    BY <1>7 DEF PresentInv, CaptureKnown, Capture, Write, Prune, Transact
  <2> QED
    BY <1>2, <1>3, <1>7, <2>1 DEF CaptureKnown, Write, Prune, Transact, Well
<1>8. ASSUME NEW n \in Names, Rollback(n) PROVE PresentInv'
  BY <1>8 DEF PresentInv, FailureKeepsDrivers, Rollback, system
<1>9. CASE Read \/ VerifyIntegrity
  <2>1. at \in {"read", "load", "verify"} /\ UNCHANGED <<installed, residue, repo, present>>
    BY <1>9 DEF Read, VerifyIntegrity, system
  <2>2. present = NameOf(installed)
    BY <1>2, <2>1 DEF PresentInv
  <2> QED
    BY <1>9, <2>1, <2>2 DEF Read, VerifyIntegrity, Ends, PresentInv, FailureKeepsDrivers
<1> QED
  BY <1>2, <1>5, <1>6, <1>7, <1>8, <1>9, RestoreKeepsPresent DEF Next
-----------------------------------------------------------------------------
(* The theorems.                                                            *)

LEMMA InitInv == Init => IInv
<1> SUFFICES ASSUME Init PROVE IInv
  OBVIOUS
<1>1. TypeOK
  BY InitTyped
<1>2. Stored = {}
  BY DEF Init, Stored
<1>3. StoreInv
  BY <1>2, FS_EmptySet, SnapshotConstants DEF Init, StoreInv, Retention, LatestKept
<1>4. PackageInv
  BY DEF Init, PackageInv, Distinct, Known
<1>5. BookInv /\ PlanInv /\ ResultInv /\ PresentInv
  BY <1>2 DEF Init, BookInv, PlanInv, ResultInv, RestoresSnapshot, PresentInv, FailureKeepsDrivers, Rolling
<1> QED
  BY <1>1, <1>3, <1>4, <1>5 DEF IInv

LEMMA StepInv == IInv /\ [Next]_vars => IInv'
BY StepTyped, StepKeepsStore, StepKeepsPackages, StepKeepsBook, StepKeepsPlan, StepKeepsResult, StepKeepsPresent
   DEF IInv

LEMMA Invariant == Spec => []IInv
BY InitInv, StepInv, PTL DEF Spec

(* However deletions, failed removals and stops fall between the pruning    *)
(* and the write, the store stays bounded.                                  *)
THEOREM RetentionCorrect == Spec => []Retention
BY Invariant, PTL DEF IInv, StoreInv

(* The last install's snapshot outlives every pruning, however its name     *)
(* sorts.                                                                   *)
THEOREM LatestKeptCorrect == Spec => []LatestKept
BY Invariant, PTL DEF IInv, StoreInv

(* A rollback that reports success has brought back what was installed when *)
(* the snapshot was taken, if that was caught and the plan saw the system.  *)
THEOREM RestoresSnapshotCorrect == Spec => []RestoresSnapshot
BY Invariant, PTL DEF IInv, ResultInv

(* A rollback that fails without a fault has not cost the machine a driver  *)
(* that the archive still has, however far it had come.                     *)
THEOREM FailureKeepsDriversCorrect == Spec => []FailureKeepsDrivers
BY Invariant, PTL DEF IInv, PresentInv
=============================================================================
