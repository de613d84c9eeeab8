----------------------------- MODULE Snapshots -----------------------------
(***************************************************************************)
(* The snapshots of the installed NVIDIA packages that an install takes,    *)
(* the pruning that makes room for one, and the rollback that restores one. *)
(* One operation runs at a time, on a worker (OperationService); the main   *)
(* thread lists and deletes snapshots between any two of its steps.         *)
(* Files outlive the daemon, which may stop between any two steps too.      *)
(*                                                                         *)
(* A package is known to dpkg-query -W when it is installed and also when   *)
(* it was removed and left its configuration files: such a line still has   *)
(* a version.  Snapshot names begin with the wall clock, which may be set   *)
(* back, so a new name may sort anywhere.                                   *)
(*                                                                         *)
(* Left out: kernel, DKMS and configuration contents, which no rollback     *)
(* reads; temporary files, which no listing shows; progress messages; the   *)
(* preflight of a rollback, which no call reaches (Dispatch).               *)
(***************************************************************************)
EXTENDS Naturals, FiniteSets

CONSTANTS
  Builds,        \* packages nvidia-* and libnvidia-*: pairs of a name and a version
  Conf,          \* the packages that leave configuration files when removed
  Names,         \* snapshot ids, in the order their file names sort
  MaxSnapshots,  \* MAX_SNAPSHOTS
  MaxFaults,     \* bound: failures and stops of the daemon
  MaxOps         \* bound: installs and rollbacks, repository changes

ASSUME SnapshotConstants ==
  /\ Names \subseteq Nat \ {0} /\ IsFiniteSet(Names)
  /\ MaxSnapshots \in Nat \ {0} /\ MaxFaults \in Nat /\ MaxOps \in Nat

VARIABLES
  installed,  \* the packages in state "ii", with their versions
  residue,    \* the packages of which only configuration files are left
  repo,       \* the packages and versions apt can fetch
  disk,       \* the state of each snapshot's file
  listing,    \* the packages it lists
  at,         \* where the worker is
  target,     \* the snapshot it writes or restores
  data,       \* the packages captured, or loaded from the snapshot
  old,        \* the snapshots it has yet to prune
  out,        \* to_remove; then removed_packages
  in,         \* to_install
  result,     \* how the last rollback ended
  faults, ops,
  taken,      \* history: what was installed when the snapshot was taken
  used,       \* history: the ids given out
  caught,     \* history: those that list exactly what was installed
  missed,     \* history: snapshots the last pruning should have removed and did not
  latest,     \* history: the last install's snapshot, unless it failed or a client deleted it
  sharp,      \* history: the last plan was made from what is really installed
  present     \* history: the packages installed when the rollback began, {} if a fault came since

system  == <<installed, residue>>
files   == <<disk, listing>>
worker  == <<at, target, data, old, out, in, result>>
bounds  == <<faults, ops>>
notes   == <<taken, used, caught, missed, latest, sharp>>
vars    == <<system, repo, files, worker, bounds, notes, present>>

NameOf(S) == {p[1] : p \in S}
\* dpkg holds one version of a package.
Distinct(S) == \A p, q \in S : p[1] = q[1] => p = q
None      == 0
Stored    == {n \in Names : disk[n] # "absent"}

\* What _query_nvidia_packages prints, and nothing at all when dpkg-query is
\* late or missing.
Known == installed \cup residue

\* apt-get remove: the packages go, the configuration of some stays.
AfterRemove(P) ==
  /\ installed' = {p \in installed : p[1] \notin P}
  /\ residue' = residue \cup {p \in installed : p[1] \in P \cap Conf}

\* apt-get install of exact versions.
AfterInstall(S) ==
  /\ installed' = {p \in installed : p[1] \notin NameOf(S)} \cup S
  /\ residue' = {p \in residue : p[1] \notin NameOf(S)}

\* Anything that can go wrong does so within the bound.
Fault == faults < MaxFaults /\ faults' = faults + 1 /\ present' = {}
Well  == UNCHANGED <<faults, present>>

Init ==
  /\ installed \in {{}} \cup {{p} : p \in Builds} /\ repo = Builds
  /\ residue = {}
  /\ disk = [n \in Names |-> "absent"]
  /\ listing = [n \in Names |-> {}]
  /\ at = "idle" /\ target = None /\ data = {} /\ old = {} /\ out = {} /\ in = {}
  /\ result = "none"
  /\ faults = 0 /\ ops = 0
  /\ taken = [n \in Names |-> {}] /\ used = {} /\ caught = {} /\ missed = 0
  /\ latest = None /\ sharp = TRUE /\ present = {}
-----------------------------------------------------------------------------
(* Installing: the snapshot first, then apt. *)

\* InstallDriver's worker reaches _create_pre_install_snapshot.
Install ==
  /\ at = "idle" /\ ops < MaxOps /\ used # Names
  /\ at' = "space" /\ ops' = ops + 1 /\ result' = "none"
  /\ latest' = None /\ present' = {}
  /\ UNCHANGED <<system, repo, files, target, data, old, out, in, faults, taken,
                 used, caught, missed, sharp>>

\* _check_storage_space raises; the install goes on without a snapshot.
NoSpace ==
  /\ at = "space" /\ Fault
  /\ at' = "apt"
  /\ UNCHANGED <<system, repo, files, target, data, old, out, in, result, ops, notes>>

\* Mutant: one snapshot too few is pruned.
TooManyByOne == {o \in Stored : Cardinality({m \in Stored : m >= o}) > MaxSnapshots}

\* Those to remove so that a new one fits in.
TooMany == {o \in Stored : Cardinality({m \in Stored : m >= o}) >= MaxSnapshots}

\* An id that is new, and the packages as dpkg-query prints them.
Capture(n, answer) ==
  /\ at = "space" /\ n \notin used
  /\ target' = n /\ data' = answer
  /\ at' = "prune"
  /\ old' = TooMany /\ missed' = 0
  /\ taken' = [taken EXCEPT ![n] = installed] /\ used' = used \cup {n}
  /\ caught' = IF answer = installed THEN caught \cup {n} ELSE caught
  /\ UNCHANGED <<system, repo, files, out, in, result, ops, latest, sharp>>

CaptureKnown == \E n \in Names : Capture(n, Known) /\ Well
CaptureFails == \E n \in Names : Capture(n, {}) /\ Fault

\* The oldest goes first; one that is gone or will not go is only logged.
Prune(o) ==
  /\ at = "prune" /\ o \in old /\ \A m \in old : o <= m
  /\ old' = old \ {o}
  /\ \/ disk' = [disk EXCEPT ![o] = "absent"] /\ UNCHANGED missed /\ Well
     \/ disk[o] # "absent" /\ missed' = missed + 1 /\ UNCHANGED disk /\ Fault
  /\ UNCHANGED <<system, repo, listing, at, target, data, out, in, result, ops,
                 taken, used, caught, latest, sharp>>

\* Mutant: the oldest is removed after the write, by then perhaps the new one.
WriteThenPrune ==
  /\ at = "prune" /\ old = {}
  /\ at' = "apt"
  /\ LET all == Stored \cup {target}
     IN  disk' = [n \in Names |-> IF Cardinality(all) = MaxSnapshots /\ \A k \in all : n <= k
                                  THEN "absent" ELSE IF n = target THEN "whole" ELSE disk[n]]
  /\ listing' = [listing EXCEPT ![target] = data]
  /\ latest' = target /\ Well
  /\ UNCHANGED <<system, repo, target, data, old, out, in, result, ops, taken, used, caught,
                 missed, sharp>>

\* The new file appears whole, or the write fails and the install goes on.
Write ==
  /\ at = "prune" /\ old = {}
  /\ at' = "apt"
  /\ \/ /\ disk' = [disk EXCEPT ![target] = "whole"]
        /\ listing' = [listing EXCEPT ![target] = data]
        /\ latest' = target /\ Well
     \/ UNCHANGED <<files, latest>> /\ Fault
  /\ UNCHANGED <<system, repo, target, data, old, out, in, result, ops, taken,
                 used, caught, missed, sharp>>

\* apt installs a driver branch in place of the others, or stops half-way.
Transact(p) ==
  /\ at = "apt"
  /\ at' = "idle"
  /\ \/ /\ p \in repo /\ installed' = {p}
        /\ residue' = {q \in residue \cup installed : q[1] \in Conf \ {p[1]}}
        /\ Well
     \/ p \notin repo /\ UNCHANGED system /\ Well
     \/ AfterRemove(NameOf(Builds)) /\ Fault
     \/ UNCHANGED system /\ Fault
  /\ UNCHANGED <<repo, files, target, data, old, out, in, result, ops, notes>>
-----------------------------------------------------------------------------
(* Rolling back. *)

Ends(r) == at' = "idle" /\ result' = r /\ old' = {} /\ out' = {} /\ in' = {}

Rollback(n) ==
  /\ at = "idle" /\ n \in used /\ ops < MaxOps
  /\ at' = "read" /\ target' = n /\ ops' = ops + 1 /\ result' = "none"
  /\ present' = NameOf(installed)
  /\ UNCHANGED <<system, repo, files, data, old, out, in, faults, notes>>

\* get_snapshot reads the file for the expected version, restore reads it
\* again for the packages; either gives up when it is gone or no JSON.
Read ==
  /\ at \in {"read", "load"}
  /\ \/ disk[target] \in {"absent", "unreadable"} /\ Ends("failed") /\ UNCHANGED data
     \/ /\ disk[target] \in {"whole", "altered"}
        /\ at' = IF at = "read" THEN "load" ELSE "verify"
        /\ data' = listing[target]
        /\ UNCHANGED <<old, out, in, result>>
  /\ UNCHANGED <<system, repo, files, target, bounds, notes, present>>

\* Mutant: the hash is not compared.
IntactUnhashed(n) == disk[n] \in {"whole", "altered"}

\* verify_snapshot_integrity
Intact(n) == disk[n] = "whole"

\* The third read of the file: its hash must match.
VerifyIntegrity ==
  /\ at = "verify"
  /\ \/ Intact(target) /\ at' = "plan" /\ UNCHANGED <<old, out, in, result>>
     \/ ~Intact(target) /\ Ends("failed")
  /\ UNCHANGED <<system, repo, files, target, data, bounds, notes, present>>

\* to_remove
Extra(current) == NameOf(current) \ NameOf(data)

\* What the snapshot does not name goes, what it names in another version comes.
Plan(current) ==
  /\ at = "plan"
  /\ sharp' = (current = installed)
  /\ \/ current = data /\ Ends("success")
     \/ /\ current # data
        /\ out' = Extra(current)
        /\ in' = data \ current
        /\ at' = "remove" /\ UNCHANGED <<old, result>>
  /\ UNCHANGED <<system, repo, files, target, data, ops, taken, used, caught, missed, latest>>

PlanKnown == Plan(Known) /\ Well
PlanBlind == Plan({}) /\ Fault

RemoveExtra ==
  /\ at = "remove"
  /\ \/ AfterRemove(out) /\ at' = "install" /\ UNCHANGED <<old, out, in, result>> /\ Well
     \/ /\ out # {} /\ Fault /\ Ends("failed")
        /\ \E done \in SUBSET out : AfterRemove(done)
  /\ UNCHANGED <<repo, files, target, data, ops, notes>>

\* Mutant: a failed install ends the rollback, the drivers removed by then or not.
InstallGivesUp == Ends("failed")

\* A failed install, after a removal: one more command is tried.
InstallFails ==
  \/ out = {} /\ Ends("failed")
  \/ out # {} /\ at' = "recover" /\ UNCHANGED <<old, out, in, result>>

\* apt refuses the whole command when it cannot fetch one of the versions.
InstallSnapshot ==
  /\ at = "install"
  /\ \/ in \subseteq repo /\ AfterInstall(in) /\ Ends("success") /\ Well
     \/ ~(in \subseteq repo) /\ InstallFails /\ UNCHANGED system /\ Well
     \/ /\ in # {} /\ in \subseteq repo /\ InstallFails /\ Fault
        /\ \E done \in SUBSET in : AfterInstall(done)
  /\ UNCHANGED <<repo, files, target, data, ops, notes>>

\* The removed packages again, by name and so in any version; the outcome is
\* logged, and the rollback has failed either way.
Recover ==
  /\ at = "recover" /\ Ends("failed")
  /\ \/ (\E S \in SUBSET repo : NameOf(S) = out /\ Distinct(S) /\ AfterInstall(S)) /\ Well
     \/ ~(out \subseteq NameOf(repo)) /\ UNCHANGED system /\ Well
     \/ UNCHANGED system /\ Fault
  /\ UNCHANGED <<repo, files, target, data, ops, notes>>
-----------------------------------------------------------------------------
(* The main thread, and the world. *)

\* No lock, and no regard to the operation in progress.
DeleteSnapshot(n) ==
  /\ n \in Stored
  /\ disk' = [disk EXCEPT ![n] = "absent"]
  /\ latest' = IF latest = n THEN None ELSE latest
  /\ UNCHANGED <<system, repo, listing, worker, bounds, taken, used, caught, missed, sharp, present>>

\* The archive drops a version.
Withdraw(p) ==
  /\ p \in repo /\ at = "idle" /\ ops < MaxOps
  /\ repo' = repo \ {p} /\ ops' = ops + 1
  /\ UNCHANGED <<system, files, worker, faults, notes, present>>

\* A file is damaged, or edited behind Verde's back.
Damage(n) ==
  /\ disk[n] = "whole" /\ Fault
  /\ \/ disk' = [disk EXCEPT ![n] = "unreadable"] /\ UNCHANGED listing
     \/ /\ disk' = [disk EXCEPT ![n] = "altered"]
        /\ listing' = [listing EXCEPT ![n] = {}]
  /\ UNCHANGED <<system, repo, worker, ops, notes>>

\* The daemon stops; what the pruning had still to remove stays.
Stop ==
  /\ at # "idle" /\ Fault
  /\ Ends("none")
  /\ missed' = missed + Cardinality(old \cap Stored)
  /\ UNCHANGED <<system, repo, files, target, data, ops, taken, used, caught, latest, sharp>>

Next ==
  \/ Install \/ NoSpace \/ CaptureKnown \/ CaptureFails \/ Write
  \/ \E o \in Names : Prune(o)
  \/ \E p \in Builds : Transact(p) \/ Withdraw(p)
  \/ \E n \in Names : Rollback(n) \/ DeleteSnapshot(n) \/ Damage(n)
  \/ Read \/ VerifyIntegrity \/ PlanKnown \/ PlanBlind \/ RemoveExtra \/ InstallSnapshot
  \/ Recover \/ Stop

Spec == Init /\ [][Next]_vars
-----------------------------------------------------------------------------
(* Properties. *)

SystemTypes == installed \subseteq Builds /\ residue \subseteq Builds /\ repo \subseteq Builds
FileTypes ==
  /\ disk \in [Names -> {"absent", "whole", "altered", "unreadable"}]
  /\ listing \in [Names -> SUBSET Builds]
WorkerTypes ==
  /\ at \in {"idle", "space", "prune", "apt", "read", "load", "verify", "plan", "remove",
             "install", "recover"}
  /\ target \in Names \cup {None} /\ (at \notin {"idle", "space", "apt"} => target # None)
  /\ data \subseteq Builds /\ old \subseteq Names
  /\ out \subseteq NameOf(Builds) /\ in \subseteq Builds
  /\ result \in {"none", "success", "failed"}
NoteTypes ==
  /\ faults \in Nat /\ ops \in Nat
  /\ taken \in [Names -> SUBSET Builds] /\ used \subseteq Names /\ caught \subseteq Names
  /\ missed \in Nat /\ latest \in Names \cup {None}
  /\ sharp \in BOOLEAN /\ present \subseteq NameOf(Builds)

\* Every variable keeps its type.
TypeOK == SystemTypes /\ FileTypes /\ WorkerTypes /\ NoteTypes

\* No more snapshots are kept than MAX_SNAPSHOTS and those the last pruning
\* could not remove: failures do not add up (snapshot_manager.py:292-307, where
\* deletions, failed removals and a stop come between the listing and the write).
Retention == Cardinality(Stored) <= MaxSnapshots + missed + Cardinality(old)

\* The snapshot of the last install stays until the next one, wherever the
\* clock made its name sort: pruning comes before the write, never after it
\* (snapshot_manager.py:364).
LatestKept == latest # None => disk[latest] # "absent"

\* A rollback that reports success has brought back what was installed when
\* the snapshot was taken, if the snapshot caught that and the plan was made
\* from what is installed, whoever deletes or edits the file while it is read
\* three times (snapshot_manager.py:440-566).
RestoresSnapshot ==
  result = "success" /\ target \in caught /\ sharp => installed = taken[target]

\* A rollback that fails because the archive no longer has what the snapshot
\* names, or the snapshot is not fit for use, leaves every package installed
\* that was (in some version), though the removal came before the refusal
\* (snapshot_manager.py:519-544) -- as long as the archive has what was there.
FailureKeepsDrivers ==
  result = "failed" => present \subseteq NameOf(installed)
                         \/ ~(present \cup NameOf(residue) \subseteq NameOf(repo))

\* A rollback that reports success has brought back what was installed when
\* the snapshot was taken (README.md:58).
RollbackReturns == result = "success" => installed = taken[target]
=============================================================================
