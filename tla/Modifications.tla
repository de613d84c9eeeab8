--------------------------- MODULE Modifications ---------------------------
(***************************************************************************)
(* The manifest of system changes and its two writers: the worker of        *)
(* FixSuspend or FixHibernate, which changes services, the modprobe          *)
(* configuration and the initramfs and records each change, and the main     *)
(* thread, which reverts an entry.  They meet on the manifest's file lock    *)
(* only: the system itself is changed outside it by the worker and inside    *)
(* it by the main thread.  The manifest is on disk; a stop of the daemon     *)
(* cuts both writers off wherever they are, and the next call starts it.     *)
(*                                                                         *)
(* Left out because they change nothing: a fix for the "integrated" profile *)
(* (a check that detects it looks for the standard configuration), a fix    *)
(* that finds a unit missing, and a revert of an id that is unknown,         *)
(* inactive, or not in a manifest that could not be read.                   *)
(***************************************************************************)
EXTENDS Naturals, SequencesExt

CONSTANTS
  Services,   \* _SUSPEND_SERVICES, in order
  Hibernate,  \* NVIDIA_HIBERNATE_SERVICE, one of them
  Machines,   \* the services and configuration Verde may find on its first start
  Profiles,   \* display profiles the fixes may meet
  MaxFixes,   \* bound: fixes accepted
  MaxFaults   \* bound: commands, queries, writes, saves and loads that fail, and stops of the daemon

ASSUME ModificationConstants ==
  /\ Services \in Seq(STRING) /\ Hibernate \in ToSet(Services)
  /\ {"conf", "initramfs"} \cap ToSet(Services) = {}
  /\ Profiles \subseteq {"standard", "offload"}
  /\ Machines \subseteq [enabled : SUBSET ToSet(Services), conf : {"absent", "foreign"}]
  /\ MaxFixes \in Nat /\ MaxFaults \in Nat

VARIABLES
  enabled,    \* the services that are enabled
  conf,       \* what MODPROBE_CONF_PATH holds
  initramfs,  \* what it held when the initramfs was built
  manifest,   \* modifications.json, oldest entry first
  lock,       \* who has flocked the manifest: "none", "worker" or "main"
  copy,       \* the manifest each of them has loaded
  misread,    \* the last load met an unreadable file and started fresh
  at,         \* where the worker is
  fix,        \* what it fixes, for which profile, which its check has seen, and if no revert ran meanwhile
  confOK,     \* _check_modprobe_config's answer
  needs,      \* the services found in the wrong state, needs_enable or failed_verify
  left,       \* the services its loop has yet to visit
  entry,      \* the modification it has made and not yet recorded
  result,     \* how the last fix ended
  mainAt,     \* where the main thread is in revert
  target,     \* the manifest index it reverts
  fixes, faults,
  before,     \* history: the system before Verde's first change
  lost,       \* history: targets a failure has cut off from their record
  timedOut    \* history: services an is-enabled query timed out on

system  == <<enabled, conf, initramfs>>
books   == <<manifest, lock, copy, misread>>
worker  == <<at, fix, confOK, needs, left, entry, result>>
main    == <<mainAt, target>>
bounds  == <<fixes, faults>>
history == <<before, lost, timedOut>>
vars    == <<system, books, worker, main, bounds, history>>

Service  == ToSet(Services)
Conf     == {"absent", "foreign", "standard", "offload"}
None     == "none"
Writer   == {"worker", "main"}
Modification == [type : {"service_enabled", "service_disabled", "file_created", "config_changed", "initramfs_rebuilt"},
                 target : Service \cup {"conf", "initramfs"},
                 original : {"enabled", "disabled", None},
                 active : BOOLEAN]
Entry    == {m \in Modification : m.type \in {"service_enabled", "service_disabled"} => m.target \in Service}
NoEntry  == [type |-> "initramfs_rebuilt", target |-> "initramfs", original |-> None, active |-> FALSE]

NoFix    == [kind |-> "suspend", profile |-> "standard", seen |-> "standard", quiet |-> TRUE]

(* The types: the system, the manifest with its writers' copies, the worker *)
(* and the main thread, the bounds and the histories.                       *)
SystemTypes == enabled \subseteq Service /\ conf \in Conf /\ initramfs \in Conf
BookTypes ==
  /\ manifest \in Seq(Entry) /\ copy \in [Writer -> Seq(Entry)]
  /\ lock \in Writer \cup {"none"} /\ misread \in BOOLEAN
WorkerTypes ==
  /\ at \in {"idle", "check", "scan", "write", "services", "switch", "verify", "initramfs", "recheck",
             "record", "save"}
  /\ fix \in [kind : {"suspend", "hibernate"}, profile : {"standard", "offload"},
              seen : {"standard", "offload"}, quiet : BOOLEAN]
  /\ confOK \in BOOLEAN /\ needs \in Seq(Service) /\ left \in Seq(Service)
  /\ entry \in Entry /\ result \in {"none", "ok", "failed"}
MainTypes  == mainAt \in {"idle", "execute", "save"} /\ target \in Nat
OtherTypes ==
  /\ fixes \in 0 .. MaxFixes /\ faults \in 0 .. MaxFaults
  /\ before \in [enabled : SUBSET Service, conf : Conf]
  /\ lost \subseteq Service \cup {"conf", "initramfs"} /\ timedOut \subseteq Service
TypeOK == SystemTypes /\ BookTypes /\ WorkerTypes /\ MainTypes /\ OtherTypes

(* A machine Verde has never touched, with or without someone else's file   *)
Init ==
  /\ before \in Machines /\ enabled = before.enabled /\ conf = before.conf /\ initramfs = conf
  /\ manifest = <<>> /\ lock = "none" /\ copy = [w \in Writer |-> <<>>] /\ misread = FALSE
  /\ at = "idle" /\ fix = NoFix /\ confOK = FALSE
  /\ needs = <<>> /\ left = <<>> /\ entry = NoEntry /\ result = "none"
  /\ mainAt = "idle" /\ target = 0
  /\ fixes = 0 /\ faults = 0
  /\ lost = {} /\ timedOut = {}

(* Anything that can go wrong does so within the bound                      *)
Fault == faults < MaxFaults /\ faults' = faults + 1
Fine  == UNCHANGED faults

-----------------------------------------------------------------------------
(* The manifest on disk.                                                   *)

(* Mutant: a shared lock                                                    *)
TakeShared(w) == lock' = w

(* _with_lock: flock, waiting while the other has it                        *)
Take(w) == lock = "none" /\ lock' = w

(* _load: an unreadable file counts as an empty manifest                    *)
Load(w) ==
  \/ /\ copy' = [copy EXCEPT ![w] = manifest]
     /\ misread' = FALSE /\ Fine
  \/ /\ Fault
     /\ copy' = [copy EXCEPT ![w] = <<>>]
     /\ misread' = TRUE

(* the end of _with_lock                                                    *)
Release(w) == lock' = "none" /\ copy' = [copy EXCEPT ![w] = <<>>] /\ misread' = FALSE

-----------------------------------------------------------------------------
(* The worker: PowerManager.fix_suspend and fix_hibernate.                 *)

Standard == fix.profile = "standard"

(* _is_service_enabled: a query that times out says "not enabled"           *)
Answer(s, answer) ==
  \/ answer = (s \in enabled) /\ Fine /\ UNCHANGED timedOut
  \/ s \in enabled /\ ~answer /\ Fault /\ timedOut' = timedOut \cup {s}

End(outcome) ==
  /\ at' = "idle" /\ result' = outcome
  /\ fix' = NoFix /\ confOK' = FALSE /\ needs' = <<>> /\ left' = <<>> /\ entry' = NoEntry

(* An operation is accepted; the offload suspend fix skips the scan         *)
Begin(kind, profile) ==
  /\ at = "idle" /\ fixes < MaxFixes
  /\ fixes' = fixes + 1 /\ result' = "none"
  /\ fix' = [kind |-> kind, profile |-> profile, seen |-> profile, quiet |-> TRUE]
  /\ at' = IF kind = "hibernate" THEN "check" ELSE IF profile = "offload" THEN "services" ELSE "scan"
  /\ left' = IF kind = "hibernate" /\ profile = "standard" THEN <<Hibernate>> ELSE Services
  /\ UNCHANGED <<system, books, main, faults, before, lost, timedOut, confOK, needs, entry>>

(* _check_modprobe_config: the offload fix says which profile it checks for, *)
(* the standard one has the display detected again and takes that answer     *)
CheckConfig ==
  /\ at = "check" /\ at' = "scan"
  /\ \E seen \in IF Standard THEN Profiles ELSE {fix.profile} :
       confOK' = (conf = seen) /\ fix' = [fix EXCEPT !.seen = seen]
  /\ UNCHANGED <<system, books, main, bounds, history, needs, left, entry, result>>

Scan ==
  /\ at = "scan" /\ left # <<>>
  /\ LET s == Head(left) IN \E answer \in BOOLEAN :
       /\ Answer(s, answer)
       /\ needs' = IF answer = Standard THEN needs ELSE Append(needs, s)
  /\ left' = Tail(left)
  /\ UNCHANGED <<system, books, main, fixes, before, lost, at, fix, confOK, entry, result>>

(* Mutant: a hibernate fix that finds nothing to do ends there              *)
NoRecheck == End("ok")

(* Nothing to do: suspend ends, hibernate still rebuilds the initramfs      *)
Recheck == IF fix.kind = "suspend" THEN End("ok")
           ELSE at' = "recheck" /\ UNCHANGED <<fix, confOK, needs, left, entry, result>>

ScanDone ==
  /\ at = "scan" /\ left = <<>>
  /\ \/ /\ needs = <<>> /\ (fix.kind = "suspend" \/ confOK)
        /\ Recheck
     \/ /\ needs # <<>> \/ (fix.kind = "hibernate" /\ ~confOK)
        /\ at' = IF fix.kind = "hibernate" /\ ~confOK THEN "write" ELSE "services"
        /\ left' = IF Standard \/ needs = <<>> THEN needs ELSE Services
        /\ UNCHANGED <<fix, confOK, needs, entry, result>>
  /\ UNCHANGED <<system, books, main, bounds, history>>

(* _write_modprobe_config, a rename: the old file is gone and not recorded  *)
WriteConfig ==
  /\ at = "write"
  /\ \/ /\ conf' = fix.profile /\ at' = "record"
        /\ entry' = [type |-> IF Standard THEN "file_created" ELSE "config_changed",
                     target |-> "conf", original |-> None, active |-> TRUE]
        /\ Fine /\ UNCHANGED <<fix, confOK, needs, left, result>>
     \/ Fault /\ End("failed") /\ UNCHANGED conf
  /\ UNCHANGED <<enabled, initramfs, books, main, fixes, history>>

(* The offload loop asks again and passes over what is disabled             *)
SkipService ==
  /\ at = "services" /\ left # <<>> /\ ~Standard
  /\ Answer(Head(left), FALSE)
  /\ left' = Tail(left)
  /\ UNCHANGED <<system, books, main, fixes, before, lost, at, fix, confOK, needs, entry, result>>

(* The suspend fix asks once more what it will record as the original       *)
AskOriginal ==
  /\ at = "services" /\ left # <<>> /\ (fix.kind = "suspend" \/ ~Standard)
  /\ \E answer \in BOOLEAN :
       /\ Standard \/ answer
       /\ Answer(Head(left), answer)
       /\ at' = "switch"
       /\ entry' = [type |-> IF Standard THEN "service_enabled" ELSE "service_disabled", target |-> Head(left),
                    original |-> IF answer THEN "enabled" ELSE "disabled", active |-> TRUE]
  /\ left' = Tail(left)
  /\ UNCHANGED <<system, books, main, fixes, before, lost, fix, confOK, needs, result>>

(* the hibernate fix takes the answer of its scan                           *)
AssumeOriginal ==
  /\ at = "services" /\ left # <<>> /\ fix.kind = "hibernate" /\ Standard
  /\ at' = "switch" /\ left' = Tail(left)
  /\ entry' = [type |-> "service_enabled", target |-> Head(left), original |-> "disabled", active |-> TRUE]
  /\ UNCHANGED <<system, books, main, bounds, history, fix, confOK, needs, result>>

(* _enable_service, _disable_service: a call that fails or times out may    *)
(* have taken effect                                                        *)
SwitchService ==
  /\ at = "switch"
  /\ LET done == IF Standard THEN enabled \cup {entry.target} ELSE enabled \ {entry.target} IN
       \/ enabled' = done /\ at' = "record" /\ Fine /\ UNCHANGED <<lost, fix, confOK, needs, left, entry, result>>
       \/ enabled' \in {enabled, done} /\ Fault /\ End("failed") /\ lost' = lost \cup {entry.target}
  /\ UNCHANGED <<conf, initramfs, books, main, fixes, before, timedOut>>

(* The loop is over: standard fixes verify, the offload hibernate rebuilds  *)
ServicesDone ==
  /\ at = "services" /\ left = <<>>
  /\ IF Standard THEN /\ at' = "verify" /\ left' = needs /\ needs' = <<>>
                      /\ UNCHANGED <<fix, confOK, entry, result>>
     ELSE IF fix.kind = "hibernate" THEN at' = "initramfs" /\ UNCHANGED <<fix, confOK, needs, left, entry, result>>
     ELSE End("ok")
  /\ UNCHANGED <<system, books, main, bounds, history>>

Verify ==
  /\ at = "verify" /\ left # <<>>
  /\ LET s == Head(left) IN \E answer \in BOOLEAN :
       /\ Answer(s, answer)
       /\ needs' = IF answer THEN needs ELSE Append(needs, s)
  /\ left' = Tail(left)
  /\ UNCHANGED <<system, books, main, fixes, before, lost, at, fix, confOK, entry, result>>

VerifyDone ==
  /\ at = "verify" /\ left = <<>>
  /\ IF needs # <<>> THEN End("failed")
     ELSE IF fix.kind = "suspend" THEN End("ok")
     ELSE at' = "initramfs" /\ UNCHANGED <<fix, confOK, needs, left, entry, result>>
  /\ UNCHANGED <<system, books, main, bounds, history>>

(* _run_update_initramfs: a failed run may have written the image           *)
RebuildInitramfs ==
  /\ at \in {"initramfs", "recheck"}
  /\ \/ /\ initramfs' = conf
        /\ IF at = "recheck" THEN End("ok")
           ELSE /\ at' = "record" /\ entry' = [NoEntry EXCEPT !.active = TRUE]
                /\ UNCHANGED <<fix, confOK, needs, left, result>>
        /\ Fine
     \/ Fault /\ End("failed") /\ initramfs' \in {initramfs, conf}
  /\ UNCHANGED <<enabled, conf, books, main, fixes, history>>

(* ModificationTracker.record: lock and load ...                            *)
Record ==
  /\ at = "record" /\ Take("worker") /\ Load("worker")
  /\ at' = "save"
  /\ UNCHANGED <<system, main, fixes, history, manifest, fix, confOK, needs, left, entry, result>>

(* ... append, save and unlock; a save that fails ends the fix              *)
SaveRecord ==
  /\ at = "save" /\ Release("worker")
  /\ \/ /\ manifest' = Append(copy["worker"], entry)
        /\ lost' = lost \cup (IF misread THEN {manifest[i].target : i \in DOMAIN manifest} ELSE {})
        /\ IF entry.type = "initramfs_rebuilt" THEN End("ok")
           ELSE /\ at' = "services" /\ entry' = NoEntry
                /\ UNCHANGED <<fix, confOK, needs, left, result>>
        /\ Fine
     \/ /\ Fault /\ End("failed")
        /\ lost' = lost \cup {entry.target} /\ UNCHANGED manifest
  /\ UNCHANGED <<system, main, fixes, before, timedOut>>

Worker == CheckConfig \/ Scan \/ ScanDone \/ WriteConfig \/ SkipService \/ AskOriginal \/ AssumeOriginal
            \/ SwitchService \/ ServicesDone \/ Verify \/ VerifyDone \/ RebuildInitramfs \/ Record \/ SaveRecord

-----------------------------------------------------------------------------
(* The main thread: ModificationTracker.revert.                            *)

(* Mutant: the entry is marked inactive before it is undone                 *)
RevertBeginMarks(i) ==
  /\ mainAt = "idle" /\ Take("main")
  /\ i \in DOMAIN manifest /\ manifest[i].active
  /\ manifest' = [manifest EXCEPT ![i].active = FALSE]
  /\ copy' = [copy EXCEPT !["main"] = manifest'] /\ misread' = FALSE
  /\ mainAt' = "execute" /\ target' = i
  /\ UNCHANGED <<system, worker, bounds, history>>

(* revert: lock, load and find the entry                                    *)
RevertBegin(i) ==
  /\ mainAt = "idle" /\ Take("main")
  /\ i \in DOMAIN manifest /\ manifest[i].active
  /\ copy' = [copy EXCEPT !["main"] = manifest] /\ misread' = FALSE
  /\ mainAt' = "execute" /\ target' = i
  /\ UNCHANGED <<system, manifest, worker, bounds, history>>

(* Mutant: a created file is "restored" to its original, which is None      *)
UndoFileToOriginal(m) == conf' = IF m.type = "file_created" THEN m.original ELSE conf

(* The revert handlers.  None looks at the original state of a service ...  *)
UndoService(m) == enabled' = CASE m.type = "service_enabled"  -> enabled \ {m.target}
                               [] m.type = "service_disabled" -> enabled \cup {m.target}
                               [] OTHER                       -> enabled
UndoFile(m)      == conf' = IF m.type = "file_created" THEN "absent" ELSE conf
UndoInitramfs(m) == initramfs' = IF m.type = "initramfs_rebuilt" THEN conf ELSE initramfs

(* ... and a changed configuration has none to restore, so that it raises   *)
Undo(m) == m.type # "config_changed" /\ UndoService(m) /\ UndoFile(m) /\ UndoInitramfs(m)

(* what makes it raise: a command that fails may have acted all the same    *)
UndoFails(m) ==
  \/ m.type = "config_changed" /\ UNCHANGED system /\ Fine
  \/ m.type # "config_changed" /\ UNCHANGED system /\ Fault
  \/ m.type \notin {"config_changed", "file_created"} /\ Undo(m) /\ Fault

(* Mutant: the lock is given back on success only                           *)
RevertDoneKeepsLock ==
  /\ mainAt' = "idle" /\ target' = 0
  /\ IF mainAt = "save" THEN Release("main") ELSE UNCHANGED <<lock, copy, misread>>

(* unlocked on every way out                                                *)
RevertDone == Release("main") /\ mainAt' = "idle" /\ target' = 0

Execute ==
  /\ mainAt = "execute"
  /\ LET m == copy["main"][target] IN
       \/ Undo(m) /\ mainAt' = "save" /\ Fine /\ UNCHANGED <<lock, copy, misread, target>>
       \/ UndoFails(m) /\ RevertDone
  /\ fix' = [fix EXCEPT !.quiet = @ /\ at = "idle"]
  /\ UNCHANGED <<manifest, at, confOK, needs, left, entry, result, fixes, before, lost, timedOut>>

Inactive == [copy["main"] EXCEPT ![target].active = FALSE]

(* a save that fails leaves the entry active though it is undone            *)
SaveRevert ==
  /\ mainAt = "save" /\ RevertDone
  /\ \/ manifest' = Inactive /\ Fine
     \/ Fault /\ UNCHANGED manifest
  /\ UNCHANGED <<system, worker, fixes, history>>

Revert == Execute \/ SaveRevert

-----------------------------------------------------------------------------

(* The daemon is stopped: the kernel drops the lock with the process        *)
Stop ==
  /\ Fault /\ (at # "idle" \/ mainAt # "idle")
  /\ lost' = IF at \in {"record", "save"} THEN lost \cup {entry.target} ELSE lost
  /\ IF at = "idle" THEN UNCHANGED worker ELSE End("none")
  /\ mainAt' = "idle" /\ target' = 0
  /\ lock' = "none" /\ copy' = [w \in Writer |-> <<>>] /\ misread' = FALSE
  /\ UNCHANGED <<system, manifest, fixes, before, timedOut>>

Next ==
  \/ \E kind \in {"suspend", "hibernate"}, profile \in Profiles : Begin(kind, profile)
  \/ Worker
  \/ \E i \in DOMAIN manifest : RevertBegin(i)
  \/ Revert
  \/ Stop

Spec == Init /\ [][Next]_vars

(* Every subprocess the two run has a timeout; a writer that waits for the  *)
(* lock while the other takes it again and again gets it in the end.        *)
FairSpec == Spec /\ WF_vars(Worker) /\ SF_vars(Record) /\ WF_vars(Revert)

-----------------------------------------------------------------------------
(* Properties.                                                             *)

(* A writer that has loaded the manifest holds the lock, and what it is     *)
(* about to save over the manifest continues the manifest.                  *)
LockInv ==
  /\ at = "save" => lock = "worker" /\ (misread \/ copy["worker"] = manifest)
  /\ mainAt # "idle" => lock = "main" /\ copy["main"] = manifest /\ target \in DOMAIN manifest
  /\ at = "switch" => entry.target \in Service

(* What an entry says, apart from being active *)
Facts(m) == [m EXCEPT !.active = TRUE]

(* An entry is only ever appended, and changes only by becoming inactive.   *)
Continues(old, new) ==
  /\ Len(new) \in {Len(old), Len(old) + 1}
  /\ \A i \in DOMAIN old :
       /\ Facts(new[i]) = Facts(old[i])
       /\ new[i].active => old[i].active

(* The two writers' load and save overlap only if the file lock fails them: *)
(* no record is lost, reordered, rewritten or made active again, unless the *)
(* manifest could not be read (_load then starts fresh).                    *)
HistoryKept == [][~misread => Continues(manifest, manifest')]_vars

Recorded(t) == \E i \in DOMAIN manifest : manifest[i].active /\ manifest[i].target = t
InFlight(t) == at \in {"record", "save"} /\ entry.target = t
OneKind(t)  == \A i, j \in DOMAIN manifest :
                 manifest[i].target = t /\ manifest[j].target = t => manifest[i].type = manifest[j].type
Differs(t)  == IF t = "conf" THEN before.conf = "absent" /\ conf # "absent"
               ELSE OneKind(t) /\ (t \in enabled) # (t \in before.enabled)

(* Whatever Verde has changed can be found: a service that is not as it was *)
(* before Verde, or a configuration where there was none, has an active     *)
(* entry or is just being recorded, unless a crash, a failed command, save, *)
(* load or query came in between.  (Services switched both ways, and a file *)
(* that was there before, do not qualify: they are not put back.)           *)
OnTheBooks == \A t \in (Service \ timedOut) \cup {"conf"} :
                Differs(t) => Recorded(t) \/ InFlight(t) \/ t \in lost

Applied ==
  /\ IF Standard THEN (IF fix.kind = "suspend" THEN Service ELSE {Hibernate}) \subseteq enabled
     ELSE enabled \subseteq timedOut
  /\ fix.kind = "hibernate" => conf \in {fix.profile, fix.seen} /\ initramfs' = conf

(* A fix that reports success has put services, configuration and initramfs *)
(* in the state its profile calls for, whatever an earlier fix or a stop    *)
(* left half done, if no revert ran meanwhile and no query timed out.  Only *)
(* where the display was detected twice, with two answers, may a standard   *)
(* hibernate fix leave and build in what the second answer calls for.       *)
FixEffective == [][at # "idle" /\ result' = "ok" /\ fix.quiet => Applied]_vars

(* A fix that has begun ends, though reverts take the lock in between.      *)
EveryFixEnds == at # "idle" ~> at = "idle"

=============================================================================
