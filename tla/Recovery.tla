------------------------------ MODULE Recovery ------------------------------
(***************************************************************************)
(* Getting a driver back that is installed and does not load: the degraded  *)
(* state the daemon reports, the module doctor behind the dashboard's Fix   *)
(* button, and the recovery console (verde-daemon --repair), a process of   *)
(* its own that shares nothing with the daemon but the machine.             *)
(*                                                                         *)
(* A step is one subprocess or one file, and any of them may fail, once or  *)
(* every time: a module that does not build for the kernel, a program that  *)
(* is not installed, a machine without a network.  What a query that does   *)
(* not answer means, each caller reads its own way.  Versions, progress and *)
(* wording are left out; of two kernels, "new" is the one the distribution  *)
(* ships now.                                                               *)
(***************************************************************************)
EXTENDS Naturals, FiniteSets, Sequences

CONSTANTS
  Packages,   \* what may be installed at first: none, dkms, plain (prebuilt
              \* modules), bare (plain, and no dkms program)
  Secures,    \* Secure Boot: off, enrolled, unenrolled
  Snapshots,  \* what the console finds: none, whole, damaged, empty
  MaxBoots,   \* bound: reboots
  MaxVisits,  \* bound: starts of the console
  MaxFaults   \* bound: failures of the console's steps, apt killed, a GPU lost

ASSUME RecoveryConstants ==
  /\ Packages \subseteq {"none", "dkms", "plain", "bare"}
  /\ Secures \subseteq {"off", "enrolled", "unenrolled"}
  /\ Snapshots \subseteq {"none", "whole", "damaged", "empty"}
  /\ MaxBoots \in Nat /\ MaxVisits \in Nat /\ MaxFaults \in Nat

Kernels == {"old", "new"}
Modules == {"nvidia", "nvidia_drm", "nouveau"}
Queries == {"headers", "dkms", "apt", "sb", "mok"}
Checks  == {"sb", "audit", "dkms"}

VARIABLES
  package,   \* the NVIDIA driver package
  headers,   \* the kernels whose headers are installed
  built,     \* the kernels dkms lists the module as installed for
  kernels,   \* the kernels installed
  kernel,    \* the one that runs
  repo,      \* the kernels whose headers the repositories have
  secure, snapshot,
  dpkg,      \* clean or broken
  marker,    \* an interrupted operation's marker is there
  ban,       \* the modules blacklisted in /etc/modprobe.d
  image,     \* the same in the initramfs
  loaded,    \* nvidia, nouveau or none
  gpu,       \* the GPU answers
  nvml,      \* _nvml: no library, loaded (lib), initialized (ready)
  installed, \* _driver_installed
  available, \* _last_gpu_available
  degraded,  \* _current_degraded_state
  shown,     \* the dashboard's dialog: the cause it offers to fix, or no_fix
  fix,       \* the worker of FixModuleNotLoaded: its step
  cause,     \* and the cause it has diagnosed
  reboot,    \* RebootRequired was sent
  console,   \* the console's step
  boots, visits, faults,
  told,      \* history: the cause reported fixed, and what has become of it
  fell       \* history: how far an undisturbed nouveau fallback is

disk   == <<package, headers, built, kernels, dpkg, marker>>
given  == <<repo, secure, snapshot>>
lists  == <<ban, image>>
daemon == <<nvml, installed, available, degraded>>
worker == <<fix, cause>>
bounds == <<boots, visits>>
notes  == <<told, fell>>
vars   == <<disk, given, lists, kernel, loaded, gpu, daemon, shown, worker, reboot,
            console, bounds, faults, notes>>

Fault == faults < MaxFaults /\ faults' = faults + 1
-----------------------------------------------------------------------------
(* ModuleDoctor.diagnose: the first check that applies names the cause. *)

CheckOrder == <<"missing_headers", "dkms_missing", "dkms_failed",
                "kernel_mismatch", "secure_boot", "blacklisted", "unknown">>

\* dpkg-query late or failing reads as headers that are not there.
NoHeaders(late) == "headers" \in late \/ kernel \notin headers
\* Nothing is known where there is no dkms.
Unregistered(late) == "dkms" \notin late /\ package \in {"none", "plain"}
Unbuilt(late) == "dkms" \notin late /\ package = "dkms" /\ kernel \notin built
Foreign(late) == "apt" \notin late /\ kernel \notin repo
\* An enrolment that cannot be looked up counts as none.
Unsigned(late) == "sb" \notin late /\ secure # "off" /\ ("mok" \in late \/ secure = "unenrolled")
Blacklisted == "nvidia" \in ban

Applies(c, late) ==
  \/ c = "missing_headers" /\ NoHeaders(late)
  \/ c = "dkms_missing"    /\ Unregistered(late)
  \/ c = "dkms_failed"     /\ Unbuilt(late)
  \/ c = "kernel_mismatch" /\ Foreign(late)
  \/ c = "secure_boot"     /\ Unsigned(late)
  \/ c = "blacklisted"     /\ Blacklisted
  \/ c = "unknown"

Diagnose(late) ==
  LET found == {i \in DOMAIN CheckOrder : Applies(CheckOrder[i], late)}
  IN  CheckOrder[CHOOSE i \in found : \A j \in found : i <= j]

\* What it may say: any of its queries may answer late or fail.
Findings == {Diagnose(late) : late \in SUBSET Queries}
Fixable  == {"missing_headers", "dkms_failed", "kernel_mismatch", "blacklisted"}
-----------------------------------------------------------------------------
(* The daemon's idea of the GPU. *)

\* detect_degraded_state; counted says that NVML counts a device.
NotLoaded(known) == IF known THEN "driver_not_loaded" ELSE "no_driver"
Detect(lib, module, known, counted) ==
  CASE module = "nouveau" -> "nouveau_active"
    [] module = "none"    -> NotLoaded(known)
    [] module = "nvidia" /\ lib = "none"               -> "nvml_unavailable"
    [] module = "nvidia" /\ lib # "none" /\ ~counted   -> "no_gpu"
    [] module = "nvidia" /\ lib # "none" /\ counted    -> "normal"

\* VerdeService.__init__: the library, the package and the first state.
DaemonUp(module) ==
  LET lib == CASE package = "none" -> "none"
               [] package # "none" /\ module = "nvidia" /\ gpu -> "ready"
               [] OTHER -> "lib"
  IN  /\ nvml' = lib
      /\ installed' = (package # "none")
      /\ available' = (lib = "ready")
      /\ degraded' = Detect(lib, module, package # "none", lib = "ready")

\* A reboot ends both programs.  A module loads unless it is blacklisted in the
\* initramfs and on the disk: udev asks twice.
Runs(m, k) ==
  \/ m = "nouveau"
  \/ m = "nvidia" /\ package = "dkms"  /\ k \in built /\ secure # "unenrolled"
  \/ m = "nvidia" /\ package \in {"plain", "bare"} /\ k \in repo
Bootable(k) == {m \in {"nvidia", "nouveau"} : gpu /\ Runs(m, k) /\ m \notin ban \cap image}
Newest == IF "new" \in kernels THEN "new" ELSE "old"
Driver(k) == IF Bootable(k) = {} THEN {"none"} ELSE Bootable(k)

Init ==
  /\ package \in Packages /\ secure \in Secures /\ snapshot \in Snapshots
  /\ kernels = {"old"} /\ kernel = "old"
  /\ headers \in SUBSET kernels
  /\ built \in SUBSET headers /\ (package # "dkms" => built = {})
  /\ repo \in {Kernels, {"new"}}
  /\ dpkg \in {"clean", "broken"} /\ marker = (dpkg = "broken")
  /\ ban \in {{"nouveau"}, {"nouveau", "nvidia"}} /\ image = ban
  /\ gpu = TRUE
  /\ loaded \in Driver(kernel)
  /\ nvml = "none" /\ installed = FALSE /\ available = FALSE /\ degraded = "off"
  /\ shown = "none" /\ fix = "idle" /\ cause = "none" /\ reboot = FALSE
  /\ console = "off"
  /\ boots = 0 /\ visits = 0 /\ faults = 0
  /\ told = <<"none", "none">> /\ fell = "no"

\* The daemon starts on a client's call, and again after its idle exit.
StartDaemon ==
  /\ fix = "idle" /\ DaemonUp(loaded)
  /\ UNCHANGED <<disk, given, lists, kernel, loaded, gpu, shown, worker, reboot,
                 console, bounds, faults, notes>>

\* A report of a fix that asks for a reboot is put to the test by the reboot.
AfterBoot == IF told[2] = "asked" THEN <<told[1], "booted">> ELSE <<"none", "none">>
Boot ==
  /\ boots < MaxBoots /\ boots' = boots + 1
  /\ kernel' = Newest
  /\ loaded' \in Driver(Newest)
  /\ DaemonUp(loaded')
  /\ marker' = (marker /\ dpkg = "broken")
  /\ shown' = "none" /\ fix' = "idle" /\ cause' = "none" /\ reboot' = FALSE
  /\ console' = "off" /\ fell' = "no" /\ told' = AfterBoot
  /\ UNCHANGED <<package, headers, built, kernels, dpkg, given, lists, gpu, visits, faults>>

\* The GPU of a loaded driver no longer answers.
LoseGpu ==
  /\ gpu /\ loaded = "nvidia" /\ Fault /\ gpu' = FALSE
  /\ told' = <<"none", "none">>
  /\ UNCHANGED <<disk, given, lists, kernel, loaded, daemon, shown, worker, reboot,
                 console, bounds, fell>>

\* _poll_and_emit.  NVML was initialized at the start or never.
Poll ==
  /\ degraded # "off"
  /\ available' = (nvml = "ready" /\ gpu)
  /\ \E counted \in BOOLEAN :
       /\ counted => nvml = "ready"
       /\ nvml = "ready" /\ gpu => counted
       /\ degraded' = IF available /\ ~available' THEN "gpu_lost"
                      ELSE Detect(nvml, loaded, installed, counted)
  /\ UNCHANGED <<disk, given, lists, kernel, loaded, gpu, nvml, installed, shown, worker,
                 reboot, console, bounds, faults, notes>>
-----------------------------------------------------------------------------
(* The dashboard. *)

\* Fix: DiagnoseModuleFailure, and a dialog with what it found.
Dialog(c) == IF c \in Fixable THEN c ELSE "no_fix"
ClickFix ==
  /\ degraded = "driver_not_loaded" /\ shown = "none"
  /\ \E c \in Findings : shown' = Dialog(c)
  /\ UNCHANGED <<disk, given, lists, kernel, loaded, gpu, daemon, worker, reboot,
                 console, bounds, faults, notes>>

CloseDialog ==
  /\ shown # "none" /\ shown' = "none"
  /\ UNCHANGED <<disk, given, lists, kernel, loaded, gpu, daemon, worker, reboot,
                 console, bounds, faults, notes>>

Offered == shown \in Fixable
ConfirmFix ==
  /\ Offered /\ shown' = "none"
  /\ fix = "idle" /\ fix' = "diagnose" /\ cause' = "none"
  /\ UNCHANGED <<disk, given, lists, kernel, loaded, gpu, daemon, reboot,
                 console, bounds, faults, notes>>
-----------------------------------------------------------------------------
(* FixModuleNotLoaded, in its worker. *)

Goes(step) == fix' = step
NoReport == told' = <<"none", "none">>

\* The worker diagnoses anew: the dialog may have shown another cause.
FirstStep ==
  [c \in Fixable |-> CASE c = "dkms_failed" -> "dkms" [] c = "blacklisted" -> "unban" [] OTHER -> "apt"]
FixDiagnose ==
  /\ fix = "diagnose"
  /\ cause' \in Findings
  /\ Goes(IF cause' \in Fixable THEN FirstStep[cause'] ELSE "failed")
  /\ told' = <<cause', "working">>
  /\ UNCHANGED <<disk, given, lists, kernel, loaded, gpu, daemon, shown, reboot,
                 console, bounds, faults, fell>>

\* apt-get install of the headers, or of the current kernel with its headers.
\* The packages' own hooks may build the module, and rebuild the initramfs.
Wanted == IF cause = "kernel_mismatch" THEN {"new"} ELSE {kernel}
Hooked(ks) == {built} \cup (IF package = "dkms" THEN {built \cup ks} ELSE {})
FixApt ==
  /\ fix = "apt"
  /\ dpkg = "clean" /\ Wanted \subseteq repo
  /\ headers' = headers \cup Wanted
  /\ kernels' = kernels \cup Wanted
  /\ built' \in Hooked(Wanted)
  /\ image' \in (IF cause = "kernel_mismatch" THEN {image, ban} ELSE {image})
  /\ Goes("dkms")
  /\ UNCHANGED <<package, dpkg, marker, given, ban, kernel, loaded, gpu, daemon, shown,
                 cause, reboot, console, bounds, faults, notes>>

\* It fails, as it must when the repositories do not have the packages, when
\* dpkg was interrupted, and when the console's apt has the lock.
FixAptFails ==
  /\ fix = "apt" /\ Goes("failed")
  /\ UNCHANGED <<disk, given, lists, kernel, loaded, gpu, daemon, shown, cause, reboot,
                 console, bounds, faults, notes>>

\* The timeout kills apt, and dpkg with it.
FixAptKilled ==
  /\ fix = "apt" /\ dpkg = "clean" /\ Fault
  /\ dpkg' = "broken" /\ Goes("failed")
  /\ UNCHANGED <<package, headers, built, kernels, marker, given, lists, kernel, loaded,
                 gpu, daemon, shown, cause, reboot, console, bounds, notes>>

\* dkms autoinstall, for the kernel that runs.
AfterDkms == IF cause = "kernel_mismatch" THEN "reboot" ELSE "modprobe"
\* Mutant: the module is not built, and the result not looked at.
LeavesUnbuilt == built
Rebuilt == IF package = "dkms" THEN built \cup {kernel} ELSE built
FixDkms ==
  /\ fix = "dkms" /\ kernel \in headers /\ package # "bare"
  /\ built' = Rebuilt
  /\ Goes(AfterDkms)
  /\ UNCHANGED <<package, headers, kernels, dpkg, marker, given, lists, kernel, loaded, gpu,
                 daemon, shown, cause, reboot, console, bounds, faults, notes>>

\* The module does not build for this kernel, the build times out, or there is
\* no dkms.
FixDkmsFails ==
  /\ fix = "dkms" /\ Goes("failed")
  /\ UNCHANGED <<disk, given, lists, kernel, loaded, gpu, daemon, shown, cause, reboot,
                 console, bounds, faults, notes>>

\* The lines that match "blacklist nvidia" as a word are commented out; the
\* console's other lines stay, and so does the initramfs.
Unbanned == {"nvidia"}
FixUnban ==
  /\ fix = "unban"
  /\ ban' = ban \ Unbanned
  /\ Goes("modprobe") /\ fell' = "no"
  /\ UNCHANGED <<disk, given, image, kernel, loaded, gpu, daemon, shown, cause, reboot,
                 console, bounds, faults, told>>

\* The file is opened for writing, which empties it, before it is written.
FixUnbanFails ==
  /\ fix = "unban"
  /\ ban' \in {ban, ban \ {"nvidia", "nvidia_drm"}}
  /\ Goes("failed") /\ fell' = "no"
  /\ UNCHANGED <<disk, given, image, kernel, loaded, gpu, daemon, shown, cause, reboot,
                 console, bounds, faults, told>>

\* modprobe nvidia: a blacklist does not keep it from a module named in full.
Takes == gpu /\ loaded # "nouveau" /\ Runs("nvidia", kernel)
FixModprobe ==
  /\ fix = "modprobe" /\ (loaded = "nvidia" \/ Takes)
  /\ loaded' = "nvidia" /\ Goes("done")
  /\ UNCHANGED <<disk, given, lists, kernel, gpu, daemon, shown, cause, reboot,
                 console, bounds, faults, notes>>

\* Mutant: the result of modprobe is not looked at.
RefusalIgnored == "done"
AfterRefusal == "failed"
FixModprobeFails ==
  /\ fix = "modprobe" /\ Goes(AfterRefusal)
  /\ UNCHANGED <<disk, given, lists, kernel, loaded, gpu, daemon, shown, cause, reboot,
                 console, bounds, faults, notes>>

\* OperationComplete, RebootRequired if need be, and the slot is free.
Report(how) == told' = IF told[2] = "working" THEN <<cause, how>> ELSE <<"none", "none">>
FixReports ==
  /\ fix \in {"done", "reboot", "failed"}
  /\ CASE fix = "done"   -> Report("fixed")
       [] fix = "reboot" -> Report("asked")
       [] fix = "failed" -> NoReport
  /\ reboot' = (reboot \/ fix = "reboot")
  /\ fix' = "idle" /\ cause' = "none"
  /\ UNCHANGED <<disk, given, lists, kernel, loaded, gpu, daemon, shown,
                 console, bounds, faults, fell>>
-----------------------------------------------------------------------------
(* The recovery console. *)

\* The checks.  A late dpkg or dkms counts as an issue, a late mokutil as none;
\* whether a key is enrolled is not asked.
NvmlMissing         == package = "none" \/ loaded # "nvidia"
MokSuspect(late)    == secure # "off" /\ "sb" \notin late
DpkgSuspect(late)   == dpkg = "broken" \/ "audit" \in late
DkmsSuspect(late)   == "dkms" \in late \/ (package = "dkms" /\ built = {})
Healthy(late) == ~(NvmlMissing \/ MokSuspect(late) \/ DpkgSuspect(late) \/ marker \/ DkmsSuspect(late))

Visit == console = "off" /\ visits < MaxVisits /\ visits' = visits + 1
StartConsole ==
  /\ Visit
  /\ \E late \in SUBSET Checks : console' = IF Healthy(late) THEN "off" ELSE "menu"
  /\ UNCHANGED <<disk, given, lists, kernel, loaded, gpu, daemon, shown, worker, reboot,
                 boots, faults, notes>>

Leave ==
  /\ console = "menu" /\ console' = "off"
  /\ UNCHANGED <<disk, given, lists, kernel, loaded, gpu, daemon, shown, worker, reboot,
                 bounds, faults, notes>>

\* A snapshot that fails its integrity check goes on if the user says so; one
\* without packages ends there.
Listed == snapshot # "none"
AfterConfirm == IF snapshot = "empty" THEN "off" ELSE "apt"
ChooseRollback ==
  /\ console = "menu" /\ Listed
  /\ console' = AfterConfirm
  /\ UNCHANGED <<disk, given, lists, kernel, loaded, gpu, daemon, shown, worker, reboot,
                 bounds, faults, notes>>

\* --rollback <id>: no diagnosis; --yes takes a damaged snapshot too.
CommandRollback ==
  /\ Visit /\ Listed
  /\ console' \in {AfterConfirm} \cup (IF snapshot = "damaged" THEN {"off"} ELSE {})
  /\ UNCHANGED <<disk, given, lists, kernel, loaded, gpu, daemon, shown, worker, reboot,
                 boots, faults, notes>>

\* The snapshot's packages, whose hooks build what they can; what else is
\* installed stays.
RollbackApt ==
  /\ console = "apt" /\ dpkg = "clean"
  /\ package' = "dkms" /\ built' \in SUBSET headers
  /\ console' = "initrd" /\ NoReport
  /\ UNCHANGED <<headers, kernels, dpkg, marker, given, lists, kernel, loaded, gpu, daemon,
                 shown, worker, reboot, bounds, faults, fell>>

RollbackAptFails ==
  /\ console = "apt"
  /\ IF dpkg = "broken" \/ fix = "apt" THEN UNCHANGED <<faults, dpkg>>
     ELSE Fault /\ dpkg' \in {"clean", "broken"}
  /\ console' = "off" /\ NoReport
  /\ UNCHANGED <<package, headers, built, kernels, marker, given, lists, kernel, loaded, gpu,
                 daemon, shown, worker, reboot, bounds, fell>>

\* Nobody looks whether update-initramfs did it.
RollbackImage ==
  /\ console = "initrd"
  /\ \/ image' = ban /\ UNCHANGED faults
     \/ image' = image /\ Fault
  /\ console' = "off"
  /\ UNCHANGED <<disk, given, ban, kernel, loaded, gpu, daemon, shown, worker, reboot,
                 bounds, notes>>

\* execute_nouveau_fallback, once modinfo has found the module.
ChooseNouveau ==
  /\ console = "menu"
  /\ \/ console' = "ban" /\ UNCHANGED faults
     \/ console' = "off" /\ Fault
  /\ UNCHANGED <<disk, given, lists, kernel, loaded, gpu, daemon, shown, worker, reboot,
                 bounds, notes>>

Banned == {"nvidia", "nvidia_drm"}
NouveauBan ==
  /\ console = "ban"
  /\ \/ ban' = ban \cup Banned /\ console' = "unban" /\ UNCHANGED faults
     \/ ban' = ban /\ console' = "off" /\ Fault
  /\ fell' = IF console' = "unban" THEN "writing" ELSE "no"
  /\ NoReport
  /\ UNCHANGED <<disk, given, image, kernel, loaded, gpu, daemon, shown, worker, reboot, bounds>>

\* A file that cannot be rewritten is passed over.
NouveauUnban ==
  /\ console = "unban" /\ console' = "image"
  /\ \/ ban' = ban \ {"nouveau"} /\ UNCHANGED faults
     \/ ban' = ban /\ Fault
  /\ UNCHANGED <<disk, given, image, kernel, loaded, gpu, daemon, shown, worker, reboot,
                 bounds, notes>>

\* update-initramfs -u.  Mutant: it is not run.
ImageAsItWas == image
FreshImage == ban

\* "Nouveau fallback applied. Reboot now."
NouveauImage ==
  /\ console = "image" /\ console' = "off"
  /\ \/ image' = FreshImage /\ UNCHANGED faults /\ fell' = IF fell = "writing" THEN "done" ELSE "no"
     \/ image' = image /\ Fault /\ fell' = "no"
  /\ UNCHANGED <<disk, given, ban, kernel, loaded, gpu, daemon, shown, worker, reboot, bounds, told>>
-----------------------------------------------------------------------------
World  == StartDaemon \/ Boot \/ LoseGpu \/ Poll
Dashboard == ClickFix \/ CloseDialog \/ ConfirmFix
Worker == \/ FixDiagnose \/ FixApt \/ FixAptFails \/ FixAptKilled \/ FixDkms \/ FixDkmsFails
          \/ FixUnban \/ FixUnbanFails \/ FixModprobe \/ FixModprobeFails \/ FixReports
Console == \/ StartConsole \/ Leave \/ ChooseRollback \/ CommandRollback
           \/ RollbackApt \/ RollbackAptFails
           \/ RollbackImage \/ ChooseNouveau \/ NouveauBan \/ NouveauUnban \/ NouveauImage
Next == World \/ Dashboard \/ Worker \/ Console
Spec == Init /\ [][Next]_vars
-----------------------------------------------------------------------------
\* A fix that reports success, in a machine nobody else has touched since its
\* diagnosis, has removed the cause it found: the doctor would not name it
\* again, whatever queries but dpkg-query fail it, and the module is loaded, or
\* will not meet that cause after the reboot that was asked for
\* (module_doctor.py:382-427, 453-492).
Gone(c) == \A late \in SUBSET (Queries \ {"headers"}) : Diagnose(late) # c
FixDelivers ==
  /\ told[2] = "fixed"  => loaded = "nvidia" /\ Gone(told[1])
  /\ told[2] = "booted" => Gone(told[1])

\* After a nouveau fallback that reported success, with no fix of the daemon
\* in between, the machine never comes up on the NVIDIA driver
\* (cli_recovery.py:307-376).
FallbackHolds == [][Boot => (fell = "done" => loaded' # "nvidia")]_vars

\* A fix is offered, confirmed and offered again for ever only when it waits
\* for the reboot it asked for, when what it does fails again and again (apt,
\* the DKMS build, the rewriting of the blacklist), or when queries that do not
\* answer mislead the doctor again and again.  Where these succeed it comes to
\* an end, though modprobe may refuse every time (module_doctor.py:88-124,
\* 382-575; views/dashboard.py:713-752).
Fails  == FixAptFails \/ FixAptKilled \/ FixDkmsFails \/ FixUnbanFails
Misled == \/ shown' # shown /\ shown' \notin {"none", Dialog(Diagnose({}))}
          \/ cause' # cause /\ cause' \notin {"none", Diagnose({})}
NoEndlessFix == []<><<ConfirmFix /\ ~reboot>>_vars => []<><<Fails \/ Misled>>_vars
=============================================================================
