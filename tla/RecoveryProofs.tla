--------------------------- MODULE RecoveryProofs ---------------------------
(***************************************************************************)
(* Proofs about Recovery, for any packages, Secure Boot settings and        *)
(* snapshots, and any number of reboots, visits to the console and faults:  *)
(* a reported nouveau fallback holds, and a reported fix has removed its     *)
(* cause.                                                                   *)
(***************************************************************************)
EXTENDS Recovery, TLAPS

(* Why FallbackHolds is so: the blacklist is there before the initramfs is  *)
(* rebuilt, and the reported fallback has it in both; a reboot may forget   *)
(* the fallback but takes nothing from either list.                         *)
FallbackInv ==
  /\ fell \in {"writing", "done"} => "nvidia" \in ban
  /\ fell = "done" => "nvidia" \in image

LEMMA InitFallback == Init => FallbackInv
BY DEF Init, FallbackInv

(* Only a fix takes the NVIDIA driver off the blacklist, and then it is no  *)
(* undisturbed fallback any more.                                           *)
LEMMA FixKeepsFallback ==
  ASSUME FallbackInv, Worker
  PROVE  FallbackInv'
<1>1. CASE FixDiagnose
  BY <1>1 DEF FallbackInv, FixDiagnose, lists
<1>2. CASE FixApt
  BY <1>2 DEF FallbackInv, FixApt, notes
<1>3. CASE FixAptFails \/ FixAptKilled
  BY <1>3 DEF FallbackInv, FixAptFails, FixAptKilled, lists, notes
<1>4. CASE FixDkms \/ FixDkmsFails
  BY <1>4 DEF FallbackInv, FixDkms, FixDkmsFails, lists, notes
<1>5. CASE FixUnban \/ FixUnbanFails
  BY <1>5 DEF FallbackInv, FixUnban, FixUnbanFails
<1>6. CASE FixModprobe \/ FixModprobeFails
  BY <1>6 DEF FallbackInv, FixModprobe, FixModprobeFails, lists, notes
<1>7. CASE FixReports
  BY <1>7 DEF FallbackInv, FixReports, lists
<1> QED
  BY <1>1, <1>2, <1>3, <1>4, <1>5, <1>6, <1>7 DEF Worker

(* The console's own steps: the blacklist is written first, and whatever it *)
(* does not manage is no fallback.                                          *)
LEMMA ConsoleKeepsFallback ==
  ASSUME FallbackInv, Console
  PROVE  FallbackInv'
<1>1. CASE StartConsole \/ Leave \/ ChooseRollback \/ CommandRollback \/ ChooseNouveau
  BY <1>1 DEF FallbackInv, StartConsole, Leave, ChooseRollback, CommandRollback, ChooseNouveau, lists, notes
<1>2. CASE RollbackApt \/ RollbackAptFails
  BY <1>2 DEF FallbackInv, RollbackApt, RollbackAptFails, lists
<1>3. CASE RollbackImage
  BY <1>3 DEF FallbackInv, RollbackImage, notes
<1>4. CASE NouveauBan
  BY <1>4 DEF FallbackInv, NouveauBan, Banned
<1>5. CASE NouveauUnban
  BY <1>5 DEF FallbackInv, NouveauUnban, notes
<1>6. CASE NouveauImage
  BY <1>6 DEF FallbackInv, NouveauImage, FreshImage
<1> QED
  BY <1>1, <1>2, <1>3, <1>4, <1>5, <1>6 DEF Console

LEMMA StepFallback == FallbackInv /\ [Next]_vars => FallbackInv'
<1> SUFFICES ASSUME FallbackInv, [Next]_vars
             PROVE  FallbackInv'
  OBVIOUS
<1>1. CASE World
  BY <1>1 DEF FallbackInv, World, StartDaemon, Boot, LoseGpu, Poll, lists, notes
<1>2. CASE Dashboard
  BY <1>2 DEF FallbackInv, Dashboard, ClickFix, CloseDialog, ConfirmFix, lists, notes
<1>3. CASE UNCHANGED vars
  BY <1>3 DEF FallbackInv, vars, lists, notes
<1> QED
  BY <1>1, <1>2, <1>3, FixKeepsFallback, ConsoleKeepsFallback DEF Next

(* What may come up at the next boot does not include a banned driver.      *)
LEMMA BannedStaysOut ==
  ASSUME "nvidia" \in ban \cap image, NEW k, NEW m \in Driver(k)
  PROVE  m # "nvidia"
<1>1. "nvidia" \notin Bootable(k)
  BY DEF Bootable
<1> QED
  BY <1>1 DEF Driver

LEMMA BootKeepsOut == FallbackInv /\ Boot => (fell = "done" => loaded' # "nvidia")
<1> SUFFICES ASSUME FallbackInv, Boot, fell = "done"
             PROVE  loaded' # "nvidia"
  OBVIOUS
<1>1. "nvidia" \in ban \cap image
  BY DEF FallbackInv
<1>2. loaded' \in Driver(Newest)
  BY DEF Boot
<1> QED
  BY <1>1, <1>2, BannedStaysOut

(* A reported fallback keeps the NVIDIA driver away at the next boot        *)
(* (cli_recovery.py:307-376), whatever the daemon and apt do meanwhile.     *)
THEOREM FallbackHoldsCorrect == Spec => FallbackHolds
<1>1. FallbackInv /\ [Next]_vars => [Boot => (fell = "done" => loaded' # "nvidia")]_vars
  BY BootKeepsOut
<1>2. Spec => []FallbackInv
  BY InitFallback, StepFallback, PTL DEF Spec
<1> QED
  BY <1>1, <1>2, PTL DEF Spec, FallbackHolds

-----------------------------------------------------------------------------
(* A reported fix has removed its cause.                                    *)

(* The doctor names a cause whose check applies: the list ends with one     *)
(* that always does.                                                        *)
LEMMA DiagnoseApplies == \A late : Applies(Diagnose(late), late)
<1> SUFFICES ASSUME NEW late PROVE Applies(Diagnose(late), late)
  OBVIOUS
<1> DEFINE C == CheckOrder
           found == {i \in DOMAIN C : Applies(C[i], late)}
           first(i) == i \in found /\ \A j \in found : i <= j
<1>1. DOMAIN C = 1..7 /\ C[7] = "unknown"
  BY DEF CheckOrder
<1>2. found \subseteq 1..7 /\ 7 \in found
  BY <1>1 DEF Applies
<1>3. Diagnose(late) = C[CHOOSE i \in found : \A j \in found : i <= j]
  BY DEF Diagnose
<1>4. \A i \in found : Applies(C[i], late)
  OBVIOUS
<1> HIDE DEF C, found
<1>5. \E i \in 1..7 : first(i)
  <2>1. CASE 1 \in found
    BY <1>2, <2>1
  <2>2. CASE 1 \notin found /\ 2 \in found
    BY <1>2, <2>2
  <2>3. CASE 1 \notin found /\ 2 \notin found /\ 3 \in found
    BY <1>2, <2>3
  <2>4. CASE (\A j \in 1..3 : j \notin found) /\ 4 \in found
    BY <1>2, <2>4
  <2>5. CASE (\A j \in 1..4 : j \notin found) /\ 5 \in found
    BY <1>2, <2>5
  <2>6. CASE (\A j \in 1..5 : j \notin found) /\ 6 \in found
    BY <1>2, <2>6
  <2>7. CASE \A j \in 1..6 : j \notin found
    BY <1>2, <2>7
  <2> QED
    BY <2>1, <2>2, <2>3, <2>4, <2>5, <2>6, <2>7
<1>6. (CHOOSE i \in found : \A j \in found : i <= j) \in found
  BY <1>5
<1> QED
  BY <1>3, <1>4, <1>6

(* A cause is removed when its own check applies no more, all queries       *)
(* answered.                                                                *)
Cured(c) == c \in Fixable /\ ~Applies(c, {})

(* The kernel that a reboot will choose has its headers in the repositories.*)
FreshKernel == "new" \in kernels \cap repo

(* What each step of the worker knows of the cause it treats; the console   *)
(* may spoil what is done, and then there is nothing to report.             *)
Treating ==
  /\ fix = "apt"   => cause \in {"missing_headers", "kernel_mismatch"}
  /\ fix = "dkms"  => \/ cause = "dkms_failed"
                      \/ cause = "missing_headers" /\ kernel \in headers
                      \/ cause = "kernel_mismatch" /\ FreshKernel
  /\ fix = "unban" => cause = "blacklisted"
  /\ fix \in {"modprobe", "done"} => (told[2] = "working" => Cured(cause))
  /\ fix = "done"   => loaded = "nvidia"
  /\ fix = "reboot" => cause = "kernel_mismatch" /\ FreshKernel

(* What a report stands for.                                                *)
Telling ==
  /\ told[2] = "working" => fix \notin {"idle", "diagnose"}
  /\ told[2] \in {"fixed", "asked", "booted"} => fix \in {"idle", "diagnose"}
  /\ told[2] = "fixed"  => loaded = "nvidia" /\ Cured(told[1])
  /\ told[2] = "asked"  => told[1] = "kernel_mismatch" /\ FreshKernel
  /\ told[2] = "booted" => Cured(told[1])

CureInv == Treating /\ Telling

(* A check that applies while other queries fail applies when all answer.   *)
LEMMA CuredIsGone == ASSUME NEW c, Cured(c) PROVE Gone(c)
<1> SUFFICES ASSUME NEW late \in SUBSET (Queries \ {"headers"}), Diagnose(late) = c
             PROVE  FALSE
  BY DEF Gone
<1>1. Applies(c, late)
  BY DiagnoseApplies
<1>2. Applies(c, {})
  BY <1>1 DEF Applies, Cured, Fixable, NoHeaders, Unbuilt, Foreign, Unregistered, Unsigned, Blacklisted
<1> QED
  BY <1>2 DEF Cured

(* What leaves a cured machine cured.                                       *)
LEMMA CuredKept ==
  ASSUME NEW c, Cured(c), UNCHANGED <<kernel, package, given>>,
         headers \subseteq headers', built \subseteq built', "nvidia" \in ban' => "nvidia" \in ban
  PROVE  Cured(c)'
BY DEF Cured, Fixable, Applies, NoHeaders, Unregistered, Unbuilt, Foreign, Unsigned, Blacklisted, given

(* A step that goes on with the fix where it is.                            *)
LEMMA Undisturbed ==
  ASSUME CureInv, UNCHANGED <<kernel, package, kernels, given, headers, built, fix, cause, loaded, told>>,
         "nvidia" \in ban' => "nvidia" \in ban
  PROVE  CureInv'
<1>1. PICK c, d : c = cause /\ d = told[1]
  OBVIOUS
<1>2. (Cured(c) => Cured(c)') /\ (Cured(d) => Cured(d)')
  BY CuredKept
<1>3. FreshKernel => FreshKernel'
  BY DEF FreshKernel, given
<1> QED
  BY <1>1, <1>2, <1>3 DEF CureInv, Treating, Telling, Cured

(* A step of the console that spoils what was done: nothing is reported.    *)
LEMMA Spoiled ==
  ASSUME CureInv, UNCHANGED <<kernel, kernels, headers, given, fix, cause, loaded>>, NoReport
  PROVE  CureInv'
BY DEF CureInv, Treating, Telling, NoReport, FreshKernel, given

LEMMA WorldCures == ASSUME CureInv, World PROVE CureInv'
<1>1. CASE StartDaemon \/ Poll
  BY <1>1, Undisturbed DEF StartDaemon, Poll, disk, lists, worker, notes
<1>2. CASE LoseGpu
  BY <1>2, Spoiled DEF LoseGpu, NoReport, disk, lists, worker
<1>3. CASE Boot
  <2>1. fix' = "idle" /\ UNCHANGED <<kernels, given>> /\ kernel' = Newest
        /\ told' = IF told[2] = "asked" THEN <<told[1], "booted">> ELSE <<"none", "none">>
    BY <1>3 DEF Boot, AfterBoot
  <2>2. CASE told[2] = "asked"
    <3>1. told[1] = "kernel_mismatch" /\ FreshKernel
      BY <2>2 DEF CureInv, Telling
    <3>2. kernel' \in repo'
      BY <2>1, <3>1 DEF FreshKernel, Newest, given
    <3>3. Cured("kernel_mismatch")'
      BY <3>2 DEF Cured, Fixable, Applies, Foreign
    <3> QED
      BY <2>1, <2>2, <3>1, <3>3 DEF CureInv, Treating, Telling
  <2>3. CASE told[2] # "asked"
    BY <2>1, <2>3 DEF CureInv, Treating, Telling
  <2> QED
    BY <2>2, <2>3
<1> QED
  BY <1>1, <1>2, <1>3 DEF World

LEMMA DashboardCures == ASSUME CureInv, Dashboard PROVE CureInv'
<1>1. CASE ClickFix \/ CloseDialog
  BY <1>1, Undisturbed DEF ClickFix, CloseDialog, disk, lists, worker, notes
<1>2. CASE ConfirmFix
  <2>1. fix = "idle" /\ fix' = "diagnose" /\ UNCHANGED <<kernel, package, headers, built, kernels, ban, given, loaded, told>>
    BY <1>2 DEF ConfirmFix, disk, lists, notes
  <2>2. PICK d : d = told[1]
    OBVIOUS
  <2>3. Cured(d) => Cured(d)'
    BY <2>1, CuredKept
  <2> QED
    BY <2>1, <2>2, <2>3 DEF CureInv, Treating, Telling, Cured, FreshKernel, given
<1> QED
  BY <1>1, <1>2 DEF Dashboard

LEMMA ConsoleCures == ASSUME CureInv, Console PROVE CureInv'
<1>1. CASE StartConsole \/ Leave \/ ChooseRollback \/ CommandRollback \/ ChooseNouveau \/ RollbackImage
  BY <1>1, Undisturbed
     DEF StartConsole, Leave, ChooseRollback, CommandRollback, ChooseNouveau, RollbackImage, disk, lists, worker, notes
<1>2. CASE NouveauUnban \/ NouveauImage
  BY <1>2, Undisturbed DEF NouveauUnban, NouveauImage, disk, lists, worker, notes
<1>3. CASE RollbackApt \/ RollbackAptFails \/ NouveauBan
  BY <1>3, Spoiled DEF RollbackApt, RollbackAptFails, NouveauBan, disk, lists, worker
<1> QED
  BY <1>1, <1>2, <1>3 DEF Console

LEMMA WorkerCures == ASSUME CureInv, Worker PROVE CureInv'
<1>1. CASE FixDiagnose
  <2>1. /\ cause' \in Fixable => fix' = FirstStep[cause']
        /\ cause' \notin Fixable => fix' = "failed"
        /\ told' = <<cause', "working">>
    BY <1>1 DEF FixDiagnose, Goes
  <2>2. PICK c : c = cause'
    OBVIOUS
  <2>3. c \in Fixable => FirstStep[c] = CASE c = "dkms_failed" -> "dkms" [] c = "blacklisted" -> "unban" [] OTHER -> "apt"
    BY DEF FirstStep
  <2>4. /\ c \in {"missing_headers", "kernel_mismatch"} => fix' = "apt"
        /\ c = "dkms_failed" => fix' = "dkms"
        /\ c = "blacklisted" => fix' = "unban"
        /\ c \notin Fixable => fix' = "failed"
    BY <2>1, <2>2, <2>3 DEF Fixable
  <2>5. c \in Fixable => c \in {"missing_headers", "kernel_mismatch", "dkms_failed", "blacklisted"}
    BY DEF Fixable
  <2>6. told'[2] = "working"
    BY <2>1
  <2> QED
    BY <2>2, <2>4, <2>5, <2>6 DEF CureInv, Treating, Telling
<1>2. CASE FixApt
  <2>1. fix = "apt" /\ fix' = "dkms" /\ headers' = headers \cup Wanted /\ kernels' = kernels \cup Wanted
        /\ Wanted \subseteq repo /\ UNCHANGED <<kernel, given, cause, told>>
    BY <1>2 DEF FixApt, Goes, notes
  <2> QED
    BY <2>1 DEF CureInv, Treating, Telling, Wanted, FreshKernel, given
<1>3. CASE FixAptFails \/ FixAptKilled \/ FixDkmsFails \/ FixUnbanFails \/ FixModprobeFails
  BY <1>3 DEF FixAptFails, FixAptKilled, FixDkmsFails, FixUnbanFails, FixModprobeFails, AfterRefusal, Goes, notes,
              CureInv, Treating, Telling
<1>4. CASE FixDkms
  <2>1. fix = "dkms" /\ fix' = AfterDkms /\ built' = Rebuilt /\ UNCHANGED <<kernels, kernel, headers, package, given, cause, told>>
    BY <1>4 DEF FixDkms, Goes, notes
  <2>2. CASE cause = "kernel_mismatch"
    BY <2>1, <2>2 DEF CureInv, Treating, Telling, AfterDkms, FreshKernel, given
  <2>3. CASE cause = "missing_headers" /\ kernel \in headers
    <3>1. Cured("missing_headers")'
      BY <2>1, <2>3 DEF Cured, Fixable, Applies, NoHeaders
    <3> QED
      BY <2>1, <2>3, <3>1 DEF CureInv, Treating, Telling, AfterDkms
  <2>4. CASE cause = "dkms_failed"
    <3>1. Cured("dkms_failed")'
      BY <2>1 DEF Cured, Fixable, Applies, Unbuilt, Rebuilt
    <3> QED
      BY <2>1, <2>4, <3>1 DEF CureInv, Treating, Telling, AfterDkms
  <2> QED
    BY <2>1, <2>2, <2>3, <2>4 DEF CureInv, Treating
<1>5. CASE FixUnban
  <2>1. fix = "unban" /\ fix' = "modprobe" /\ ban' = ban \ {"nvidia"} /\ UNCHANGED <<cause, told>>
    BY <1>5 DEF FixUnban, Unbanned, Goes
  <2>2. Cured("blacklisted")'
    BY <2>1 DEF Cured, Fixable, Applies, Blacklisted
  <2> QED
    BY <2>1, <2>2 DEF CureInv, Treating, Telling
<1>6. CASE FixModprobe
  <2>1. fix = "modprobe" /\ fix' = "done" /\ loaded' = "nvidia"
        /\ UNCHANGED <<kernel, package, headers, built, ban, given, cause, told>>
    BY <1>6 DEF FixModprobe, Goes, disk, lists, notes
  <2>2. PICK c : c = cause
    OBVIOUS
  <2>3. Cured(c) => Cured(c)'
    BY <2>1, CuredKept
  <2> QED
    BY <2>1, <2>2, <2>3 DEF CureInv, Treating, Telling, Cured
<1>7. CASE FixReports
  <2>1. fix' = "idle" /\ UNCHANGED <<kernel, package, headers, built, kernels, ban, given, loaded>>
    BY <1>7 DEF FixReports, disk, lists
  <2>2. CASE told' = <<"none", "none">>
    BY <2>1, <2>2 DEF CureInv, Treating, Telling
  <2>3. CASE fix = "done" /\ told[2] = "working" /\ told' = <<cause, "fixed">>
    <3>1. PICK c : c = cause
      OBVIOUS
    <3>2. Cured(c)' /\ loaded' = "nvidia"
      BY <2>1, <2>3, <3>1, CuredKept DEF CureInv, Treating
    <3> QED
      BY <2>1, <2>3, <3>1, <3>2 DEF CureInv, Treating, Telling, Cured
  <2>4. CASE fix = "reboot" /\ told[2] = "working" /\ told' = <<cause, "asked">>
    BY <2>1, <2>4 DEF CureInv, Treating, Telling, FreshKernel, given
  <2> QED
    BY <1>7, <2>2, <2>3, <2>4 DEF FixReports, Report, NoReport
<1> QED
  BY <1>1, <1>2, <1>3, <1>4, <1>5, <1>6, <1>7 DEF Worker

LEMMA StepCures == CureInv /\ [Next]_vars => CureInv'
<1> SUFFICES ASSUME CureInv, [Next]_vars PROVE CureInv'
  OBVIOUS
<1>1. CASE UNCHANGED vars
  BY <1>1, Undisturbed DEF vars, disk, lists, worker, notes
<1> QED
  BY <1>1, WorldCures, DashboardCures, ConsoleCures, WorkerCures DEF Next

(* A fix that reports success has removed the cause it found: the module is *)
(* loaded or will not meet that cause after the reboot that was asked for,  *)
(* for any number of faults, reboots and visits to the console, as long as  *)
(* nobody else has changed the machine since (module_doctor.py:382-427 and  *)
(* 453-492).                                                                *)
THEOREM FixDeliversCorrect == Spec => []FixDelivers
<1>1. Init => CureInv
  BY DEF Init, CureInv, Treating, Telling
<1>2. CureInv => FixDelivers
  BY CuredIsGone DEF CureInv, Telling, FixDelivers
<1> QED
  BY <1>1, <1>2, StepCures, PTL DEF Spec
=============================================================================
