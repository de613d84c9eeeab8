------------------------ MODULE ModificationsProofs ------------------------
(***************************************************************************)
(* Proofs about Modifications, for any services, any machine found, and     *)
(* any number of fixes and faults: no modification is lost or rewritten,    *)
(* what Verde has changed is in the manifest, and a fix that reports        *)
(* success has taken effect.                                                *)
(***************************************************************************)
EXTENDS Modifications, TLAPS

IInv == TypeOK /\ LockInv

LEMMA UnitsTyped == Services \in Seq(Service) /\ Hibernate \in Service /\ "conf" \notin Service /\ "initramfs" \notin Service
<1>1. Services \in Seq(STRING) /\ Service = {Services[i] : i \in DOMAIN Services}
  BY ModificationConstants DEF Service, ToSet
<1> QED
  BY <1>1, ModificationConstants DEF Service

LEMMA NoEntryTyped == NoEntry \in Entry /\ [NoEntry EXCEPT !.active = TRUE] \in Entry
BY DEF NoEntry, Entry, Modification, None

(* Wherever a fix ends, the worker's variables have their types.            *)
LEMMA EndTyped ==
  ASSUME NEW outcome \in {"none", "ok", "failed"}, End(outcome)
  PROVE  WorkerTypes' /\ at' = "idle"
<1>1. NoFix \in [kind : {"suspend", "hibernate"}, profile : {"standard", "offload"},
               seen : {"standard", "offload"}, quiet : BOOLEAN]
  BY DEF NoFix
<1>2. <<>> \in Seq(Service)
  OBVIOUS
<1>3. NoEntry \in Entry
  BY NoEntryTyped
<1> QED
  BY <1>1, <1>2, <1>3 DEF End, WorkerTypes

LEMMA InitTyped == Init => IInv
<1> SUFFICES ASSUME Init PROVE IInv
  OBVIOUS
<1> USE DEF Init
<1>1. before \in [enabled : SUBSET Service, conf : Conf]
  BY ModificationConstants DEF Service, Conf
<1>2. TypeOK
  <2>1. SystemTypes /\ MainTypes
    BY <1>1 DEF SystemTypes, MainTypes, Conf
  <2>0. <<>> \in Seq(Service) /\ <<>> \in Seq(Entry)
    OBVIOUS
  <2>2. BookTypes
    BY <2>0 DEF BookTypes
  <2>3. WorkerTypes
    <3>1. NoFix \in [kind : {"suspend", "hibernate"}, profile : {"standard", "offload"},
               seen : {"standard", "offload"}, quiet : BOOLEAN]
      BY DEF NoFix
    <3> QED
      BY <2>0, <3>1, NoEntryTyped DEF WorkerTypes
  <2>4. OtherTypes
    BY <1>1, ModificationConstants DEF OtherTypes
  <2> QED
    BY <2>1, <2>2, <2>3, <2>4 DEF TypeOK
<1>3. LockInv
  BY DEF LockInv
<1> QED
  BY <1>2, <1>3 DEF IInv

LEMMA FaultTyped ==
  ASSUME TypeOK, Fault \/ Fine
  PROVE  faults' \in 0 .. MaxFaults
BY ModificationConstants DEF TypeOK, OtherTypes, Fault, Fine

(* A query takes at most one fault and marks at most the service it asks.   *)
LEMMA AnswerTyped ==
  ASSUME TypeOK, NEW s \in Service, NEW answer \in BOOLEAN, Answer(s, answer)
  PROVE  faults' \in 0 .. MaxFaults /\ timedOut' \subseteq Service
<1>1. Fault \/ Fine
  BY DEF Answer
<1> QED
  BY <1>1, FaultTyped DEF Answer, TypeOK, OtherTypes

(* The worker's steps.                                                      *)
LEMMA BeginInv == ASSUME IInv, NEW kind \in {"suspend", "hibernate"}, NEW profile \in Profiles, Begin(kind, profile)
                  PROVE  IInv'
<1>1. SystemTypes' /\ BookTypes' /\ MainTypes'
  BY DEF IInv, TypeOK, SystemTypes, BookTypes, MainTypes, Begin, system, books, main
<1>2. WorkerTypes'
  <2>1. left' \in Seq(Service)
    BY UnitsTyped DEF Begin
  <2>2. profile \in {"standard", "offload"}
    BY ModificationConstants
  <2> QED
    BY <2>1, <2>2 DEF IInv, TypeOK, WorkerTypes, Begin
<1>3. OtherTypes'
  BY ModificationConstants DEF IInv, TypeOK, OtherTypes, Begin
<1>4. LockInv'
  BY DEF IInv, LockInv, Begin, books, main
<1> QED
  BY <1>1, <1>2, <1>3, <1>4 DEF IInv, TypeOK

LEMMA HeadTail == ASSUME NEW S, NEW q \in Seq(S), q # <<>>
                  PROVE  Head(q) \in S /\ Tail(q) \in Seq(S)
OBVIOUS

LEMMA ScanInv == ASSUME IInv, Scan \/ Verify \/ SkipService PROVE IInv'
<1>1. SystemTypes' /\ BookTypes' /\ MainTypes'
  BY DEF IInv, TypeOK, SystemTypes, BookTypes, MainTypes, Scan, Verify, SkipService, system, books, main
<1>2. PICK answer \in BOOLEAN : Answer(Head(left), answer)
  BY DEF Scan, Verify, SkipService
<1>3. Head(left) \in Service /\ Tail(left) \in Seq(Service)
  BY HeadTail DEF IInv, TypeOK, WorkerTypes, Scan, Verify, SkipService
<1>4. WorkerTypes'
  <2>1. needs' = needs \/ needs' = Append(needs, Head(left))
    BY DEF Scan, Verify, SkipService
  <2>2. needs \in Seq(Service) /\ Append(needs, Head(left)) \in Seq(Service)
    BY <1>3 DEF IInv, TypeOK, WorkerTypes
  <2> QED
    BY <1>3, <2>1, <2>2 DEF IInv, TypeOK, WorkerTypes, Scan, Verify, SkipService
<1>5. OtherTypes'
  <2>1. faults' \in 0 .. MaxFaults /\ timedOut' \subseteq Service
    BY <1>2, <1>3, AnswerTyped DEF IInv
  <2> QED
    BY <2>1 DEF IInv, TypeOK, OtherTypes, Scan, Verify, SkipService
<1>6. LockInv'
  BY DEF IInv, LockInv, Scan, Verify, SkipService, books, main
<1> QED
  BY <1>1, <1>4, <1>5, <1>6 DEF IInv, TypeOK

(* The decisions between the loops change nothing but the worker.           *)
LEMMA DecideInv == ASSUME IInv, CheckConfig \/ ScanDone \/ ServicesDone \/ VerifyDone PROVE IInv'
<1>1. UNCHANGED <<system, books, main, bounds, history>>
  BY DEF CheckConfig, ScanDone, ServicesDone, VerifyDone
<1>2. SystemTypes' /\ BookTypes' /\ MainTypes' /\ OtherTypes'
  BY <1>1 DEF IInv, TypeOK, SystemTypes, BookTypes, MainTypes, OtherTypes, system, books, main, bounds, history
<1>3. WorkerTypes' /\ at' \notin {"save", "switch"}
  <2>1. CASE \E outcome \in {"ok", "failed"} : End(outcome)
    BY <2>1, EndTyped
  <2>2. CASE CheckConfig
    <3>1. PICK seen \in IF Standard THEN Profiles ELSE {fix.profile} :
            confOK' = (conf = seen) /\ fix' = [fix EXCEPT !.seen = seen]
      BY <2>2 DEF CheckConfig
    <3>2. seen \in {"standard", "offload"}
      BY <3>1, ModificationConstants DEF IInv, TypeOK, WorkerTypes
    <3> QED
      BY <2>2, <3>1, <3>2 DEF CheckConfig, IInv, TypeOK, WorkerTypes
  <2>3. CASE ScanDone /\ ~(\E outcome \in {"ok", "failed"} : End(outcome))
    BY <2>3, UnitsTyped DEF ScanDone, Recheck, IInv, TypeOK, WorkerTypes
  <2>4. CASE ServicesDone /\ ~(\E outcome \in {"ok", "failed"} : End(outcome))
    BY <2>4 DEF ServicesDone, IInv, TypeOK, WorkerTypes
  <2>5. CASE VerifyDone /\ ~(\E outcome \in {"ok", "failed"} : End(outcome))
    BY <2>5 DEF VerifyDone, IInv, TypeOK, WorkerTypes
  <2> QED
    BY <2>1, <2>2, <2>3, <2>4, <2>5
<1>4. LockInv'
  BY <1>1, <1>3 DEF IInv, LockInv, books, main
<1> QED
  BY <1>2, <1>3, <1>4 DEF IInv, TypeOK

LEMMA WriteConfigInv == ASSUME IInv, WriteConfig PROVE IInv'
<1>1. BookTypes' /\ MainTypes'
  BY DEF IInv, TypeOK, BookTypes, MainTypes, WriteConfig, books, main
<1>2. SystemTypes'
  BY DEF IInv, TypeOK, SystemTypes, WorkerTypes, WriteConfig, Conf
<1>3. OtherTypes'
  <2>1. Fault \/ Fine
    BY DEF WriteConfig
  <2> QED
    BY <2>1, FaultTyped DEF IInv, TypeOK, OtherTypes, WriteConfig, history
<1>4. WorkerTypes' /\ at' \notin {"save", "switch"}
  <2>1. CASE End("failed")
    BY <2>1, EndTyped
  <2>2. CASE at' = "record" /\ UNCHANGED <<fix, confOK, needs, left, result>> /\ entry' =
              [type |-> IF Standard THEN "file_created" ELSE "config_changed",
               target |-> "conf", original |-> None, active |-> TRUE]
    <3>1. entry' \in Entry
      BY <2>2 DEF Entry, Modification, None
    <3> QED
      BY <2>2, <3>1 DEF IInv, TypeOK, WorkerTypes
  <2> QED
    BY <2>1, <2>2 DEF WriteConfig
<1>5. LockInv'
  BY <1>4 DEF IInv, LockInv, WriteConfig, books, main
<1> QED
  BY <1>1, <1>2, <1>3, <1>4, <1>5 DEF IInv, TypeOK

(* What a switch is about to record names a service.                        *)
LEMMA OriginalInv == ASSUME IInv, AskOriginal \/ AssumeOriginal PROVE IInv'
<1>1. SystemTypes' /\ BookTypes' /\ MainTypes'
  BY DEF IInv, TypeOK, SystemTypes, BookTypes, MainTypes, AskOriginal, AssumeOriginal, system, books, main
<1>2. Head(left) \in Service /\ Tail(left) \in Seq(Service)
  BY HeadTail DEF IInv, TypeOK, WorkerTypes, AskOriginal, AssumeOriginal
<1>3. WorkerTypes' /\ at' = "switch" /\ entry'.target \in Service
  <2>1. PICK answer \in BOOLEAN, kind \in {"service_enabled", "service_disabled"} :
          entry' = [type |-> kind, target |-> Head(left),
                    original |-> IF answer THEN "enabled" ELSE "disabled", active |-> TRUE]
    BY DEF AskOriginal, AssumeOriginal
  <2>2. entry' \in Entry /\ entry'.target \in Service
    BY <1>2, <2>1 DEF Entry, Modification
  <2> QED
    BY <1>2, <2>2 DEF IInv, TypeOK, WorkerTypes, AskOriginal, AssumeOriginal
<1>4. OtherTypes'
  <2>1. CASE AskOriginal
    <3>1. faults' \in 0 .. MaxFaults /\ timedOut' \subseteq Service
      BY <2>1, <1>2, AnswerTyped DEF IInv, AskOriginal
    <3> QED
      BY <2>1, <3>1 DEF IInv, TypeOK, OtherTypes, AskOriginal
  <2>2. CASE AssumeOriginal
    BY <2>2 DEF IInv, TypeOK, OtherTypes, AssumeOriginal, bounds, history
  <2> QED
    BY <2>1, <2>2
<1>5. LockInv'
  BY <1>3 DEF IInv, LockInv, AskOriginal, AssumeOriginal, books, main
<1> QED
  BY <1>1, <1>3, <1>4, <1>5 DEF IInv, TypeOK

LEMMA SwitchInv == ASSUME IInv, SwitchService PROVE IInv'
<1>0. entry.target \in Service
  BY DEF IInv, LockInv, SwitchService
<1>1. BookTypes' /\ MainTypes'
  BY DEF IInv, TypeOK, BookTypes, MainTypes, SwitchService, books, main
<1>2. SystemTypes'
  BY <1>0 DEF IInv, TypeOK, SystemTypes, SwitchService
<1>3. OtherTypes'
  <2>1. Fault \/ Fine
    BY DEF SwitchService
  <2> QED
    BY <1>0, <2>1, FaultTyped DEF IInv, TypeOK, OtherTypes, SwitchService
<1>4. WorkerTypes' /\ at' \notin {"save", "switch"}
  <2>1. CASE End("failed")
    BY <2>1, EndTyped
  <2>2. CASE at' = "record" /\ UNCHANGED <<fix, confOK, needs, left, entry, result>>
    BY <2>2 DEF IInv, TypeOK, WorkerTypes
  <2> QED
    BY <2>1, <2>2 DEF SwitchService
<1>5. LockInv'
  BY <1>4 DEF IInv, LockInv, SwitchService, books, main
<1> QED
  BY <1>1, <1>2, <1>3, <1>4, <1>5 DEF IInv, TypeOK

LEMMA RebuildInv == ASSUME IInv, RebuildInitramfs PROVE IInv'
<1>1. BookTypes' /\ MainTypes'
  BY DEF IInv, TypeOK, BookTypes, MainTypes, RebuildInitramfs, books, main
<1>2. SystemTypes'
  BY DEF IInv, TypeOK, SystemTypes, RebuildInitramfs
<1>3. OtherTypes'
  <2>1. Fault \/ Fine
    BY DEF RebuildInitramfs
  <2> QED
    BY <2>1, FaultTyped DEF IInv, TypeOK, OtherTypes, RebuildInitramfs, history
<1>4. WorkerTypes' /\ at' \notin {"save", "switch"}
  <2>1. CASE \E outcome \in {"ok", "failed"} : End(outcome)
    BY <2>1, EndTyped
  <2>2. CASE at' = "record" /\ entry' = [NoEntry EXCEPT !.active = TRUE] /\ UNCHANGED <<fix, confOK, needs, left, result>>
    BY <2>2, NoEntryTyped DEF IInv, TypeOK, WorkerTypes
  <2> QED
    BY <2>1, <2>2 DEF RebuildInitramfs
<1>5. LockInv'
  BY <1>4 DEF IInv, LockInv, RebuildInitramfs, books, main
<1> QED
  BY <1>1, <1>2, <1>3, <1>4, <1>5 DEF IInv, TypeOK

(* The worker gets the lock only while the main thread is out of revert.    *)
LEMMA RecordInv == ASSUME IInv, Record PROVE IInv'
<1>1. SystemTypes' /\ MainTypes'
  BY DEF IInv, TypeOK, SystemTypes, MainTypes, Record, system, main
<1>2. /\ BookTypes' /\ manifest' = manifest
      /\ misread' \/ copy'["worker"] = manifest
  <2>1. <<>> \in Seq(Entry)
    OBVIOUS
  <2> QED
    BY <2>1 DEF IInv, TypeOK, BookTypes, Record, Take, Load, Writer
<1>3. OtherTypes'
  <2>1. Fault \/ Fine
    BY DEF Record, Load
  <2> QED
    BY <2>1, FaultTyped DEF IInv, TypeOK, OtherTypes, Record, history
<1>4. WorkerTypes'
  BY DEF IInv, TypeOK, WorkerTypes, Record
<1>5. LockInv'
  <2>1. mainAt' = "idle" /\ lock' = "worker" /\ at' = "save"
    BY DEF IInv, TypeOK, MainTypes, LockInv, Record, Take, main
  <2> QED
    BY <1>2, <2>1 DEF LockInv
<1> QED
  BY <1>1, <1>2, <1>3, <1>4, <1>5 DEF IInv, TypeOK

LEMMA SaveRecordInv == ASSUME IInv, SaveRecord PROVE IInv'
<1>0. lock = "worker" /\ mainAt = "idle"
  BY DEF IInv, LockInv, TypeOK, MainTypes, SaveRecord
<1>1. SystemTypes' /\ MainTypes' /\ mainAt' = "idle"
  BY <1>0 DEF IInv, TypeOK, SystemTypes, MainTypes, SaveRecord, system, main
<1>2. BookTypes'
  <2>1. <<>> \in Seq(Entry) /\ copy["worker"] \in Seq(Entry) /\ entry \in Entry
    BY DEF IInv, TypeOK, BookTypes, WorkerTypes, Writer
  <2>2. Append(copy["worker"], entry) \in Seq(Entry)
    BY <2>1
  <2>3. manifest' \in Seq(Entry)
    BY <2>2 DEF IInv, TypeOK, BookTypes, SaveRecord
  <2> QED
    BY <2>1, <2>3 DEF IInv, TypeOK, BookTypes, SaveRecord, Release
<1>3. OtherTypes'
  <2>1. Fault \/ Fine
    BY DEF SaveRecord
  <2>2. \A m \in Entry : m.target \in Service \cup {"conf", "initramfs"}
    BY DEF Entry, Modification
  <2>3. {manifest[i].target : i \in DOMAIN manifest} \subseteq Service \cup {"conf", "initramfs"}
    BY <2>2 DEF IInv, TypeOK, BookTypes
  <2>4. entry.target \in Service \cup {"conf", "initramfs"}
    BY <2>2 DEF IInv, TypeOK, WorkerTypes
  <2>5. lost' \subseteq Service \cup {"conf", "initramfs"}
    BY <2>3, <2>4 DEF IInv, TypeOK, OtherTypes, SaveRecord
  <2> QED
    BY <2>1, <2>5, FaultTyped DEF IInv, TypeOK, OtherTypes, SaveRecord
<1>4. WorkerTypes' /\ at' \notin {"save", "switch"}
  <2>1. CASE \E outcome \in {"ok", "failed"} : End(outcome)
    BY <2>1, EndTyped
  <2>2. CASE at' = "services" /\ entry' = NoEntry /\ UNCHANGED <<fix, confOK, needs, left, result>>
    BY <2>2, NoEntryTyped DEF IInv, TypeOK, WorkerTypes
  <2> QED
    BY <2>1, <2>2 DEF SaveRecord
<1>5. LockInv'
  BY <1>1, <1>4 DEF LockInv
<1> QED
  BY <1>1, <1>2, <1>3, <1>4, <1>5 DEF IInv, TypeOK

(* The main thread's steps.                                                 *)
LEMMA RevertBeginInv == ASSUME IInv, NEW i \in DOMAIN manifest, RevertBegin(i) PROVE IInv'
<1>1. SystemTypes' /\ WorkerTypes' /\ OtherTypes'
  BY DEF IInv, TypeOK, SystemTypes, WorkerTypes, OtherTypes, RevertBegin, system, worker, bounds, history
<1>2. BookTypes' /\ MainTypes'
  <2>1. i \in Nat /\ manifest \in Seq(Entry)
    BY DEF IInv, TypeOK, BookTypes
  <2>2. copy' \in [Writer -> Seq(Entry)]
    BY <2>1 DEF IInv, TypeOK, BookTypes, RevertBegin
  <2> QED
    BY <2>1, <2>2 DEF IInv, TypeOK, BookTypes, MainTypes, RevertBegin, Take, Writer
<1>3. at' # "save" /\ copy'["main"] = manifest'
  BY DEF IInv, LockInv, TypeOK, BookTypes, RevertBegin, Take, Writer, worker
<1>4. LockInv'
  BY <1>3 DEF IInv, LockInv, RevertBegin, Take, worker
<1> QED
  BY <1>1, <1>2, <1>4 DEF IInv, TypeOK

LEMMA ReleaseTyped ==
  ASSUME TypeOK, RevertDone, manifest' \in Seq(Entry)
  PROVE  BookTypes' /\ MainTypes' /\ mainAt' = "idle"
<1>1. <<>> \in Seq(Entry)
  OBVIOUS
<1> QED
  BY <1>1 DEF TypeOK, BookTypes, MainTypes, RevertDone, Release

LEMMA ExecuteInv == ASSUME IInv, Execute PROVE IInv'
<1> DEFINE m == copy["main"][target]
<1>0. lock = "main" /\ copy["main"] = manifest /\ target \in DOMAIN manifest /\ at # "save"
  BY DEF IInv, LockInv, Execute
<1>1. m \in Entry
  BY <1>0 DEF IInv, TypeOK, BookTypes
<1>2. WorkerTypes' /\ UNCHANGED <<manifest, at, entry>>
  BY DEF IInv, TypeOK, WorkerTypes, Execute
<1>3. SystemTypes'
  <2>1. UNCHANGED system \/ Undo(m)
    BY DEF Execute, UndoFails
  <2>2. CASE UNCHANGED system
    BY <2>2 DEF IInv, TypeOK, SystemTypes, system
  <2>3. CASE Undo(m)
    <3>1. m.type \in {"service_enabled", "service_disabled"} => m.target \in Service
      BY <1>1 DEF Entry
    <3> QED
      BY <2>3, <3>1 DEF IInv, TypeOK, SystemTypes, Undo, UndoService, UndoFile, UndoInitramfs, Conf
  <2> QED
    BY <2>1, <2>2, <2>3
<1>4. OtherTypes'
  <2>1. Fault \/ Fine
    BY DEF Execute, UndoFails
  <2> QED
    BY <2>1, FaultTyped DEF IInv, TypeOK, OtherTypes, Execute
<1>5. BookTypes' /\ MainTypes' /\ LockInv'
  <2>1. CASE mainAt' = "save" /\ UNCHANGED <<lock, copy, misread, target>>
    <3>1. BookTypes' /\ MainTypes'
      BY <1>2, <2>1 DEF IInv, TypeOK, BookTypes, MainTypes
    <3>2. LockInv'
      BY <1>0, <1>2, <2>1 DEF IInv, LockInv
    <3> QED
      BY <3>1, <3>2
  <2>2. CASE RevertDone
    <3>1. BookTypes' /\ MainTypes' /\ mainAt' = "idle"
      BY <1>2, <2>2, ReleaseTyped DEF IInv, TypeOK, BookTypes
    <3>2. LockInv'
      BY <1>0, <1>2, <3>1 DEF IInv, LockInv
    <3> QED
      BY <3>1, <3>2
  <2> QED
    BY <2>1, <2>2 DEF Execute
<1> QED
  BY <1>2, <1>3, <1>4, <1>5 DEF IInv, TypeOK

LEMMA SaveRevertInv == ASSUME IInv, SaveRevert PROVE IInv'
<1>0. copy["main"] = manifest /\ target \in DOMAIN manifest /\ at # "save"
  BY DEF IInv, LockInv, SaveRevert
<1>1. SystemTypes' /\ WorkerTypes'
  BY DEF IInv, TypeOK, SystemTypes, WorkerTypes, SaveRevert, system, worker
<1>2. manifest' \in Seq(Entry)
  <2>1. manifest[target] \in Entry
    BY <1>0 DEF IInv, TypeOK, BookTypes
  <2>2. [manifest[target] EXCEPT !.active = FALSE] \in Entry
    BY <2>1 DEF Entry, Modification
  <2>3. Inactive \in Seq(Entry)
    BY <1>0, <2>2 DEF Inactive, IInv, TypeOK, BookTypes
  <2> QED
    BY <2>3 DEF SaveRevert, IInv, TypeOK, BookTypes
<1>3. BookTypes' /\ MainTypes' /\ mainAt' = "idle"
  BY <1>2, ReleaseTyped DEF IInv, SaveRevert
<1>4. OtherTypes'
  <2>1. Fault \/ Fine
    BY DEF SaveRevert
  <2> QED
    BY <2>1, FaultTyped DEF IInv, TypeOK, OtherTypes, SaveRevert, history
<1>5. LockInv'
  BY <1>0, <1>3 DEF IInv, LockInv, SaveRevert, worker
<1> QED
  BY <1>1, <1>3, <1>4, <1>5 DEF IInv, TypeOK

LEMMA StopInv == ASSUME IInv, Stop PROVE IInv'
<1>1. SystemTypes' /\ MainTypes'
  BY DEF IInv, TypeOK, SystemTypes, MainTypes, Stop, system
<1>2. BookTypes'
  <2>1. <<>> \in Seq(Entry)
    OBVIOUS
  <2> QED
    BY <2>1 DEF IInv, TypeOK, BookTypes, Stop
<1>3. WorkerTypes' /\ at' \notin {"save", "switch"}
  <2>1. CASE at = "idle"
    BY <2>1 DEF Stop, IInv, TypeOK, WorkerTypes, worker
  <2>2. CASE at # "idle"
    BY <2>2, EndTyped DEF Stop
  <2> QED
    BY <2>1, <2>2
<1>4. OtherTypes'
  <2>1. entry.target \in Service \cup {"conf", "initramfs"}
    BY DEF IInv, TypeOK, WorkerTypes, Entry, Modification
  <2> QED
    BY <2>1, FaultTyped DEF Stop, IInv, TypeOK, OtherTypes
<1>5. LockInv'
  BY <1>3 DEF LockInv, Stop
<1> QED
  BY <1>1, <1>2, <1>3, <1>4, <1>5 DEF IInv, TypeOK

LEMMA StepInv == IInv /\ [Next]_vars => IInv'
<1> SUFFICES ASSUME IInv, [Next]_vars PROVE IInv'
  OBVIOUS
<1>1. CASE Worker
  BY <1>1, ScanInv, DecideInv, WriteConfigInv, OriginalInv, SwitchInv, RebuildInv, RecordInv, SaveRecordInv DEF Worker
<1>2. CASE Revert
  BY <1>2, ExecuteInv, SaveRevertInv DEF Revert
<1>3. CASE UNCHANGED vars
  BY <1>3 DEF vars, system, books, worker, main, bounds, history, IInv, LockInv,
              TypeOK, SystemTypes, BookTypes, WorkerTypes, MainTypes, OtherTypes
<1> QED
  BY <1>1, <1>2, <1>3, BeginInv, RevertBeginInv, StopInv DEF Next

-----------------------------------------------------------------------------
(* The variables keep their types and the two writers keep out of each      *)
(* other's way: whoever has loaded the manifest holds its lock.             *)
THEOREM Locked == Spec => [](TypeOK /\ LockInv)
<1>1. Init => IInv
  BY InitTyped
<1>2. IInv /\ [Next]_vars => IInv'
  BY StepInv
<1> QED
  BY <1>1, <1>2, PTL DEF Spec, IInv

LEMMA Unchanged == ASSUME manifest \in Seq(Entry) PROVE Continues(manifest, manifest)
BY DEF Continues

(* The manifest changes in two places: a record that is saved, and a revert *)
(* that is saved.                                                           *)
LEMMA ManifestSteps ==
  ASSUME [Next]_vars
  PROVE  \/ UNCHANGED manifest
         \/ SaveRecord /\ manifest' = Append(copy["worker"], entry)
         \/ SaveRevert /\ manifest' = Inactive
BY DEF Next, vars, books, Begin, Worker, CheckConfig, Scan, ScanDone, WriteConfig, SkipService,
     AskOriginal, AssumeOriginal, SwitchService, ServicesDone, Verify, VerifyDone, RebuildInitramfs, Record, SaveRecord,
     RevertBegin, Revert, Execute, SaveRevert, Stop

(* Every change of the manifest is one record or one mark of a revert.      *)
LEMMA StepKeepsHistory ==
  ASSUME IInv, [Next]_vars, ~misread
  PROVE  Continues(manifest, manifest')
<1>0. manifest \in Seq(Entry)
  BY DEF IInv, TypeOK, BookTypes
<1>1. CASE UNCHANGED manifest
  BY <1>0, <1>1, Unchanged
<1>2. CASE SaveRecord /\ manifest' = Append(copy["worker"], entry)
  <2>1. manifest' = Append(manifest, entry)
    BY <1>2 DEF IInv, LockInv, SaveRecord
  <2>2. Len(manifest') = Len(manifest) + 1 /\ \A i \in DOMAIN manifest : manifest'[i] = manifest[i]
    BY <1>0, <2>1 DEF IInv, TypeOK, WorkerTypes
  <2> QED
    BY <1>0, <2>2 DEF Continues
<1>3. CASE SaveRevert /\ manifest' = Inactive
  <2>1. manifest' = [manifest EXCEPT ![target].active = FALSE] /\ target \in DOMAIN manifest
    BY <1>3 DEF IInv, LockInv, SaveRevert, Inactive
  <2>2. \A i \in DOMAIN manifest :
          manifest'[i] = IF i = target THEN [manifest[i] EXCEPT !.active = FALSE] ELSE manifest[i]
    BY <1>0, <2>1
  <2>5. Len(manifest') = Len(manifest)
    <3>1. manifest' \in Seq(Entry)
      BY StepInv DEF IInv, TypeOK, BookTypes
    <3>2. DOMAIN manifest' = DOMAIN manifest
      BY <2>1
    <3> QED
      BY <1>0, <3>1, <3>2
  <2>3. \A m \in Entry : LET n == [m EXCEPT !.active = FALSE] IN
          Facts(n) = Facts(m) /\ ~n.active
    BY DEF Entry, Modification, Facts
  <2>4. \A i \in DOMAIN manifest :
          /\ Facts(manifest'[i]) = Facts(manifest[i])
          /\ manifest'[i].active => manifest[i].active
    <3> TAKE i \in DOMAIN manifest
    <3>1. manifest[i] \in Entry
      BY <1>0
    <3>2. CASE i = target
      BY <2>2, <2>3, <3>1, <3>2
    <3>3. CASE i # target
      BY <2>2, <3>3
    <3> QED
      BY <3>2, <3>3
  <2> QED
    BY <1>0, <2>4, <2>5 DEF Continues
<1> QED
  BY <1>1, <1>2, <1>3, ManifestSteps

(* No record is ever lost, reordered, rewritten or made active again by     *)
(* the other writer or by a stop, unless the manifest could not be read.    *)
THEOREM NothingForgotten == Spec => HistoryKept
<1>1. IInv /\ [Next]_vars => [~misread => Continues(manifest, manifest')]_vars
  BY StepKeepsHistory
<1>2. Spec => []IInv
  BY Locked, PTL DEF IInv
<1> QED
  BY <1>1, <1>2, PTL DEF Spec, HistoryKept
-----------------------------------------------------------------------------
(* Whatever Verde has changed can be found.  An entry tells how its target  *)
(* came to be as it is: a service that is off was off before Verde or has a *)
(* service_disabled entry, one that is on was on or has a service_enabled   *)
(* entry, except for the change the worker is about to record.              *)
ServiceTypes == {"service_enabled", "service_disabled"}

Kinded(m) ==
  /\ m.target \in Service => m.type \in ServiceTypes
  /\ m.target = "conf" => m.type \in {"file_created", "config_changed"}
  /\ m.type = "file_created" => m.target = "conf"

Has(s, type) == \E i \in DOMAIN manifest : manifest[i].target = s /\ manifest[i].type = type
CameOff(s)   == s \notin before.enabled \/ Has(s, "service_disabled")
CameOn(s)    == s \in before.enabled \/ Has(s, "service_enabled")
Excused      == lost \cup timedOut

(* An entry that switches a service did find it the other way round.        *)
Honest(m) ==
  m.target \notin Excused =>
    /\ m.type = "service_enabled" => CameOff(m.target)
    /\ m.type = "service_disabled" => CameOn(m.target)

Explained(s) ==
  s \notin Excused =>
    /\ s \notin enabled => CameOff(s) \/ (InFlight(s) /\ entry.type = "service_disabled")
    /\ s \in enabled => CameOn(s) \/ (InFlight(s) /\ entry.type = "service_enabled")

Entries == \A i \in DOMAIN manifest : Kinded(manifest[i]) /\ Honest(manifest[i])

(* The worker goes by what it found: what the standard fix has yet to       *)
(* enable was off.                                                          *)
FoundOff(q) == \A i \in DOMAIN q : q[i] \in Excused \/ CameOff(q[i])

WorkInv ==
  /\ at = "idle" => needs = <<>>
  /\ at \in {"switch", "record", "save"} => Kinded(entry) /\ Honest(entry) /\ entry.active
  /\ at = "switch" => entry.type = IF Standard THEN "service_enabled" ELSE "service_disabled"
  /\ at \in {"check", "scan"} /\ Standard => FoundOff(needs)
  /\ at \in {"write", "services", "switch", "record", "save", "initramfs"} /\ Standard => FoundOff(left)

(* Between the undoing and the save the target is as it was, unless the     *)
(* worker has just changed it again, which it cannot record before the lock *)
(* is free.                                                                 *)
Undone(m) ==
  /\ m.type # "config_changed"
  /\ \/ m.target \in lost \/ InFlight(m.target)
     \/ /\ m.type = "service_enabled" => m.target \notin enabled
        /\ m.type = "service_disabled" => m.target \in enabled
        /\ m.type = "file_created" => conf = "absent"

RevertInv ==
  /\ mainAt # "idle" => manifest[target].active
  /\ mainAt = "save" => Undone(manifest[target])

(* A load that meets an unreadable file starts fresh.                       *)
Fresh == at = "save" /\ misread => copy["worker"] = <<>>

BookInv == Fresh /\ Entries /\ WorkInv /\ RevertInv /\ (\A s \in Service : Explained(s)) /\ OnTheBooks

LEMMA FreshStep == ASSUME IInv, Fresh, [Next]_vars PROVE Fresh'
<1>1. CASE Record
  BY <1>1 DEF IInv, TypeOK, BookTypes, Writer, Record, Load, Fresh
<1>2. CASE RevertDone \/ Stop \/ (\E i \in DOMAIN manifest : RevertBegin(i))
  BY <1>2 DEF RevertDone, Release, Stop, RevertBegin, Fresh
<1>3. CASE at' # "save" \/ UNCHANGED <<at, misread, copy>>
  BY <1>3 DEF Fresh
<1> QED
  BY <1>1, <1>2, <1>3 DEF Next, vars, books, worker, Worker, Begin, CheckConfig, Scan, ScanDone, Recheck, End, WriteConfig,
     SkipService, AskOriginal, AssumeOriginal, SwitchService, ServicesDone, Verify, VerifyDone, RebuildInitramfs,
     SaveRecord, Revert, Execute, SaveRevert

LEMMA AppendFacts ==
  ASSUME NEW S, NEW q \in Seq(S), NEW e \in S
  PROVE  /\ \A i \in DOMAIN Append(q, e) : Append(q, e)[i] = e \/ (i \in DOMAIN q /\ Append(q, e)[i] = q[i])
         /\ \A i \in DOMAIN q : i \in DOMAIN Append(q, e) /\ Append(q, e)[i] = q[i]
         /\ Len(q) + 1 \in DOMAIN Append(q, e) /\ Append(q, e)[Len(q) + 1] = e
OBVIOUS

(* What the three kinds of step leave of the manifest: the entries of a     *)
(* target that is not lost stay, and what is new is the entry just made.    *)
LEMMA EntriesKept ==
  ASSUME IInv, Fresh, [Next]_vars
  PROVE  /\ \A i \in DOMAIN manifest : manifest[i].target \notin lost' =>
              /\ i \in DOMAIN manifest'
              /\ manifest'[i].target = manifest[i].target /\ manifest'[i].type = manifest[i].type
         /\ \A j \in DOMAIN manifest' :
              \/ /\ j \in DOMAIN manifest
                 /\ manifest'[j].target = manifest[j].target /\ manifest'[j].type = manifest[j].type
              \/ SaveRecord /\ manifest'[j] = entry
<1>0. manifest \in Seq(Entry) /\ copy["worker"] \in Seq(Entry) /\ entry \in Entry
  BY DEF IInv, TypeOK, BookTypes, WorkerTypes, Writer
<1>1. CASE UNCHANGED manifest
  BY <1>1
<1>2. CASE SaveRecord /\ manifest' = Append(copy["worker"], entry)
  <2>1. /\ \A i \in DOMAIN manifest' :
             manifest'[i] = entry \/ (i \in DOMAIN copy["worker"] /\ manifest'[i] = copy["worker"][i])
        /\ \A i \in DOMAIN copy["worker"] : i \in DOMAIN manifest' /\ manifest'[i] = copy["worker"][i]
    BY <1>0, <1>2, AppendFacts
  <2>2. CASE copy["worker"] = manifest
    BY <1>2, <2>1, <2>2
  <2>3. CASE copy["worker"] # manifest
    <3>1. copy["worker"] = <<>> /\ misread
      BY <1>2, <2>3 DEF IInv, LockInv, SaveRecord, Fresh
    <3>2. \A i \in DOMAIN manifest : manifest[i].target \in lost'
      BY <1>0, <1>2, <3>1, AppendFacts DEF SaveRecord
    <3>3. DOMAIN copy["worker"] = {}
      BY <3>1
    <3> QED
      BY <1>2, <2>1, <3>2, <3>3
  <2> QED
    BY <2>2, <2>3
<1>3. CASE SaveRevert /\ manifest' = Inactive
  <2>1. manifest' = [manifest EXCEPT ![target].active = FALSE] /\ target \in DOMAIN manifest
    BY <1>3 DEF IInv, LockInv, SaveRevert, Inactive
  <2>2. \A m \in Entry : LET n == [m EXCEPT !.active = FALSE] IN n.target = m.target /\ n.type = m.type
    BY DEF Entry, Modification
  <2>3. /\ DOMAIN manifest' = DOMAIN manifest
        /\ \A i \in DOMAIN manifest :
              manifest'[i] = IF i = target THEN [manifest[i] EXCEPT !.active = FALSE] ELSE manifest[i]
    BY <1>0, <2>1
  <2>4. \A i \in DOMAIN manifest :
          manifest'[i].target = manifest[i].target /\ manifest'[i].type = manifest[i].type
    <3> TAKE i \in DOMAIN manifest
    <3>1. manifest[i] \in Entry
      BY <1>0
    <3>2. CASE i = target
      BY <2>2, <2>3, <3>1, <3>2
    <3>3. CASE i # target
      BY <2>3, <3>3
    <3> QED
      BY <3>2, <3>3
  <2> QED
    BY <2>3, <2>4
<1> QED
  BY <1>1, <1>2, <1>3, ManifestSteps

(* What is known of a target stays known, unless the target is lost.        *)
LEMMA Remembered ==
  ASSUME IInv, Fresh, [Next]_vars
  PROVE  /\ before' = before /\ lost \subseteq lost' /\ timedOut \subseteq timedOut'
         /\ \A s : s \in Excused \/ CameOff(s) => s \in Excused' \/ CameOff(s)'
         /\ \A s : s \in Excused \/ CameOn(s) => s \in Excused' \/ CameOn(s)'
<1>1. before' = before
  BY DEF Next, vars, history, Worker, Begin, CheckConfig, Scan, ScanDone, WriteConfig, SkipService,
     AskOriginal, AssumeOriginal, SwitchService, ServicesDone, Verify, VerifyDone, RebuildInitramfs, Record, SaveRecord,
     RevertBegin, Revert, Execute, SaveRevert, Stop
<1>2. lost \subseteq lost'
  BY DEF Next, vars, history, Worker, Begin, CheckConfig, Scan, ScanDone, WriteConfig, SkipService,
     AskOriginal, AssumeOriginal, SwitchService, ServicesDone, Verify, VerifyDone, RebuildInitramfs, Record, SaveRecord,
     RevertBegin, Revert, Execute, SaveRevert, Stop
<1>3. timedOut \subseteq timedOut'
  BY DEF Next, vars, history, Worker, Answer, Begin, CheckConfig, Scan, ScanDone, WriteConfig, SkipService,
     AskOriginal, AssumeOriginal, SwitchService, ServicesDone, Verify, VerifyDone, RebuildInitramfs, Record, SaveRecord,
     RevertBegin, Revert, Execute, SaveRevert, Stop
<1>4. \A i \in DOMAIN manifest : manifest[i].target \notin lost' =>
         /\ i \in DOMAIN manifest'
         /\ manifest'[i].target = manifest[i].target /\ manifest'[i].type = manifest[i].type
  BY EntriesKept
<1> QED
  BY <1>1, <1>2, <1>3, <1>4 DEF Excused, CameOff, CameOn, Has

LEMMA HonestKept ==
  ASSUME IInv, Fresh, [Next]_vars, NEW m, Honest(m)
  PROVE  Honest(m)'
<1>1. m.target \notin Excused' => m.target \notin Excused
  BY Remembered DEF Excused
<1> QED
  BY <1>1, Remembered DEF Honest

LEMMA EntriesStep == ASSUME IInv, BookInv, [Next]_vars PROVE Entries'
<1> SUFFICES ASSUME NEW j \in DOMAIN manifest' PROVE (Kinded(manifest[j]) /\ Honest(manifest[j]))'
  BY DEF Entries
<1>0. Fresh
  BY DEF BookInv
<1>1. CASE SaveRecord /\ manifest'[j] = entry
  <2>1. PICK m : m = entry
    OBVIOUS
  <2>2. Kinded(m) /\ Honest(m)
    BY <1>1, <2>1 DEF BookInv, WorkInv, SaveRecord
  <2>3. Honest(m)'
    BY <1>0, <2>2, HonestKept
  <2> QED
    BY <1>1, <2>1, <2>2, <2>3 DEF Honest, Kinded
<1>2. CASE /\ j \in DOMAIN manifest
           /\ manifest'[j].target = manifest[j].target /\ manifest'[j].type = manifest[j].type
  <2>1. PICK m : m = manifest[j]
    OBVIOUS
  <2>2. Kinded(m) /\ Honest(m)
    BY <1>2, <2>1 DEF BookInv, Entries
  <2>3. Honest(m)'
    BY <1>0, <2>2, HonestKept
  <2> QED
    BY <1>2, <2>1, <2>2, <2>3 DEF Honest, Kinded
<1> QED
  BY <1>0, <1>1, <1>2, EntriesKept

LEMMA FoundOffKept ==
  ASSUME IInv, Fresh, [Next]_vars, NEW q, FoundOff(q)
  PROVE  FoundOff(q)'
BY Remembered DEF FoundOff

LEMMA FoundOffHead ==
  ASSUME NEW q \in Seq(Service), q # <<>>, FoundOff(q)
  PROVE  (Head(q) \in Excused \/ CameOff(Head(q))) /\ FoundOff(Tail(q))
<1>1. /\ Head(q) = q[1] /\ 1 \in DOMAIN q
      /\ \A i \in DOMAIN Tail(q) : i + 1 \in DOMAIN q /\ Tail(q)[i] = q[i + 1]
  OBVIOUS
<1> QED
  BY <1>1 DEF FoundOff

(* A change the worker makes: the service was found the other way round.    *)
LEMMA WorkOriginal == ASSUME IInv, BookInv, [Next]_vars, AskOriginal \/ AssumeOriginal PROVE WorkInv'
<1>0. Fresh /\ left \in Seq(Service) /\ left # <<>> /\ at = "services"
  BY DEF BookInv, IInv, TypeOK, WorkerTypes, AskOriginal, AssumeOriginal
<1>1. PICK s, q, m : s = Head(left) /\ q = Tail(left) /\ m = entry'
  OBVIOUS
<1>2. s \in Service /\ q \in Seq(Service)
  BY <1>0, <1>1, HeadTail
<1>3. at' = "switch" /\ fix' = fix /\ left' = q /\ entry' = m
  BY <1>1 DEF AskOriginal, AssumeOriginal
<1>4. /\ m.target = s /\ m.active
      /\ m.type = IF Standard THEN "service_enabled" ELSE "service_disabled"
  BY <1>1 DEF AskOriginal, AssumeOriginal
<1>5. Kinded(m)
  BY <1>2, <1>4, UnitsTyped DEF Kinded, ServiceTypes
<1>6. CASE Standard
  <2>1. (s \in Excused \/ CameOff(s)) /\ FoundOff(q)
    BY <1>0, <1>1, <1>6, FoundOffHead DEF BookInv, WorkInv
  <2>2. (s \in Excused' \/ CameOff(s)') /\ FoundOff(q)'
    BY <1>0, <2>1, Remembered, FoundOffKept
  <2>3. Honest(m)'
    BY <1>4, <1>6, <2>2 DEF Honest
  <2> QED
    BY <1>3, <1>4, <1>5, <1>6, <2>2, <2>3 DEF WorkInv, Kinded, Honest, Standard, FoundOff
<1>7. CASE ~Standard
  <2>1. s \in enabled
    BY <1>1, <1>7 DEF AskOriginal, AssumeOriginal, Answer
  <2>2. s \in Excused \/ CameOn(s)
    BY <1>0, <1>2, <2>1 DEF BookInv, Explained, InFlight
  <2>3. s \in Excused' \/ CameOn(s)'
    BY <1>0, <2>2, Remembered
  <2>4. Honest(m)'
    BY <1>4, <1>7, <2>3 DEF Honest
  <2> QED
    BY <1>3, <1>4, <1>5, <1>7, <2>4 DEF WorkInv, Kinded, Honest, Standard
<1> QED
  BY <1>6, <1>7

(* What the scan of a standard fix notes was off.                           *)
LEMMA WorkScan == ASSUME IInv, BookInv, [Next]_vars, Scan PROVE WorkInv'
<1>0. Fresh /\ left \in Seq(Service) /\ needs \in Seq(Service) /\ left # <<>> /\ at = "scan" /\ at' = "scan" /\ fix' = fix
  BY DEF BookInv, IInv, TypeOK, WorkerTypes, Scan
<1>1. SUFFICES ASSUME Standard PROVE FoundOff(needs)'
  BY <1>0 DEF WorkInv, Standard
<1>2. PICK s, q : s = Head(left) /\ q = needs
  OBVIOUS
<1>3. s \in Service /\ FoundOff(q) /\ FoundOff(q)'
  BY <1>0, <1>1, <1>2, HeadTail, FoundOffKept DEF BookInv, WorkInv
<1>4. CASE UNCHANGED needs
  BY <1>2, <1>3, <1>4 DEF FoundOff
<1>5. CASE needs' = Append(needs, Head(left)) /\ Answer(Head(left), FALSE)
  <2>1. s \notin enabled \/ s \in timedOut'
    BY <1>2, <1>5 DEF Answer
  <2>2. s \in timedOut' \/ (s \in Excused \/ CameOff(s))
    BY <1>0, <1>3, <2>1 DEF BookInv, Explained, InFlight
  <2>3. s \in Excused' \/ CameOff(s)'
    BY <1>0, <2>2, Remembered DEF Excused
  <2>4. \A i \in DOMAIN needs' : needs'[i] = s \/ (i \in DOMAIN q /\ needs'[i] = q[i])
    BY <1>0, <1>2, <1>3, <1>5, AppendFacts
  <2> QED
    BY <1>3, <2>3, <2>4 DEF FoundOff
<1>6. needs' = needs \/ (needs' = Append(needs, Head(left)) /\ Answer(Head(left), FALSE))
  BY <1>1 DEF Scan
<1> QED
  BY <1>4, <1>5, <1>6

LEMMA WorkStep == ASSUME IInv, BookInv, [Next]_vars PROVE WorkInv'
<1>0. Fresh /\ WorkInv
  BY DEF BookInv
<1>1. PICK m, q, r : m = entry /\ q = needs /\ r = left
  OBVIOUS
<1>2. (Honest(m) => Honest(m)') /\ (FoundOff(q) => FoundOff(q)') /\ (FoundOff(r) => FoundOff(r)')
  BY <1>0, HonestKept, FoundOffKept
<1>3. CASE at' \in {"verify", "recheck"} \/ (\E outcome \in {"none", "ok", "failed"} : End(outcome))
  BY <1>3 DEF WorkInv, End
<1>4. ASSUME UNCHANGED <<at, entry, needs, left>>, fix'.profile = fix.profile
      PROVE  WorkInv'
  BY <1>0, <1>1, <1>2, <1>4 DEF WorkInv, Standard, Honest, FoundOff, Kinded
<1>5. CASE \E kind \in {"suspend", "hibernate"}, profile \in Profiles : Begin(kind, profile)
  <2>1. DOMAIN << >> = {}
    OBVIOUS
  <2>2. needs' = <<>> /\ at' \in {"check", "scan", "services"} /\ (at' = "services" => ~Standard')
    BY <1>0, <1>5 DEF Begin, WorkInv, Standard
  <2> QED
    BY <2>1, <2>2 DEF WorkInv, FoundOff
<1>6. CASE CheckConfig
  <2>1. fix'.profile = fix.profile
    BY <1>6 DEF CheckConfig, IInv, TypeOK, WorkerTypes
  <2> QED
    BY <1>0, <1>1, <1>2, <1>6, <2>1 DEF WorkInv, CheckConfig, Standard, FoundOff
<1>7. CASE ScanDone /\ at' \in {"write", "services"}
  BY <1>0, <1>1, <1>2, <1>7 DEF WorkInv, ScanDone, Recheck, End, Standard, FoundOff
<1>8. CASE WriteConfig /\ at' = "record"
  <2>1. /\ entry'.target = "conf" /\ entry'.active /\ entry'.type \in {"file_created", "config_changed"}
        /\ at = "write" /\ UNCHANGED <<fix, left>>
    BY <1>8 DEF WriteConfig, End
  <2> QED
    BY <1>0, <1>1, <1>2, <1>8, <2>1, UnitsTyped DEF WorkInv, Kinded, Honest, Standard, FoundOff
<1>9. CASE SkipService
  BY <1>9 DEF SkipService, WorkInv, Standard
<1>10. CASE SwitchService /\ at' = "record"
  BY <1>0, <1>1, <1>2, <1>10 DEF WorkInv, SwitchService, End, Standard, Honest, FoundOff, Kinded
<1>11. CASE (ServicesDone \/ VerifyDone) /\ at' = "initramfs"
  <2>1. DOMAIN << >> = {}
    OBVIOUS
  <2>2. ~Standard' \/ left' = <<>>
    BY <1>11 DEF ServicesDone, VerifyDone, End, Standard
  <2> QED
    BY <1>11, <2>1, <2>2 DEF WorkInv, FoundOff
<1>12. CASE RebuildInitramfs /\ at' = "record"
  <2>1. /\ entry'.target = "initramfs" /\ entry'.active /\ entry'.type = "initramfs_rebuilt"
        /\ at = "initramfs" /\ UNCHANGED <<fix, left>>
    BY <1>12 DEF RebuildInitramfs, End, NoEntry
  <2> QED
    BY <1>0, <1>1, <1>2, <1>12, <2>1, UnitsTyped DEF WorkInv, Kinded, Honest, Standard, FoundOff
<1>13. CASE Record
  BY <1>0, <1>1, <1>2, <1>13 DEF WorkInv, Record, Standard, Honest, FoundOff, Kinded
<1>14. CASE SaveRecord /\ at' = "services"
  BY <1>0, <1>1, <1>2, <1>14 DEF WorkInv, SaveRecord, End, Standard, FoundOff
<1>15. CASE Verify
  BY <1>3, <1>15 DEF Verify
<1>16. CASE Worker
  BY <1>16, <1>3, <1>6, WorkScan, <1>7, <1>8, <1>9, WorkOriginal, <1>10, <1>11, <1>12, <1>13, <1>14, <1>15
     DEF Worker, ScanDone, Recheck, WriteConfig, SwitchService, ServicesDone, VerifyDone, RebuildInitramfs, SaveRecord
<1>17. CASE Stop
  BY <1>3, <1>4, <1>17 DEF Stop, worker
<1>18. CASE Revert \/ (\E i \in DOMAIN manifest : RevertBegin(i)) \/ UNCHANGED vars
  <2>1. UNCHANGED <<at, entry, needs, left>> /\ fix'.profile = fix.profile
    BY <1>18 DEF Revert, Execute, SaveRevert, RevertBegin, vars, worker, IInv, TypeOK, WorkerTypes
  <2> QED
    BY <1>4, <2>1
<1> QED
  BY <1>5, <1>16, <1>17, <1>18 DEF Next

(* What changes a service: the worker's switch, and the undoing of a change.*)
LEMMA SystemSteps ==
  ASSUME [Next]_vars
  PROVE  /\ UNCHANGED enabled \/ SwitchService \/ (Execute /\ Undo(copy["main"][target]))
         /\ UNCHANGED conf \/ WriteConfig \/ (Execute /\ Undo(copy["main"][target]))
<1>1. Execute => UNCHANGED <<enabled, conf>> \/ Undo(copy["main"][target])
  BY DEF Execute, UndoFails, system
<1> QED
  BY <1>1 DEF Next, vars, system, Begin, Worker, CheckConfig, Scan, ScanDone, WriteConfig, SkipService,
     AskOriginal, AssumeOriginal, SwitchService, ServicesDone, Verify, VerifyDone, RebuildInitramfs, Record, SaveRecord,
     RevertBegin, Revert, SaveRevert, Stop

(* A change being recorded gets its entry, or its target is lost.           *)
LEMMA InFlightKept ==
  ASSUME IInv, BookInv, [Next]_vars, NEW t, InFlight(t)
  PROVE  \/ InFlight(t)' /\ entry' = entry
         \/ t \in lost'
         \/ SaveRecord /\ Recorded(t)' /\ (\A type : entry.type = type => Has(t, type)')
<1>0. /\ at \in {"record", "save"} /\ entry.target = t /\ entry.active
      /\ copy["worker"] \in Seq(Entry) /\ entry \in Entry
  BY DEF InFlight, BookInv, WorkInv, IInv, TypeOK, BookTypes, WorkerTypes, Writer
<1>1. CASE Record \/ Revert \/ (\E i \in DOMAIN manifest : RevertBegin(i)) \/ UNCHANGED vars
  BY <1>0, <1>1 DEF Record, Revert, Execute, SaveRevert, RevertBegin, vars, worker, InFlight
<1>2. CASE SaveRecord
  <2>1. CASE t \in lost'
    BY <2>1
  <2>2. CASE manifest' = Append(copy["worker"], entry)
    <3>1. \E i \in DOMAIN manifest' : manifest'[i] = entry
      BY <1>0, <2>2, AppendFacts
    <3> QED
      BY <1>0, <1>2, <3>1 DEF Recorded, Has
  <2> QED
    BY <1>0, <1>2, <2>1, <2>2 DEF SaveRecord
<1>3. CASE Stop
  BY <1>0, <1>3 DEF Stop
<1> QED
  BY <1>0, <1>1, <1>2, <1>3
     DEF Next, Begin, Worker, CheckConfig, Scan, ScanDone, WriteConfig, SkipService, AskOriginal,
         AssumeOriginal, SwitchService, ServicesDone, Verify, VerifyDone, RebuildInitramfs

(* An active entry goes only with the save of its revert.                   *)
LEMMA RecordedKept ==
  ASSUME IInv, BookInv, [Next]_vars, NEW t, Recorded(t)
  PROVE  Recorded(t)' \/ t \in lost' \/ (SaveRevert /\ manifest[target].target = t)
<1>0. manifest \in Seq(Entry) /\ copy["worker"] \in Seq(Entry) /\ entry \in Entry
  BY DEF IInv, TypeOK, BookTypes, WorkerTypes, Writer
<1>1. PICK i \in DOMAIN manifest : manifest[i].active /\ manifest[i].target = t
  BY DEF Recorded
<1>2. CASE UNCHANGED manifest
  BY <1>1, <1>2 DEF Recorded
<1>3. CASE SaveRecord /\ manifest' = Append(copy["worker"], entry)
  <2>1. CASE copy["worker"] = manifest
    <3>1. i \in DOMAIN manifest' /\ manifest'[i] = manifest[i]
      BY <1>0, <1>1, <1>3, <2>1, AppendFacts
    <3> QED
      BY <1>1, <3>1 DEF Recorded
  <2>2. CASE copy["worker"] # manifest
    <3>1. copy["worker"] = <<>> /\ misread
      BY <1>3, <2>2 DEF IInv, LockInv, SaveRecord, BookInv, Fresh
    <3>2. manifest' # manifest => t \in lost'
      BY <1>0, <1>1, <1>3, <3>1, AppendFacts DEF SaveRecord
    <3> QED
      BY <1>1, <3>2 DEF Recorded
  <2> QED
    BY <2>1, <2>2
<1>4. CASE SaveRevert /\ manifest' = Inactive
  <2>1. manifest' = [manifest EXCEPT ![target].active = FALSE] /\ target \in DOMAIN manifest
    BY <1>4 DEF IInv, LockInv, SaveRevert, Inactive
  <2>2. i = target \/ (i \in DOMAIN manifest' /\ manifest'[i] = manifest[i])
    BY <1>0, <1>1, <2>1
  <2> QED
    BY <1>1, <1>4, <2>2 DEF Recorded
<1> QED
  BY <1>2, <1>3, <1>4, ManifestSteps

(* What a switch by the worker does to a service.                           *)
LEMMA SwitchFacts ==
  ASSUME IInv, BookInv, SwitchService, NEW s
  PROVE  \/ s # entry.target /\ (s \in enabled' <=> s \in enabled) /\ ~InFlight(s)
         \/ s \in lost'
         \/ InFlight(s)' /\ entry' = entry /\ (s \in enabled' <=> Standard)
<1>1. enabled' = enabled \/ enabled' = (IF Standard THEN enabled \cup {entry.target} ELSE enabled \ {entry.target})
  BY DEF SwitchService
<1>2. CASE s # entry.target
  BY <1>1, <1>2 DEF InFlight
<1>3. CASE s = entry.target
  BY <1>3 DEF SwitchService, InFlight
<1> QED
  BY <1>2, <1>3

LEMMA ExplainedStep == ASSUME IInv, BookInv, [Next]_vars PROVE \A s \in Service : Explained(s)'
<1> SUFFICES ASSUME NEW s \in Service, s \notin Excused' PROVE Explained(s)'
  BY DEF Explained
<1>0. Fresh /\ Entries /\ WorkInv /\ Explained(s) /\ s \notin Excused /\ s \notin lost'
  BY Remembered DEF BookInv, Excused
<1>1. (CameOff(s) => CameOff(s)') /\ (CameOn(s) => CameOn(s)')
  BY <1>0, Remembered
<1>2. ASSUME s \in enabled' <=> s \in enabled
      PROVE  Explained(s)'
  <2>1. CASE InFlight(s)
    BY <1>0, <1>1, <1>2, <2>1, InFlightKept DEF Explained, CameOn, CameOff
  <2>2. CASE ~InFlight(s)
    BY <1>0, <1>1, <1>2, <2>2 DEF Explained
  <2> QED
    BY <2>1, <2>2
<1>3. CASE SwitchService
  <2>1. CASE InFlight(s)' /\ entry' = entry /\ (s \in enabled' <=> Standard)
    BY <1>0, <1>3, <2>1 DEF WorkInv, SwitchService, Explained
  <2> QED
    BY <1>0, <1>2, <1>3, <2>1, SwitchFacts
<1>4. CASE Execute /\ Undo(copy["main"][target])
  <2>1. PICK m : m = manifest[target]
    OBVIOUS
  <2>2. copy["main"][target] = m /\ Honest(m) /\ Kinded(m)
    BY <1>0, <1>4, <2>1 DEF IInv, LockInv, Execute, Entries
  <2>3. CASE s = m.target /\ m.type = "service_enabled"
    BY <1>0, <1>1, <1>4, <2>2, <2>3 DEF Honest, Undo, UndoService, Explained
  <2>4. CASE s = m.target /\ m.type = "service_disabled"
    BY <1>0, <1>1, <1>4, <2>2, <2>4 DEF Honest, Undo, UndoService, Explained
  <2>5. CASE s # m.target \/ m.type \notin ServiceTypes
    <3>1. s \in enabled' <=> s \in enabled
      BY <1>4, <2>2, <2>5 DEF Undo, UndoService, ServiceTypes
    <3> QED
      BY <1>2, <3>1
  <2> QED
    BY <2>3, <2>4, <2>5 DEF ServiceTypes
<1> QED
  BY <1>2, <1>3, <1>4, SystemSteps

(* What is being reverted stays as it was undone.                           *)
LEMMA RevertInvStep == ASSUME IInv, BookInv, [Next]_vars PROVE RevertInv'
<1>0. RevertInv /\ LockInv
  BY DEF BookInv, IInv
<1>1. CASE mainAt' = "idle"
  BY <1>1 DEF RevertInv
<1>2. CASE \E i \in DOMAIN manifest : RevertBegin(i)
  BY <1>2 DEF RevertBegin, RevertInv
<1>3. CASE Execute /\ mainAt' = "save"
  <2>1. /\ mainAt = "execute" /\ copy["main"][target] = manifest[target]
        /\ UNCHANGED <<manifest, target>> /\ Undo(manifest[target])
    BY <1>0, <1>3 DEF LockInv, Execute, RevertDone
  <2>2. PICK m : m = manifest[target]
    OBVIOUS
  <2>3. Undone(m)'
    BY <2>1, <2>2 DEF Undone, Undo, UndoService, UndoFile
  <2> QED
    BY <1>0, <2>1, <2>2, <2>3 DEF RevertInv, Undone
<1>4. ASSUME UNCHANGED main, ~Execute, mainAt # "idle"
      PROVE  RevertInv'
  <2>1. lock = "main" /\ target \in DOMAIN manifest /\ ~SaveRecord
    BY <1>0, <1>4 DEF LockInv, SaveRecord
  <2>2. UNCHANGED manifest
    BY <1>4, <2>1, ManifestSteps DEF SaveRevert, RevertDone, main
  <2>3. PICK m : m = manifest[target]
    OBVIOUS
  <2>4. ASSUME Undone(m), Kinded(m)
        PROVE  Undone(m)'
    <3>1. CASE m.target \in lost
      BY <2>4, <3>1, Remembered DEF Undone, BookInv
    <3>2. CASE InFlight(m.target)
      BY <2>1, <2>4, <3>2, InFlightKept DEF Undone
    <3>3. CASE SwitchService
      BY <2>4, <3>1, <3>2, <3>3, SwitchFacts DEF Undone, SwitchService
    <3>4. CASE WriteConfig
      <4>1. UNCHANGED enabled /\ (UNCHANGED conf \/ InFlight("conf")')
        BY <3>4 DEF WriteConfig, InFlight
      <4> QED
        BY <2>4, <3>1, <3>2, <4>1 DEF Undone, Kinded
    <3>5. CASE UNCHANGED <<enabled, conf>>
      BY <2>4, <3>1, <3>2, <3>5 DEF Undone
    <3>6. WriteConfig => UNCHANGED enabled
      BY DEF WriteConfig
    <3> QED
      BY <1>4, <3>3, <3>4, <3>5, SystemSteps
  <2>5. Kinded(m)
    BY <2>1, <2>3 DEF BookInv, Entries
  <2> QED
    BY <1>0, <1>4, <2>2, <2>3, <2>4, <2>5 DEF RevertInv, Undone, main
<1>5. UNCHANGED main \/ mainAt' = "idle" \/ Execute \/ (\E i \in DOMAIN manifest : RevertBegin(i))
  BY DEF Next, vars, Begin, Worker, CheckConfig, Scan, ScanDone, WriteConfig, SkipService,
     AskOriginal, AssumeOriginal, SwitchService, ServicesDone, Verify, VerifyDone, RebuildInitramfs, Record, SaveRecord,
     Revert, SaveRevert, RevertDone, Stop
<1>6. Execute => mainAt' \in {"save", "idle"}
  BY DEF Execute, RevertDone
<1> QED
  BY <1>1, <1>2, <1>3, <1>4, <1>5, <1>6 DEF main


Found(t) == Recorded(t) \/ InFlight(t) \/ t \in lost

(* What is found stays found, except by the save of its revert ...          *)
LEMMA FoundKept ==
  ASSUME IInv, BookInv, [Next]_vars, NEW t, Found(t)
  PROVE  Found(t)' \/ (SaveRevert /\ manifest[target].target = t)
<1>1. CASE Recorded(t)
  BY <1>1, RecordedKept DEF Found
<1>2. CASE InFlight(t)
  BY <1>2, InFlightKept DEF Found
<1>3. CASE t \in lost
  BY <1>3, Remembered DEF Found, BookInv
<1> QED
  BY <1>1, <1>2, <1>3 DEF Found

(* ... after which the target is as its entry says it was.                  *)
LEMMA FoundUndone ==
  ASSUME IInv, BookInv, [Next]_vars, SaveRevert, NEW t, manifest[target].target = t
  PROVE  \/ Found(t)'
         \/ /\ UNCHANGED system /\ Honest(manifest[target]) /\ Kinded(manifest[target])
            /\ manifest[target].type = "service_enabled" => t \notin enabled
            /\ manifest[target].type = "service_disabled" => t \in enabled
            /\ manifest[target].type \in {"file_created", "config_changed"} => conf = "absent"
<1>1. Undone(manifest[target]) /\ target \in DOMAIN manifest /\ ~SaveRecord
  BY DEF BookInv, RevertInv, IInv, LockInv, SaveRevert, SaveRecord
<1>2. t \in lost \/ InFlight(t) => Found(t)'
  BY <1>1, InFlightKept, Remembered DEF Found, BookInv
<1>3. UNCHANGED system /\ Honest(manifest[target]) /\ Kinded(manifest[target])
  BY <1>1 DEF SaveRevert, BookInv, Entries
<1> QED
  BY <1>1, <1>2, <1>3 DEF Undone

LEMMA ConfOnTheBooks ==
  ASSUME IInv, BookInv, [Next]_vars, Differs("conf")'
  PROVE  Found("conf")'
<1>0. before' = before /\ before.conf = "absent" /\ conf' # "absent"
  BY Remembered DEF BookInv, Differs
<1>1. CASE conf # "absent"
  <2>1. Found("conf")
    BY <1>0, <1>1 DEF BookInv, OnTheBooks, Differs, Found
  <2>2. CASE SaveRevert /\ manifest[target].target = "conf"
    <3>1. Found("conf")' \/ (UNCHANGED system /\ conf = "absent")
      BY <2>2, FoundUndone DEF Kinded
    <3> QED
      BY <1>1, <3>1
  <2> QED
    BY <2>1, <2>2, FoundKept
<1>2. CASE conf = "absent" /\ WriteConfig
  BY <1>0, <1>2 DEF WriteConfig, InFlight, Found
<1>3. CASE conf = "absent" /\ Execute /\ Undo(copy["main"][target])
  BY <1>0, <1>3 DEF Undo, UndoFile
<1> QED
  BY <1>0, <1>1, <1>2, <1>3, SystemSteps

LEMMA ServiceOnTheBooks ==
  ASSUME IInv, BookInv, [Next]_vars, NEW s \in Service, s \notin timedOut', Differs(s)'
  PROVE  Found(s)'
<1>0. s # "conf" /\ s \notin timedOut /\ before' = before
  BY UnitsTyped, Remembered DEF BookInv
<1>1. OneKind(s)' /\ ((s \in enabled') # (s \in before.enabled))
  BY <1>0 DEF Differs
<1>2. SUFFICES ASSUME s \notin lost' PROVE Found(s)'
  BY DEF Found
<1>3. s \notin Excused /\ s \notin Excused'
  BY <1>0, <1>2, Remembered DEF BookInv, Excused
<1>4. \A i \in DOMAIN manifest : manifest[i].target = s =>
         i \in DOMAIN manifest' /\ manifest'[i].target = s /\ manifest'[i].type = manifest[i].type
  BY <1>2, EntriesKept DEF BookInv
<1>5. OneKind(s)
  BY <1>1, <1>4 DEF OneKind
<1>6. CASE s \in enabled' <=> s \in enabled
  <2>1. Found(s)
    BY <1>0, <1>1, <1>5, <1>6 DEF BookInv, OnTheBooks, Differs, Found
  <2>2. CASE SaveRevert /\ manifest[target].target = s
    <3> DEFINE m == manifest[target]
    <3>1. SUFFICES ASSUME ~Found(s)' PROVE FALSE
      OBVIOUS
    <3>2. /\ Honest(m) /\ Kinded(m)
          /\ m.type = "service_enabled" => s \notin enabled
          /\ m.type = "service_disabled" => s \in enabled
      BY <2>2, <3>1, FoundUndone
    <3>3. target \in DOMAIN manifest
      BY <2>2 DEF IInv, LockInv, SaveRevert
    <3>4. m.type \in ServiceTypes
      BY <2>2, <3>2 DEF Kinded
    <3>5. \A i \in DOMAIN manifest : manifest[i].target = s => manifest[i].type = m.type
      BY <1>5, <2>2, <3>3 DEF OneKind
    <3>6. CASE m.type = "service_enabled"
      <4>1. s \notin before.enabled
        BY <1>3, <2>2, <3>2, <3>5, <3>6 DEF Honest, CameOff, Has
      <4> QED
        BY <1>1, <1>6, <3>2, <3>6, <4>1
    <3>7. CASE m.type = "service_disabled"
      <4>1. s \in before.enabled
        BY <1>3, <2>2, <3>2, <3>5, <3>7 DEF Honest, CameOn, Has
      <4> QED
        BY <1>1, <1>6, <3>2, <3>7, <4>1
    <3> QED
      BY <3>4, <3>6, <3>7 DEF ServiceTypes
  <2> QED
    BY <2>1, <2>2, FoundKept
<1>7. CASE ~(s \in enabled' <=> s \in enabled) /\ SwitchService
  BY <1>2, <1>7, SwitchFacts DEF Found
<1>8. CASE ~(s \in enabled' <=> s \in enabled) /\ Execute /\ Undo(copy["main"][target])
  <2>1. /\ copy["main"][target] = manifest[target] /\ target \in DOMAIN manifest
        /\ manifest[target].active /\ UNCHANGED manifest
    BY <1>8 DEF IInv, LockInv, BookInv, RevertInv, Execute
  <2>2. manifest[target].target = s
    BY <1>8, <2>1 DEF Undo, UndoService
  <2> QED
    BY <2>1, <2>2 DEF Found, Recorded
<1> QED
  BY <1>6, <1>7, <1>8, SystemSteps

LEMMA InitBooks == Init => BookInv
<1> SUFFICES ASSUME Init PROVE BookInv
  OBVIOUS
<1>1. DOMAIN << >> = {}
  OBVIOUS
<1>2. Fresh /\ Entries /\ WorkInv /\ RevertInv
  BY <1>1 DEF Init, Fresh, Entries, WorkInv, RevertInv
<1>3. \A s \in Service : Explained(s)
  BY DEF Init, Explained, CameOff, CameOn
<1>4. OnTheBooks
  BY UnitsTyped DEF Init, OnTheBooks, Differs
<1> QED
  BY <1>2, <1>3, <1>4 DEF BookInv

LEMMA BooksStep == IInv /\ BookInv /\ [Next]_vars => (IInv /\ BookInv)'
<1> SUFFICES ASSUME IInv, BookInv, [Next]_vars PROVE (IInv /\ BookInv)'
  OBVIOUS
<1>1. IInv' /\ Fresh'
  BY StepInv, FreshStep DEF BookInv
<1>2. \A t \in (Service \ timedOut') \cup {"conf"} : Differs(t)' => Found(t)'
  BY ConfOnTheBooks, ServiceOnTheBooks
<1> QED
  BY <1>1, <1>2, EntriesStep, WorkStep, RevertInvStep, ExplainedStep DEF BookInv, OnTheBooks, Found

(* Whatever Verde has changed can be found: a service that is not as it was *)
(* before Verde, or a configuration where there was none, has an active     *)
(* entry or is just being recorded, unless a fault came in between -- for   *)
(* any number of fixes, reverts and stops, in any order.                    *)
THEOREM ChangesOnTheBooks == Spec => []OnTheBooks
BY InitTyped, InitBooks, BooksStep, PTL DEF Spec, BookInv

-----------------------------------------------------------------------------
(* A fix that reports success has applied its profile.  While it runs, and  *)
(* no revert has run, each service is as the profile calls for or is still  *)
(* ahead of the worker.                                                     *)
Ahead ==
  IF at \in {"check", "scan"} THEN ToSet(left) \cup ToSet(needs)
  ELSE IF at = "switch" THEN ToSet(left) \cup {entry.target}
  ELSE IF at \in {"write", "services"} \/ (at \in {"record", "save"} /\ entry.type # "initramfs_rebuilt") THEN ToSet(left)
  ELSE {}

Goal == IF fix.kind = "suspend" THEN Service ELSE {Hibernate}

Switched == IF Standard THEN Goal \subseteq enabled \cup Ahead ELSE enabled \subseteq timedOut \cup Ahead

(* The hibernate fix has found a configuration in place or written its own, *)
Configured ==
  fix.kind = "hibernate" =>
    /\ at = "scan" /\ confOK => conf = fix.seen
    /\ at \in {"services", "switch", "verify", "initramfs", "recheck", "record", "save"} => conf \in {fix.profile, fix.seen}

(* ... and records the rebuild only when the image holds it.                *)
Rebuilt == at \in {"record", "save"} /\ entry.type = "initramfs_rebuilt" => initramfs = conf

EffectInv ==
  at # "idle" => result = "none" /\ (fix.quiet => Switched /\ Configured /\ Rebuilt)

LEMMA ToSetFacts ==
  /\ ToSet(<<>>) = {}
  /\ \A q \in Seq(Service) : ToSet(q) \subseteq Service
  /\ \A q \in Seq(Service) : q # <<>> => ToSet(q) = ToSet(Tail(q)) \cup {Head(q)}
  /\ \A q \in Seq(Service), s \in Service : ToSet(Append(q, s)) = ToSet(q) \cup {s}
<1>1. ToSet(<<>>) = {}
  BY DEF ToSet
<1>2. ASSUME NEW q \in Seq(Service), q # <<>>
      PROVE  ToSet(q) = ToSet(Tail(q)) \cup {Head(q)}
  <2>1. PICK h, r : h = Head(q) /\ r = Tail(q)
    OBVIOUS
  <2>2. /\ h = q[1] /\ 1 \in DOMAIN q
        /\ \A i \in DOMAIN r : i + 1 \in DOMAIN q /\ r[i] = q[i + 1]
    BY <1>2, <2>1
  <2>3. \A i \in DOMAIN q : i = 1 \/ (i - 1 \in DOMAIN r /\ r[i - 1] = q[i])
    BY <1>2, <2>1
  <2>4. \A e : e \in ToSet(q) <=> e \in ToSet(r) \cup {h}
    BY <2>2, <2>3 DEF ToSet
  <2> QED
    BY <2>1, <2>4
<1>3. ASSUME NEW q \in Seq(Service), NEW s \in Service
      PROVE  ToSet(Append(q, s)) = ToSet(q) \cup {s}
  <2>1. PICK r : r = Append(q, s)
    OBVIOUS
  <2>2. /\ \A i \in DOMAIN r : r[i] = s \/ (i \in DOMAIN q /\ r[i] = q[i])
        /\ \A i \in DOMAIN q : i \in DOMAIN r /\ r[i] = q[i]
        /\ \E i \in DOMAIN r : r[i] = s
    BY <1>3, <2>1, AppendFacts
  <2>3. \A e : e \in ToSet(r) <=> e \in ToSet(q) \cup {s}
    BY <2>2 DEF ToSet
  <2> QED
    BY <2>1, <2>3
<1>4. ASSUME NEW q \in Seq(Service)
      PROVE  ToSet(q) \subseteq Service
  BY DEF ToSet
<1> QED
  BY <1>1, <1>2, <1>3, <1>4

LEMMA EffectInit == Init => EffectInv
BY DEF Init, EffectInv

LEMMA BeginEffect ==
  ASSUME IInv, NEW kind \in {"suspend", "hibernate"}, NEW profile \in Profiles, Begin(kind, profile)
  PROVE  EffectInv'
<1>1. enabled \subseteq Service /\ ToSet(Services) = Service /\ ToSet(<<Hibernate>>) = {Hibernate}
  BY DEF IInv, TypeOK, SystemTypes, Service, ToSet
<1>2. /\ fix' = [kind |-> kind, profile |-> profile, seen |-> profile, quiet |-> TRUE] /\ result' = "none"
      /\ at' = IF kind = "hibernate" THEN "check" ELSE IF profile = "offload" THEN "services" ELSE "scan"
      /\ left' = IF kind = "hibernate" /\ profile = "standard" THEN <<Hibernate>> ELSE Services
      /\ UNCHANGED <<enabled, confOK>> /\ profile \in {"standard", "offload"}
  BY ModificationConstants DEF Begin, system
<1>3. Switched'
  <2>1. at' \in {"check", "scan", "services"} /\ ToSet(left') \subseteq Ahead'
    BY <1>2 DEF Ahead
  <2> QED
    BY <1>1, <1>2, <2>1 DEF Switched, Goal, Standard
<1>4. Configured' /\ Rebuilt'
  BY <1>2 DEF Configured, Rebuilt
<1> QED
  BY <1>2, <1>3, <1>4 DEF EffectInv

(* A query tells the truth or marks the service it was asked about.         *)
LEMMA AnswerFacts ==
  ASSUME NEW s, NEW answer \in BOOLEAN, Answer(s, answer)
  PROVE  /\ answer => s \in enabled
         /\ ~answer => s \notin enabled \/ s \in timedOut'
         /\ timedOut \subseteq timedOut'
BY DEF Answer

(* The loops take the service they ask about off the front of what is left. *)
LEMMA ScanEffect ==
  ASSUME IInv, EffectInv, Scan \/ Verify \/ SkipService \/ AskOriginal \/ AssumeOriginal
  PROVE  EffectInv'
<1>1. /\ left \in Seq(Service) /\ left # <<>> /\ needs \in Seq(Service)
      /\ at \in {"scan", "verify", "services"} /\ at' \in {at, "switch"}
      /\ left' = Tail(left)
      /\ UNCHANGED <<enabled, conf, initramfs, fix, confOK, result>>
  BY DEF IInv, TypeOK, WorkerTypes, Scan, Verify, SkipService, AskOriginal, AssumeOriginal, system
<1>2. SUFFICES ASSUME fix.quiet PROVE Switched' /\ Configured' /\ Rebuilt'
  BY <1>1 DEF EffectInv
<1>3. Switched /\ Configured /\ (at' = "switch" => at = "services")
  BY <1>1, <1>2 DEF EffectInv, Scan, Verify, SkipService, AskOriginal, AssumeOriginal
<1>4. Configured' /\ Rebuilt'
  BY <1>1, <1>3 DEF Configured, Rebuilt
<1>5. PICK s, old, rest : s = Head(left) /\ old = ToSet(left) /\ rest = ToSet(left')
  OBVIOUS
<1>6. s \in Service /\ old = rest \cup {s}
  BY <1>1, <1>5, HeadTail, ToSetFacts
<1>7. timedOut \subseteq timedOut'
  BY AnswerFacts DEF Scan, Verify, SkipService, AskOriginal, AssumeOriginal, history
<1>8. CASE Verify
  BY <1>1, <1>3, <1>4, <1>7, <1>8 DEF Verify, Switched, Ahead, Goal, Standard
<1>9. CASE Scan
  <2>1. PICK answer \in BOOLEAN : Answer(s, answer) /\ needs' = IF answer = Standard THEN needs ELSE Append(needs, s)
    BY <1>5, <1>9 DEF Scan
  <2>2. PICK n, m : n = ToSet(needs) /\ m = ToSet(needs')
    OBVIOUS
  <2>3. m = IF answer = Standard THEN n ELSE n \cup {s}
    BY <1>1, <1>6, <2>1, <2>2, ToSetFacts
  <2>4. Ahead = old \cup n /\ Ahead' = rest \cup m
    BY <1>5, <1>9, <2>2 DEF Ahead, Scan
  <2>5. (answer => s \in enabled) /\ (~answer => s \notin enabled \/ s \in timedOut')
    BY <2>1, AnswerFacts
  <2>6. CASE Standard
    BY <1>1, <1>3, <1>4, <1>6, <2>3, <2>4, <2>5, <2>6 DEF Switched, Goal, Standard
  <2>7. CASE ~Standard
    BY <1>1, <1>3, <1>4, <1>6, <1>7, <2>3, <2>4, <2>5, <2>7 DEF Switched, Standard
  <2> QED
    BY <2>6, <2>7
<1>10. CASE SkipService
  <2>1. Ahead = old /\ Ahead' = rest /\ ~Standard
    BY <1>5, <1>10 DEF Ahead, SkipService
  <2>2. s \notin enabled \/ s \in timedOut'
    BY <1>5, <1>10, AnswerFacts DEF SkipService
  <2> QED
    BY <1>1, <1>3, <1>4, <1>6, <1>7, <2>1, <2>2 DEF Switched, Standard
<1>11. CASE AskOriginal \/ AssumeOriginal
  <2>1. Ahead = old /\ Ahead' = rest \cup {s}
    BY <1>5, <1>11 DEF Ahead, AskOriginal, AssumeOriginal
  <2> QED
    BY <1>1, <1>3, <1>4, <1>6, <1>7, <2>1 DEF Switched, Standard, Goal
<1> QED
  BY <1>4, <1>8, <1>9, <1>10, <1>11

(* Between the loops.                                                       *)
LEMMA DecideEffect ==
  ASSUME IInv, EffectInv, CheckConfig \/ ScanDone \/ ServicesDone \/ VerifyDone, at' # "idle"
  PROVE  EffectInv'
<1>1. /\ at # "idle" /\ left \in Seq(Service) /\ needs \in Seq(Service) /\ enabled \subseteq Service
      /\ UNCHANGED <<enabled, conf, initramfs, timedOut, result>>
      /\ ScanDone \/ ServicesDone \/ VerifyDone => UNCHANGED fix
      /\ fix'.kind = fix.kind /\ fix'.profile = fix.profile /\ fix'.quiet = fix.quiet
  BY DEF IInv, TypeOK, SystemTypes, WorkerTypes, CheckConfig, ScanDone, Recheck, ServicesDone, VerifyDone, End, system, history
<1>2. SUFFICES ASSUME fix.quiet PROVE Switched' /\ Configured' /\ Rebuilt'
  BY <1>1 DEF EffectInv
<1>3. Switched /\ Configured
  BY <1>1, <1>2 DEF EffectInv
<1>4. ToSet(<<>>) = {} /\ ToSet(Services) = Service
  BY ToSetFacts DEF Service
<1>5. CASE CheckConfig
  <2>1. at = "check" /\ at' = "scan" /\ UNCHANGED <<left, needs>> /\ (confOK' => conf = fix'.seen)
    BY <1>5 DEF CheckConfig, IInv, TypeOK, WorkerTypes
  <2>2. Configured' /\ Rebuilt'
    BY <1>1, <2>1 DEF Configured, Rebuilt
  <2>3. Ahead' = Ahead
    BY <2>1 DEF Ahead
  <2> QED
    BY <1>1, <1>3, <2>2, <2>3 DEF Switched, Goal, Standard
<1>6. CASE ScanDone
  <2>1. /\ at = "scan" /\ left = <<>>
        /\ \/ at' = "recheck" /\ needs = <<>> /\ (fix.kind = "hibernate" => confOK)
           \/ at' \in {"write", "services"} /\ left' = (IF Standard \/ needs = <<>> THEN needs ELSE Services)
        /\ at' = "services" /\ fix.kind = "hibernate" => confOK
    BY <1>1, <1>6 DEF ScanDone, Recheck, End
  <2>2. Configured' /\ Rebuilt'
    BY <1>1, <1>3, <1>6, <2>1 DEF Configured, Rebuilt
  <2>3. Ahead = ToSet(needs) /\ (at' = "recheck" => Ahead = {})
    BY <1>4, <2>1 DEF Ahead
  <2>4. Switched'
    <3>1. CASE at' = "recheck"
      BY <1>1, <1>3, <2>3, <3>1 DEF Switched, Ahead, Goal, Standard
    <3>2. CASE at' # "recheck" /\ left' = needs
      BY <1>1, <1>3, <2>1, <2>3, <3>2 DEF Switched, Ahead, Goal, Standard
    <3>3. CASE at' # "recheck" /\ left' = Services /\ ~Standard
      BY <1>1, <1>4, <2>1, <3>3 DEF Switched, Ahead, Standard
    <3> QED
      BY <2>1, <3>1, <3>2, <3>3
  <2> QED
    BY <2>2, <2>4
<1>7. CASE ServicesDone \/ VerifyDone
  <2>1. at \in {"services", "verify"} /\ left = <<>> /\ at' \in {"verify", "initramfs"}
    BY <1>1, <1>7 DEF ServicesDone, VerifyDone, End
  <2>2. Ahead = {} /\ Ahead' = {}
    BY <1>4, <2>1 DEF Ahead
  <2> QED
    BY <1>1, <1>3, <1>7, <2>1, <2>2 DEF Switched, Configured, Rebuilt, Goal, Standard
<1> QED
  BY <1>5, <1>6, <1>7

(* The worker's changes and their records.                                  *)
LEMMA ChangeEffect ==
  ASSUME IInv, WorkInv, EffectInv, WriteConfig \/ SwitchService \/ RebuildInitramfs \/ Record \/ SaveRecord, at' # "idle"
  PROVE  EffectInv'
<1>1. /\ at # "idle" /\ UNCHANGED <<left, timedOut, fix, result>>
  BY DEF WriteConfig, SwitchService, RebuildInitramfs, Record, SaveRecord, End, history
<1>2. SUFFICES ASSUME fix.quiet PROVE Switched' /\ Configured' /\ Rebuilt'
  BY <1>1 DEF EffectInv
<1>3. Switched /\ Configured /\ Rebuilt
  BY <1>1, <1>2 DEF EffectInv
<1>4. CASE WriteConfig
  <2>1. /\ at = "write" /\ at' = "record" /\ UNCHANGED enabled
        /\ conf' = fix.profile /\ entry'.type # "initramfs_rebuilt"
    BY <1>4 DEF WriteConfig, End
  <2> QED
    BY <1>1, <1>3, <2>1 DEF Switched, Configured, Rebuilt, Ahead, Goal, Standard
<1>5. CASE SwitchService
  <2>1. /\ at = "switch" /\ at' = "record" /\ UNCHANGED <<conf, entry>>
        /\ enabled' = IF Standard THEN enabled \cup {entry.target} ELSE enabled \ {entry.target}
        /\ entry.type # "initramfs_rebuilt"
    BY <1>5 DEF SwitchService, End, WorkInv
  <2>2. PICK rest : rest = ToSet(left)
    OBVIOUS
  <2>3. Ahead = rest \cup {entry.target} /\ Ahead' = rest
    BY <1>1, <2>1, <2>2 DEF Ahead
  <2> QED
    BY <1>1, <1>3, <2>1, <2>3 DEF Switched, Configured, Rebuilt, Goal, Standard
<1>6. CASE RebuildInitramfs
  <2>1. /\ at = "initramfs" /\ at' = "record" /\ UNCHANGED <<enabled, conf>> /\ initramfs' = conf
        /\ entry'.type = "initramfs_rebuilt"
    BY <1>6 DEF RebuildInitramfs, End, NoEntry
  <2> QED
    BY <1>1, <1>3, <2>1 DEF Switched, Configured, Rebuilt, Ahead, Goal, Standard
<1>7. CASE Record
  BY <1>1, <1>3, <1>7 DEF Record, system, Switched, Configured, Rebuilt, Ahead, Goal, Standard
<1>8. CASE SaveRecord
  <2>1. /\ at = "save" /\ at' = "services" /\ UNCHANGED <<enabled, conf>>
        /\ entry.type # "initramfs_rebuilt"
    BY <1>8 DEF SaveRecord, End, system
  <2> QED
    BY <1>1, <1>3, <2>1 DEF Switched, Configured, Rebuilt, Ahead, Goal, Standard
<1> QED
  BY <1>4, <1>5, <1>6, <1>7, <1>8

LEMMA EffectStep == IInv /\ BookInv /\ EffectInv /\ [Next]_vars => EffectInv'
<1> SUFFICES ASSUME IInv, BookInv, EffectInv, [Next]_vars PROVE EffectInv'
  OBVIOUS
<1>1. CASE at' = "idle"
  BY <1>1 DEF EffectInv
<1>2. CASE Worker
  BY <1>1, <1>2, ScanEffect, DecideEffect, ChangeEffect DEF Worker, BookInv
<1>3. CASE Execute
  BY <1>3 DEF Execute, EffectInv, IInv, TypeOK, WorkerTypes
<1>4. CASE UNCHANGED <<system, worker, timedOut>>
  BY <1>4 DEF system, worker, EffectInv, Switched, Configured, Rebuilt, Ahead, Goal, Standard
<1>5. CASE Stop
  BY <1>1, <1>4, <1>5 DEF Stop, End
<1>6. CASE SaveRevert \/ (\E i \in DOMAIN manifest : RevertBegin(i)) \/ UNCHANGED vars
  BY <1>4, <1>6 DEF SaveRevert, RevertBegin, vars, history
<1> QED
  BY <1>2, <1>3, <1>5, <1>6, BeginEffect DEF Next, Revert

(* The steps that end a fix with success.                                   *)
LEMMA EndEffect ==
  ASSUME IInv, BookInv, EffectInv, [Next]_vars, at # "idle", result' = "ok", fix.quiet
  PROVE  Applied
<1>0. result = "none" /\ Switched /\ Configured /\ Rebuilt
  BY DEF EffectInv
<1>1. ToSet(<<>>) = {}
  BY ToSetFacts
<1>2. CASE ScanDone /\ left = <<>> /\ needs = <<>> /\ fix.kind = "suspend"
  BY <1>0, <1>1, <1>2 DEF ScanDone, Applied, Switched, Ahead, Goal
<1>3. CASE (ServicesDone \/ VerifyDone) /\ left = <<>> /\ fix.kind = "suspend"
  BY <1>0, <1>1, <1>3 DEF ServicesDone, VerifyDone, Applied, Switched, Ahead, Goal
<1>4. CASE RebuildInitramfs /\ at = "recheck" /\ initramfs' = conf
  BY <1>0, <1>4 DEF Applied, Switched, Configured, Ahead, Goal
<1>5. CASE SaveRecord /\ entry.type = "initramfs_rebuilt"
  BY <1>0, <1>5 DEF SaveRecord, system, Applied, Switched, Configured, Rebuilt, Ahead, Goal
<1>6. SaveRecord => entry.type = "initramfs_rebuilt"
  BY <1>0 DEF SaveRecord, End
<1>7. RebuildInitramfs => at = "recheck" /\ initramfs' = conf
  BY <1>0 DEF RebuildInitramfs, End
<1>8. ScanDone => left = <<>> /\ needs = <<>> /\ fix.kind = "suspend"
  BY <1>0 DEF ScanDone, Recheck, End
<1>9. ServicesDone \/ VerifyDone => left = <<>> /\ fix.kind = "suspend"
  BY <1>0 DEF ServicesDone, VerifyDone, End, IInv, TypeOK, WorkerTypes
<1>10. CASE Worker
  BY <1>0, <1>2, <1>3, <1>4, <1>5, <1>6, <1>7, <1>8, <1>9, <1>10
     DEF Worker, CheckConfig, Scan, WriteConfig, SkipService, AskOriginal, AssumeOriginal, SwitchService, Verify, Record, End
<1> QED
  BY <1>0, <1>10 DEF Next, Begin, Revert, Execute, SaveRevert, RevertBegin, Stop, End, vars, worker

(* A fix that reports success has put services, configuration and initramfs *)
(* in the state its profile calls for, if no revert ran meanwhile and no    *)
(* query timed out -- from whatever state earlier fixes, reverts and stops  *)
(* left, and whatever the second detection of the display answers: if that  *)
(* is another profile, its configuration may be the one left and built in.  *)
THEOREM FixesTakeEffect == Spec => FixEffective
<1>1. IInv /\ BookInv /\ EffectInv /\ [Next]_vars
        => [at # "idle" /\ result' = "ok" /\ fix.quiet => Applied]_vars
  BY EndEffect
<1> QED
  BY <1>1, InitTyped, InitBooks, EffectInit, BooksStep, EffectStep, PTL DEF Spec, FixEffective
=============================================================================
