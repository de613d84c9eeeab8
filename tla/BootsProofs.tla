---------------------------- MODULE BootsProofs ----------------------------
(***************************************************************************)
(* Proofs about Boots, for any driver versions and managed files, and any   *)
(* number of reboots, edits, installs, stops and faults: the audit log and  *)
(* the baseline agree, nothing is reported that did not change, and an      *)
(* install is recapped rightly.                                             *)
(***************************************************************************)
EXTENDS Boots, TLAPS

Facts == [Fields -> Nat]

FactTypes ==
  /\ now \in Facts /\ saved \in Facts /\ seen \in Facts /\ look \in Facts /\ trail \in Facts
  /\ pkg \in Nat

(* Where the detection is, and what it has to go by there.                  *)
ScanInv ==
  /\ file \in {"absent", "torn", "whole"}
  /\ pc \in {"off", "named", "compare", "report", "capture", "open", "write", "emit", "up"}
  /\ pc \in {"compare", "report"} => file = "whole" /\ ~first
  /\ pc \in {"capture", "open"} => (first <=> file # "whole")
  /\ pc = "write" => file = "torn"
  /\ pc \in {"capture", "open", "write"} /\ ~first => found = told
  /\ pc \notin {"report", "capture", "open", "write", "emit"} => told = {}
  /\ told \subseteq found

(* NoFalseAlarm: a fact that has not changed is as the baseline, or the     *)
(* capture that becomes one, has it; or could not be read then.             *)
Alike(facts, f) == facts[f] = now[f] \/ (f \in Guarded /\ facts[f] = 0)
ChangeInv ==
  /\ file = "whole" => \A f \in Fields \ changed : Alike(saved, f)
  /\ pc \in {"open", "write"} => \A f \in Fields \ fresh : Alike(look, f)
  /\ NoFalseAlarm

(* TrailAgrees: the log has the baseline's facts, but for those the running *)
(* detection has written as it saw them, or tried to.                       *)
Written == IF pc \in {"report", "capture", "open", "write"} THEN told ELSE {}
Based   == file = "whole" \/ (pc = "write" /\ ~first)
TrailInv ==
  /\ Based => \A f \in Fields \ (excused \cup Written) : trail[f] = saved[f]
  /\ Based => \A f \in Guarded \ excused : saved[f] # 0
  /\ \A f \in (Written \cap Fields) \ excused : trail[f] = seen[f]
  /\ pc \in {"report", "capture", "open", "write"} /\ ~first =>
       \A f \in Fields : f \in found <=> Differs(f, saved[f], seen[f])

(* RecapRight: what is expected is what was asked for, from apt until the   *)
(* recap, and what was put in place is what runs, unless it does not load or *)
(* something else came in between.                                          *)
RecapInv ==
  /\ due = "apt" /\ job.kind = "branch" => job.expect = asked
  /\ due \in {"early", "booted"} /\ pending.kind = "branch" => pending.expect = asked
  /\ due = "booted" => now["version"] \in {pkg, 0}

IInv == FactTypes /\ ScanInv /\ ChangeInv /\ TrailInv /\ RecapInv
-----------------------------------------------------------------------------
(* Types.                                                                   *)

LEMMA FieldFacts ==
  /\ "version" \in Fields /\ Type \in Fields /\ "kernel" \in Fields /\ Files \subseteq Fields
  /\ "version" \notin Files /\ Type # "version" /\ Guarded \subseteq Fields
  /\ Blank \in Facts /\ Versions \subseteq Nat \ {0}
BY BootsConstants DEF Fields, Guarded, Type, Blank, Facts

LEMMA LooksTyped == ASSUME now \in Facts, NEW facts \in Looks
                    PROVE  facts \in Facts /\ \A f \in Fields : facts[f] = now[f] \/ (f \in Guarded /\ facts[f] = 0)
BY DEF Looks, Facts

LEMMA InitTyped == Init => FactTypes
BY FieldFacts DEF Init, FactTypes, Facts

LEMMA ForgetTyped == ASSUME ScanOver PROVE seen' \in Facts /\ look' \in Facts
BY FieldFacts DEF ScanOver

LEMMA BootTyped == ASSUME FactTypes, Boot PROVE FactTypes'
<1>1. PICK v \in {pkg, 0}, k \in 0..1 :
        now' = [now EXCEPT !["version"] = v, ![Type] = IF v = 0 THEN 1 ELSE 2, !["kernel"] = @ + k]
  BY DEF Boot, Becomes
<1>2. now' \in Facts
  BY <1>1, FieldFacts DEF FactTypes, Facts
<1> QED
  BY <1>2, ForgetTyped DEF Boot, Forget, FactTypes, store

LEMMA EditTyped == ASSUME FactTypes, NEW f \in Files, Edit(f) PROVE FactTypes'
<1>1. PICK c \in 0..2 : now' = [now EXCEPT ![f] = c]
  BY DEF Edit, Becomes
<1>2. now' \in Facts
  BY <1>1, FieldFacts DEF FactTypes, Facts
<1> QED
  BY <1>2 DEF Edit, FactTypes, store, scan

LEMMA StepTyped == FactTypes /\ [Next]_vars => FactTypes'
<1> SUFFICES ASSUME FactTypes, [Next]_vars PROVE FactTypes'
  OBVIOUS
<1> USE DEF FactTypes
<1>1. CASE UNCHANGED vars
  BY <1>1 DEF vars, machine, store, scan, notes
<1>2. CASE Stop
  BY <1>2, ForgetTyped DEF Stop, Forget, machine, store
<1>3. CASE Start \/ Load \/ Reported
  BY <1>3 DEF Start, Load, Reported, machine, store, scan, notes
<1>4. CASE Compare
  BY <1>4, LooksTyped DEF Compare, machine, store, notes
<1>5. CASE DetectionFails \/ Emit
  BY <1>5, ForgetTyped DEF DetectionFails, GivesUp, Emit, machine, store, notes
<1>6. CASE Capture
  BY <1>6, LooksTyped DEF Capture, machine, store
<1>7. CASE Open
  BY <1>7 DEF Open, machine, scan
<1>8. CASE Write
  BY <1>8 DEF Write, machine, scan, store, notes
<1>9. CASE \E v \in Versions : InstallOutside(v)
  BY <1>9, FieldFacts DEF InstallOutside, store, scan, notes
<1>10. CASE \E f \in Fields : Report(f)
  BY <1>10 DEF Report, machine, store, Facts
<1>11. CASE PackagesInPlace
  BY <1>11, FieldFacts DEF PackagesInPlace, store, scan, notes
<1>12. CASE WritePending \/ OpenWindow \/ Connect \/ GetPostRebootSummary \/ AskFails \/ Respond
            \/ ClearPostRebootSummary \/ Dismiss \/ CloseWindow
  BY <1>12 DEF WritePending, OpenWindow, Connect, GetPostRebootSummary, AskFails, Respond, ClearPostRebootSummary,
     Dismiss, CloseWindow, machine, store, scan, notes
<1> QED
  BY <1>1, <1>2, <1>3, <1>4, <1>5, <1>6, <1>7, <1>8, <1>9, <1>10, <1>11, <1>12, BootTyped, EditTyped DEF Next
-----------------------------------------------------------------------------
(* The detection.                                                           *)

Window == WritePending \/ OpenWindow \/ Connect \/ GetPostRebootSummary \/ AskFails \/ Respond
          \/ ClearPostRebootSummary \/ Dismiss \/ CloseWindow

LEMMA StepKeepsScan == ScanInv /\ [Next]_vars => ScanInv'
<1> SUFFICES ASSUME ScanInv, [Next]_vars PROVE ScanInv'
  OBVIOUS
<1> USE DEF ScanInv
<1>1. CASE UNCHANGED vars
  BY <1>1 DEF vars, store, scan
<1>2. CASE Boot \/ Stop
  BY <1>2 DEF Boot, Stop, Forget, ScanOver, store
<1>3. CASE Start \/ Reported
  BY <1>3 DEF Start, Reported, store, scan
<1>13. CASE Load
  <2>1. pc = "named" /\ UNCHANGED <<file, found, told>>
    BY <1>13 DEF Load, store
  <2>2. CASE file = "whole"
    <3>1. ~first' /\ pc' = "compare"
      BY <1>13, <2>2 DEF Load
    <3> QED
      BY <2>1, <2>2, <3>1
  <2>3. CASE file # "whole"
    <3>1. first' /\ pc' = "capture"
      BY <1>13, <2>3 DEF Load
    <3> QED
      BY <2>1, <2>3, <3>1
  <2> QED
    BY <2>2, <2>3
<1>4. CASE Compare
  <2>1. pc = "compare" /\ pc' = "report" /\ UNCHANGED <<store, first, told>>
    BY <1>4 DEF Compare
  <2> QED
    BY <2>1 DEF store
<1>12. CASE Capture
  <2>1. pc = "capture" /\ pc' = "open" /\ UNCHANGED <<store, first, found, told>>
    BY <1>12 DEF Capture
  <2> QED
    BY <2>1 DEF store
<1>5. CASE DetectionFails \/ Emit
  BY <1>5 DEF DetectionFails, GivesUp, Emit, ScanOver, store
<1>6. CASE Open
  BY <1>6 DEF Open, store, scan
<1>11. CASE Write
  BY <1>11 DEF Write, store, scan
<1>7. CASE \E v \in Versions : InstallOutside(v)
  BY <1>7 DEF InstallOutside, store, scan
<1>8. CASE \E f \in Files : Edit(f)
  BY <1>8 DEF Edit, store, scan
<1>9. CASE \E f \in Fields : Report(f)
  BY <1>9 DEF Report, store
<1>10. CASE PackagesInPlace \/ Window
  BY <1>10 DEF PackagesInPlace, Window, WritePending, OpenWindow, Connect, GetPostRebootSummary, AskFails, Respond,
     ClearPostRebootSummary, Dismiss, CloseWindow, store, scan
<1> QED
  BY <1>1, <1>2, <1>3, <1>4, <1>5, <1>6, <1>7, <1>8, <1>9, <1>10, <1>11, <1>12, <1>13 DEF Next, Window
-----------------------------------------------------------------------------
(* What changed.                                                            *)

LEMMA BecomesKeepsChange ==
  ASSUME FactTypes, ScanInv, ChangeInv, NEW facts, Becomes(facts), UNCHANGED <<saved, look, file>>,
         pc' \in {pc, "off"}, pc' = "report" => found' = found
  PROVE  ChangeInv'
<1>1. \A f \in Fields : now'[f] # now[f] => (file = "whole" => f \in changed') /\ (pc \in {"open", "write"} => f \in fresh')
  BY DEF Becomes
<1>2. file = "whole" => changed \subseteq changed'
  BY DEF Becomes
<1>3. pc \in {"open", "write"} => fresh \subseteq fresh'
  BY DEF Becomes
<1>4. file' = "whole" => \A f \in Fields \ changed' : Alike(saved, f)'
  BY <1>1, <1>2 DEF ChangeInv, Alike
<1>5. pc' \in {"open", "write"} => \A f \in Fields \ fresh' : Alike(look, f)'
  BY <1>1, <1>3 DEF ChangeInv, Alike
<1>6. NoFalseAlarm'
  BY <1>2 DEF ChangeInv, NoFalseAlarm, ScanInv
<1> QED
  BY <1>4, <1>5, <1>6 DEF ChangeInv

LEMMA StepKeepsChange == FactTypes /\ ScanInv /\ ChangeInv /\ [Next]_vars => ChangeInv'
<1> SUFFICES ASSUME FactTypes, ScanInv, ChangeInv, [Next]_vars PROVE ChangeInv'
  OBVIOUS
<1>1. ASSUME UNCHANGED <<now, file, saved, changed>>,
             pc' \in {"open", "write"} => pc \in {"open", "write"} /\ UNCHANGED <<look, fresh>>,
             pc' = "report" => pc = "report" /\ UNCHANGED found
      PROVE  ChangeInv'
  BY <1>1 DEF ChangeInv, NoFalseAlarm, Alike
<1>2. CASE UNCHANGED vars
  BY <1>1, <1>2 DEF vars, machine, store, scan, notes
<1>3. CASE Boot
  BY <1>3, BecomesKeepsChange DEF Boot, Forget, ScanOver, store, ChangeInv, NoFalseAlarm, Alike, Becomes
<1>4. CASE \E f \in Files : Edit(f)
  BY <1>4, BecomesKeepsChange DEF Edit, store, scan
<1>5. CASE Stop \/ Start \/ Load \/ Reported
  BY <1>1, <1>5 DEF Stop, Forget, Start, Load, Reported, machine, store, scan, notes
<1>6. CASE DetectionFails \/ Emit
  BY <1>1, <1>6 DEF DetectionFails, GivesUp, Emit, machine, store, notes
<1>7. CASE (\E v \in Versions : InstallOutside(v)) \/ PackagesInPlace
  BY <1>1, <1>7 DEF InstallOutside, PackagesInPlace, store, scan, notes
<1>8. CASE \E f \in Fields : Report(f)
  BY <1>1, <1>8 DEF Report, machine, store
<1>9. CASE Window
  BY <1>1, <1>9 DEF Window, WritePending, OpenWindow, Connect, GetPostRebootSummary, AskFails, Respond,
     ClearPostRebootSummary, Dismiss, CloseWindow, machine, store, scan, notes
<1>10. CASE Compare
  <2>1. PICK facts \in Looks : found' = {f \in Fields : Differs(f, saved[f], facts[f])}
    BY <1>10 DEF Compare
  <2>2. \A f \in Fields : facts[f] = now[f] \/ (f \in Guarded /\ facts[f] = 0)
    BY LooksTyped DEF FactTypes
  <2>3. \A f \in Fields \ changed : Alike(saved, f)
    BY <1>10 DEF Compare, ScanInv, ChangeInv
  <2>4. found' \subseteq changed
    BY <2>1, <2>2, <2>3 DEF Alike, Differs
  <2> QED
    BY <1>10, <2>4 DEF Compare, ChangeInv, NoFalseAlarm, Alike, machine, store, notes
<1>11. CASE Capture
  <2>1. \A f \in Fields : Alike(look, f)'
    BY <1>11, LooksTyped DEF Capture, FactTypes, Alike, machine
  <2> QED
    BY <1>11, <2>1 DEF Capture, ChangeInv, NoFalseAlarm, Alike, machine, store
<1>12. CASE Open
  BY <1>12 DEF Open, ChangeInv, NoFalseAlarm, Alike, machine, scan
<1>13. CASE Write
  BY <1>13 DEF Write, ChangeInv, NoFalseAlarm, Alike, machine, scan, store, notes
<1> QED
  BY <1>2, <1>3, <1>4, <1>5, <1>6, <1>7, <1>8, <1>9, <1>10, <1>11, <1>12, <1>13 DEF Next, Window
-----------------------------------------------------------------------------
(* The log and the baseline.                                                *)

LEMMA TrailUntouched ==
  ASSUME ScanInv, TrailInv, UNCHANGED <<file, saved, first, seen, found, told, trail, excused>>,
         pc' = pc \/ (pc = "report" /\ pc' = "capture") \/ (pc = "capture" /\ pc' = "open")
  PROVE  TrailInv'
BY DEF TrailInv, Based, Written

LEMMA TrailOfNone ==
  ASSUME ScanInv, TrailInv, UNCHANGED <<file, saved, trail>>, pc' \in {"off", "named", "compare", "up"},
         told' = {}, excused \subseteq excused', Written \subseteq excused'
  PROVE  TrailInv'
<1>1. Written' = {} /\ (Based' <=> file = "whole")
  BY DEF Written, Based
<1> QED
  BY <1>1 DEF TrailInv, Based

LEMMA ForgetKeepsTrail ==
  ASSUME ScanInv, TrailInv, Forget, UNCHANGED <<file, saved, trail>>
  PROVE  TrailInv'
<1>1. excused \subseteq excused' /\ Written \subseteq excused' /\ told' = {} /\ pc' = "off"
  BY DEF Forget, ScanOver, Written, ScanInv
<1> QED
  BY <1>1, TrailOfNone

LEMMA StepKeepsTrail == FactTypes /\ ScanInv /\ TrailInv /\ [Next]_vars => TrailInv'
<1> SUFFICES ASSUME FactTypes, ScanInv, TrailInv, [Next]_vars PROVE TrailInv'
  OBVIOUS
<1>1. CASE UNCHANGED vars
  BY <1>1, TrailUntouched DEF vars, store, scan, notes
<1>2. CASE Boot \/ Stop
  BY <1>2, ForgetKeepsTrail DEF Boot, Stop, store
<1>3. CASE Start \/ Load
  <2>1. /\ Written = {} /\ told' = told /\ told = {} /\ UNCHANGED <<file, saved, trail, excused>>
        /\ pc' \in {"named", "compare"} \/ (pc' = "capture" /\ file # "whole" /\ first')
    BY <1>3 DEF Start, Load, Written, ScanInv, store, scan, notes
  <2>2. CASE pc' \in {"named", "compare"}
    BY <2>1, <2>2, TrailOfNone
  <2>3. CASE pc' = "capture" /\ file # "whole" /\ first'
    BY <2>1, <2>3 DEF TrailInv, Based, Written
  <2> QED
    BY <2>1, <2>2, <2>3
<1>4. CASE Reported
  BY <1>4, TrailUntouched DEF Reported, store, scan, notes
<1>5. CASE Capture
  BY <1>5, TrailUntouched DEF Capture, store
<1>6. CASE Compare
  <2>1. \A f \in Fields : f \in found' <=> Differs(f, saved[f], seen'[f])
    BY <1>6 DEF Compare
  <2>2. Written = {} /\ Written' = {} /\ Based /\ Based' /\ UNCHANGED <<saved, trail, excused>>
    BY <1>6 DEF Compare, Written, ScanInv, Based, store, notes
  <2>3. saved' = saved /\ pc' = "report"
    BY <1>6 DEF Compare, store
  <2> QED
    BY <2>1, <2>2, <2>3 DEF TrailInv
<1>7. CASE \E f \in Fields : Report(f)
  <2>1. PICK f \in Fields : Report(f)
    BY <1>7
  <2>2. /\ pc = "report" /\ pc' = "report" /\ told' = told \cup {f} /\ f \in found
        /\ UNCHANGED <<file, saved, first, seen, found>>
    BY <2>1 DEF Report, store
  <2>3. Written = told /\ Written' = told \cup {f} /\ Based /\ Based' /\ ~first
    BY <2>2 DEF Written, Based, ScanInv
  <2>4. Differs(f, saved[f], seen[f])
    BY <2>2, <2>3 DEF TrailInv
  <2>5. CASE trail' = [trail EXCEPT ![f] = seen[f]] /\ excused' = excused \ {f}
    <3>1. \A g \in Fields : trail'[g] = IF g = f THEN seen[f] ELSE trail[g]
      BY <2>5 DEF FactTypes, Facts
    <3>2. f \in Guarded => saved[f] # 0
      BY <2>4 DEF Differs
    <3> QED
      BY <2>2, <2>3, <2>5, <3>1, <3>2 DEF TrailInv
  <2>6. CASE excused' = excused \cup {f} /\ UNCHANGED trail
    BY <2>2, <2>3, <2>6 DEF TrailInv
  <2> QED
    BY <2>1, <2>5, <2>6 DEF Report
<1>8. CASE DetectionFails
  BY <1>8, TrailOfNone DEF DetectionFails, GivesUp, ScanOver, Written, store
<1>9. CASE Open
  <2>1. CASE file' = "torn" /\ pc' = "write" /\ UNCHANGED excused
    BY <1>9, <2>1 DEF Open, TrailInv, Based, Written, ScanInv, scan
  <2>2. CASE pc' = "emit" /\ excused' = excused \cup told /\ UNCHANGED file
    BY <1>9, <2>2 DEF Open, TrailInv, Based, Written, ScanInv, scan
  <2> QED
    BY <1>9, <2>1, <2>2 DEF Open
<1>10. CASE Write
  <2>1. CASE UNCHANGED <<store, notes>>
    BY <1>10, <2>1 DEF Write, TrailInv, Based, Written, ScanInv, store, scan, notes
  <2>2. CASE file' = "whole" /\ saved' = look /\ trail' = (IF first THEN look ELSE trail)
             /\ excused' = Unknown \cup (IF first THEN {} ELSE excused \cup {f \in Fields : look[f] # seen[f]})
    <3>1. \A f \in Guarded \ excused' : saved'[f] # 0
      BY <2>2 DEF Unknown
    <3>2. ASSUME NEW f \in Fields \ excused' PROVE trail'[f] = saved'[f]
      <4>1. CASE first
        BY <2>2, <4>1
      <4>2. CASE ~first
        <5>1. f \notin excused /\ look[f] = seen[f] /\ (f \in Guarded => look[f] # 0) /\ trail' = trail /\ saved' = look
          BY <2>2, <3>2, <4>2 DEF Unknown
        <5>2. Based /\ Written = told /\ found = told
          BY <1>10, <4>2 DEF Write, Based, Written, ScanInv
        <5>3. CASE f \in told
          BY <5>1, <5>2, <5>3 DEF TrailInv
        <5>4. CASE f \notin told
          <6>1. trail[f] = saved[f] /\ (f \in Guarded => saved[f] # 0)
            BY <5>1, <5>2, <5>4 DEF TrailInv
          <6>2. ~Differs(f, saved[f], seen[f])
            BY <1>10, <4>2, <5>2, <5>4 DEF TrailInv, Write
          <6> QED
            BY <5>1, <6>1, <6>2 DEF Differs
        <5> QED
          BY <5>3, <5>4
      <4> QED
        BY <4>1, <4>2
    <3>3. Written' = {} /\ pc' = "emit"
      BY <1>10 DEF Write, Written
    <3> QED
      BY <3>1, <3>2, <3>3 DEF TrailInv
  <2> QED
    BY <1>10, <2>1, <2>2 DEF Write
<1>11. CASE Emit
  <2>1. Written = {}
    BY <1>11 DEF Emit, Written, ScanInv
  <2> QED
    BY <1>11, <2>1 DEF Emit, ScanOver, TrailInv, Based, Written, store, notes
<1>12. CASE (\E v \in Versions : InstallOutside(v)) \/ PackagesInPlace
  BY <1>12, TrailUntouched DEF InstallOutside, PackagesInPlace, store, scan, notes
<1>13. CASE \E f \in Files : Edit(f)
  BY <1>13, TrailUntouched DEF Edit, store, scan
<1>14. CASE Window
  BY <1>14, TrailUntouched DEF Window, WritePending, OpenWindow, Connect, GetPostRebootSummary, AskFails, Respond,
     ClearPostRebootSummary, Dismiss, CloseWindow, store, scan, notes
<1> QED
  BY <1>1, <1>2, <1>3, <1>4, <1>5, <1>6, <1>7, <1>8, <1>9, <1>10, <1>11, <1>12, <1>13, <1>14 DEF Next, Window
-----------------------------------------------------------------------------
(* The recap.                                                               *)

LEMMA StepKeepsRecap == FactTypes /\ RecapInv /\ [Next]_vars => RecapInv'
<1> SUFFICES ASSUME FactTypes, RecapInv, [Next]_vars PROVE RecapInv'
  OBVIOUS
<1>1. CASE UNCHANGED <<now, pkg, job, pending, due, asked>> \/ (due' \in {"none", "disturbed"})
  BY <1>1 DEF RecapInv
<1>2. CASE UNCHANGED vars
  BY <1>1, <1>2 DEF vars, machine
<1>3. CASE Boot
  <2>1. PICK v \in {pkg, 0}, k \in 0..1 :
          now' = [now EXCEPT !["version"] = v, ![Type] = IF v = 0 THEN 1 ELSE 2, !["kernel"] = @ + k]
    BY <1>3 DEF Boot, Becomes
  <2>2. now'["version"] \in {pkg, 0}
    BY <2>1, FieldFacts DEF FactTypes, Facts, Type
  <2>3. UNCHANGED <<pkg, pending, asked>> /\ due' = IF due = "early" THEN "booted" ELSE Unfinished
    BY <1>3 DEF Boot
  <2>4. due' # "apt" /\ (due' \in {"early", "booted"} => due \in {"early", "booted"})
    BY <2>3 DEF Unfinished
  <2> QED
    BY <2>2, <2>3, <2>4 DEF RecapInv
<1>4. CASE Stop
  BY <1>4 DEF Stop, Unfinished, RecapInv, machine
<1>5. CASE \E f \in Files : Edit(f)
  <2>1. PICK f \in Files : Edit(f)
    BY <1>5
  <2>2. PICK c \in 0..2 : now' = [now EXCEPT ![f] = c]
    BY <2>1 DEF Edit, Becomes
  <2>3. now'["version"] = now["version"]
    BY <2>2, FieldFacts DEF FactTypes, Facts
  <2> QED
    BY <2>1, <2>3 DEF Edit, RecapInv
<1>6. CASE \E v \in Versions : InstallOutside(v)
  BY <1>1, <1>6 DEF InstallOutside, Disturb
<1>7. CASE PackagesInPlace
  BY <1>7 DEF PackagesInPlace, RecapInv
<1>8. CASE WritePending
  BY <1>8 DEF WritePending, Expected, RecapInv, machine
<1>9. CASE ClearPostRebootSummary
  BY <1>1, <1>9 DEF ClearPostRebootSummary
<1>10. CASE Start \/ Load \/ Compare \/ Reported \/ DetectionFails \/ Capture \/ Open \/ Write \/ Emit
            \/ (\E f \in Fields : Report(f))
  BY <1>1, <1>10 DEF Start, Load, Compare, Reported, DetectionFails, Capture, Open, Write, Emit, Report, machine
<1>11. CASE OpenWindow \/ Connect \/ GetPostRebootSummary \/ AskFails \/ Respond \/ Dismiss \/ CloseWindow
  BY <1>1, <1>11 DEF OpenWindow, Connect, GetPostRebootSummary, AskFails, Respond, Dismiss, CloseWindow, machine
<1> QED
  BY <1>2, <1>3, <1>4, <1>5, <1>6, <1>7, <1>8, <1>9, <1>10, <1>11 DEF Next
-----------------------------------------------------------------------------
(* The theorems.                                                            *)

LEMMA InitInv == Init => IInv
<1> SUFFICES ASSUME Init PROVE IInv
  OBVIOUS
<1>1. ScanInv /\ ChangeInv
  BY DEF Init, ScanInv, ChangeInv, NoFalseAlarm
<1>2. TrailInv /\ RecapInv
  BY DEF Init, TrailInv, Based, Written, RecapInv
<1> QED
  BY <1>1, <1>2, InitTyped DEF IInv

LEMMA StepInv == IInv /\ [Next]_vars => IInv'
BY StepTyped, StepKeepsScan, StepKeepsChange, StepKeepsTrail, StepKeepsRecap DEF IInv

LEMMA Invariant == Spec => []IInv
BY InitInv, StepInv, PTL DEF Spec

(* The audit log replays to the baseline, over any number of boots, stops,  *)
(* failed writes and torn files, but for the fields set apart, those whose  *)
(* entry could not be written among them.                                   *)
THEOREM TrailAgreesCorrect == Spec => []TrailAgrees
<1>1. IInv => TrailAgrees
  BY DEF IInv, TrailInv, TrailAgrees, Based, Written
<1> QED
  BY <1>1, Invariant, PTL

(* Only what has changed since the baseline was captured is reported.       *)
THEOREM NoFalseAlarmCorrect == Spec => []NoFalseAlarm
BY Invariant, PTL DEF IInv, ChangeInv

Told == IF now["version"] = 0 THEN "failed" ELSE IF Branch[pkg] = asked THEN "success" ELSE "partial"

LEMMA RecapOfInstall ==
  ASSUME IInv, GetPostRebootSummary, gui' = "dialog", pending.kind = "branch", due = "booted"
  PROVE  recap' = Told
<1>1. PICK v \in {now["version"]} \cup (IF pkg # now["version"] THEN {0} ELSE {}) : recap' = Result(v)
  BY DEF GetPostRebootSummary
<1>2. now["version"] \in {pkg, 0} /\ pending.expect = asked
  BY DEF IInv, RecapInv
<1>3. v = now["version"]
  BY <1>1, <1>2
<1>4. Matches(v, pending) <=> Branch[v] = asked
  BY <1>2 DEF Matches
<1> QED
  BY <1>1, <1>2, <1>3, <1>4 DEF Result, Told

(* An install that nothing else has touched is recapped as what it was: as  *)
(* partial only if apt put another branch in place than the one asked for.  *)
THEOREM RecapRightCorrect == Spec => RecapRight
<1>1. IInv /\ [Next]_vars =>
        [gui' = "dialog" /\ gui # "dialog" /\ pending.kind = "branch" /\ due = "booted" => recap' = Told]_vars
  <2> SUFFICES ASSUME IInv, Next, gui' = "dialog", gui # "dialog", pending.kind = "branch", due = "booted"
               PROVE  recap' = Told
    OBVIOUS
  <2>1. GetPostRebootSummary
    BY DEF Next, Boot, Stop, Start, Load, Compare, Reported, DetectionFails, Capture, Open, Write, Emit,
       InstallOutside, Edit, Report, PackagesInPlace, WritePending, OpenWindow, Connect, AskFails, Respond,
       ClearPostRebootSummary, Dismiss, CloseWindow, window
  <2> QED
    BY <2>1, RecapOfInstall
<1> QED
  BY <1>1, Invariant, PTL DEF Spec, RecapRight, Told
=============================================================================
