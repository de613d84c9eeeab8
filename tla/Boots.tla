------------------------------- MODULE Boots -------------------------------
(***************************************************************************)
(* What Verde carries over from one boot, and one run of the daemon, to the *)
(* next: the baseline of system facts that every start compares with, and   *)
(* the recap of the last install or rollback that the window shows.         *)
(*                                                                         *)
(* The daemon's main thread runs the detection as one callback, so clients  *)
(* are served before and after it; a worker, apt, and whoever edits files   *)
(* go on while it runs.  A fact is a number: 0 is a version or a type that  *)
(* cannot be read, and a file that is not there.  The reads of one          *)
(* comparison, or of one capture, count as one step.  A file that exists    *)
(* can be read, the daemon being root.                                      *)
(***************************************************************************)
EXTENDS Naturals, FiniteSets

CONSTANTS
  Branch,     \* the branch of every driver version: a function on 1..n
  Files,      \* MANAGED_CONFIGS
  MaxEvents,  \* bound: reboots, edits, installs of any kind, windows opened
  MaxFaults   \* bound: unreadable facts, failed calls and writes, stops in mid-work

Versions == DOMAIN Branch
Type     == "type"
Guarded  == {"version", Type}
Fields   == Guarded \cup {"kernel"} \cup Files

ASSUME BootsConstants ==
  /\ Versions \subseteq Nat \ {0} /\ Branch \in [Versions -> Nat \ {0}]
  /\ Files \cap (Guarded \cup {"kernel"}) = {}
  /\ MaxEvents \in Nat /\ MaxFaults \in Nat

VARIABLES
  now,      \* the facts
  pkg,      \* the version on disk, which the next boot loads
  file,     \* last_state.json: absent, torn or whole
  saved,    \* the facts it holds
  pc,       \* where the daemon's main thread is
  first,    \* load_previous_state has returned None
  seen,     \* the facts as the comparison saw them
  found,    \* the fields it found changed
  told,     \* those it has handed to the audit log
  look,     \* the facts as captured for the next baseline
  job,      \* the operation whose packages are in place and recap is not
  pending,  \* pending-summary.json
  gui,      \* where the window is
  recap,    \* the result in its dialog
  banner,   \* its banner tells of changes
  clear,    \* its ClearPostRebootSummary is on the way
  events, faults,
  trail,    \* history: the facts as the audit log has them
  excused,  \* history: the fields for which log and baseline were set apart
  changed,  \* history: the fields that changed since saved was captured
  fresh,    \* history: the fields that changed since look was captured
  due,      \* history: how far the last operation is: apt, early, booted, disturbed
  asked     \* history: the branch it was asked for, 0 for a rollback or a variant

machine == <<now, pkg>>
store   == <<file, saved>>
scan    == <<first, seen, found, told, look>>
window  == <<gui, recap, banner, clear>>
bounds  == <<events, faults>>
notes   == <<trail, excused, changed, fresh>>
vars    == <<machine, store, pc, scan, job, pending, window, bounds, notes, due, asked>>

None  == [kind |-> "none", expect |-> 0]
Blank == [f \in Fields |-> 0]

Event == events < MaxEvents /\ events' = events + 1 /\ UNCHANGED faults
Fault == faults < MaxFaults /\ faults' = faults + 1 /\ UNCHANGED events

Init ==
  /\ now = [f \in Fields |-> IF f \in Files THEN 0 ELSE 1]
  /\ pkg = 1
  /\ file = "absent" /\ saved = Blank
  /\ pc = "off" /\ first = FALSE /\ seen = Blank /\ found = {} /\ told = {} /\ look = Blank
  /\ job = None /\ pending = None
  /\ gui = "closed" /\ recap = "none" /\ banner = FALSE /\ clear = FALSE
  /\ events = 0 /\ faults = 0
  /\ trail = Blank /\ excused = {} /\ changed = {} /\ fresh = {} /\ due = "none" /\ asked = 0
-----------------------------------------------------------------------------
(* The world. *)

Becomes(facts) ==
  LET moved == {f \in Fields : facts[f] # now[f]}
  IN  /\ now' = facts
      /\ changed' = IF file = "whole" THEN changed \cup moved ELSE {}
      /\ fresh' = IF pc \in {"open", "write"} THEN fresh \cup moved ELSE {}

Disturb    == due' = IF due = "none" THEN "none" ELSE "disturbed"
Unfinished == IF due = "apt" THEN "disturbed" ELSE due

ScanOver == first' = FALSE /\ seen' = Blank /\ found' = {} /\ told' = {} /\ look' = Blank

\* A stop forgets the scan; a change already in the log and not in the
\* baseline will be logged again, if it is still there.
Forget ==
  /\ pc' = "off" /\ ScanOver /\ job' = None
  /\ excused' = IF pc \in {"emit", "up"} THEN excused ELSE excused \cup told

\* The new driver is loaded if it will load; a new kernel may come with it.
Boot ==
  /\ Event /\ Forget
  /\ \E v \in {pkg, 0}, k \in 0..1 :
       Becomes([now EXCEPT !["version"] = v, ![Type] = IF v = 0 THEN 1 ELSE 2,
                           !["kernel"] = @ + k])
  /\ gui' = "closed" /\ recap' = "none" /\ banner' = FALSE /\ clear' = FALSE
  /\ due' = IF due = "early" THEN "booted" ELSE Unfinished
  /\ UNCHANGED <<pkg, store, pending, trail, asked>>

\* apt, without Verde.
InstallOutside(v) ==
  /\ v # pkg /\ Event
  /\ pkg' = v /\ Disturb
  /\ UNCHANGED <<now, store, pc, scan, job, pending, window, notes, asked>>

\* Somebody writes, edits or deletes a managed file; so do Verde's own fixes.
Edit(f) ==
  /\ Event
  /\ \E c \in (0..2) \ {now[f]} : Becomes([now EXCEPT ![f] = c])
  /\ UNCHANGED <<pkg, store, pc, scan, job, pending, window, trail, excused, due, asked>>

\* The daemon stops; in mid-work that is a fault, else the idle timer's doing.
Stop ==
  /\ pc # "off" /\ Forget
  /\ IF pc = "up" /\ job = None THEN UNCHANGED bounds ELSE Fault
  /\ due' = Unfinished
  /\ UNCHANGED <<machine, store, pending, window, trail, changed, fresh, asked>>
-----------------------------------------------------------------------------
(* The daemon starts. *)

\* On the bus: the object is registered, the detection posted.
Start ==
  /\ pc = "off" /\ pc' = "named"
  /\ UNCHANGED <<machine, store, scan, job, pending, window, bounds, notes, due, asked>>

\* load_previous_state
Load ==
  /\ pc = "named"
  /\ first' = (file # "whole")
  /\ pc' = IF file = "whole" THEN "compare" ELSE "capture"
  /\ UNCHANGED <<machine, store, seen, found, told, look, job, pending, window, bounds, notes, due, asked>>

\* What the facts look like: a read of a guarded one may fail.
Read(facts) ==
  \/ facts = now /\ UNCHANGED bounds
  \/ Fault /\ \E blind \in SUBSET Guarded \ {{}} :
                facts = [f \in Fields |-> IF f \in blind THEN 0 ELSE now[f]]

Looks == {[f \in Fields |-> IF f \in blind THEN 0 ELSE now[f]] : blind \in SUBSET Guarded}

\* Mutant: an unreadable value on the old side is not suppressed.
DiffersLoosely(f, was, is) == was # is /\ (f \in Guarded => is # 0)

\* detect_external_changes and validate_config_integrity, for one field
Differs(f, was, is) == was # is /\ (f \in Guarded => was # 0 /\ is # 0)

Compare ==
  /\ pc = "compare"
  /\ \E facts \in Looks :
       /\ Read(facts)
       /\ seen' = facts
       /\ found' = {f \in Fields : Differs(f, saved[f], facts[f])}
  /\ pc' = "report"
  /\ UNCHANGED <<machine, store, first, told, look, job, pending, window, notes, due, asked>>

Rank(f) == CASE f = "version" -> 1 [] f = Type -> 2 [] f = "kernel" -> 3 [] OTHER -> 4

\* One audit entry a change, in the order they were looked for.  An entry that
\* cannot be written (a full disk, a link in the log's place) is only logged, and
\* the detection goes on.
Report(f) ==
  /\ pc = "report" /\ f \in found \ told
  /\ \A g \in found \ told : Rank(f) <= Rank(g)
  /\ told' = told \cup {f}
  /\ \/ trail' = [trail EXCEPT ![f] = seen[f]] /\ excused' = excused \ {f}
     \/ excused' = excused \cup {f} /\ UNCHANGED trail
  /\ UNCHANGED <<machine, store, pc, first, seen, found, look, job, pending, window, bounds,
                 changed, fresh, due, asked>>

Reported ==
  /\ pc = "report" /\ found = told
  /\ pc' = "capture"
  /\ UNCHANGED <<machine, store, scan, job, pending, window, bounds, notes, due, asked>>

\* Mutant: a failed detection saves a new baseline all the same.
GivesUpSaving == pc' = "capture" /\ UNCHANGED <<scan, excused>>

\* The except clause: no signal, and detection_ok stays False.
GivesUp == pc' = "up" /\ excused' = excused \cup told /\ ScanOver

DetectionFails ==
  /\ pc \in {"compare", "report"} /\ Fault /\ GivesUp
  /\ UNCHANGED <<machine, store, job, pending, window, trail, changed, fresh, due, asked>>

\* save_current_state reads everything again.
Capture ==
  /\ pc = "capture"
  /\ \E facts \in Looks : Read(facts) /\ look' = facts
  /\ pc' = "open" /\ fresh' = {}
  /\ UNCHANGED <<machine, store, first, seen, found, told, job, pending, window, trail, excused,
                 changed, due, asked>>

\* open(..., "w") truncates the file, or fails.
Open ==
  /\ pc = "open"
  /\ \/ file' = "torn" /\ pc' = "write" /\ UNCHANGED <<bounds, excused>>
     \/ Fault /\ pc' = "emit" /\ excused' = excused \cup told /\ UNCHANGED file
  /\ UNCHANGED <<machine, saved, scan, job, pending, window, trail, changed, fresh, due, asked>>

Unknown == {f \in Guarded : look[f] = 0}

\* The log and the baseline now agree, except on what changed between the
\* comparison and the capture or could not be read; a new start is no change.
Write ==
  /\ pc = "write" /\ pc' = "emit"
  /\ \/ /\ file' = "whole" /\ saved' = look /\ changed' = fresh
        /\ trail' = IF first THEN look ELSE trail
        /\ excused' = Unknown \cup IF first THEN {}
                                   ELSE excused \cup {f \in Fields : look[f] # seen[f]}
        /\ UNCHANGED bounds
        /\ fresh' = {}
     \/ Fault /\ UNCHANGED <<store, notes>>
  /\ UNCHANGED <<machine, scan, job, pending, window, due, asked>>

\* The signal reaches a window whose proxy is ready, and it alone.
Emit ==
  /\ pc = "emit" /\ pc' = "up"
  /\ banner' = (banner \/ (found # {} /\ gui \notin {"closed", "connecting"}))
  /\ ScanOver
  /\ UNCHANGED <<machine, store, job, pending, gui, recap, clear, bounds, notes, due, asked>>
-----------------------------------------------------------------------------
(* Operations and their recap. *)

Serving == pc \in {"named", "emit", "up"}

Branches == {Branch[v] : v \in Versions}

\* A worker's apt is done: an install of a branch, which is what it expects,
\* though apt may have followed a transitional package to another; or a
\* rollback, which expects the version its snapshot names, the one restored or
\* some other (0); an install of a -server or -open variant expects a version
\* with that suffix, which none is (0).
PackagesInPlace ==
  /\ pc # "off" /\ job = None /\ Event
  /\ pkg' \in Versions
  /\ \/ asked' \in Branches /\ job' = [kind |-> "branch", expect |-> asked']
     \/ asked' = 0 /\ \E e \in {pkg', 0} : job' = [kind |-> "exact", expect |-> e]
  /\ due' = "apt"
  /\ UNCHANGED <<now, store, pc, scan, pending, window, notes>>

\* Mutant: the version of before is what is expected.
ExpectedBefore == [job EXCEPT !.expect = 0]

Expected == job

\* write_pending, whole or not at all
WritePending ==
  /\ job # None /\ job' = None
  /\ \/ /\ pending' = Expected /\ UNCHANGED bounds
        /\ due' = IF due = "apt" THEN "early" ELSE "disturbed"
     \/ Fault /\ due' = "disturbed" /\ UNCHANGED pending
  /\ UNCHANGED <<machine, store, pc, scan, window, notes, asked>>

\* _version_matches: equal, or equal up to a dot.
Matches(v, p) == IF p.kind = "branch" THEN Branch[v] = p.expect ELSE v = p.expect

\* compute_post_reboot_summary; NVML answers nothing while library and module differ.
Result(v) ==
  CASE v = 0 -> "failed" [] v # 0 /\ Matches(v, pending) -> "success" [] OTHER -> "partial"

OpenWindow ==
  /\ gui = "closed" /\ Event
  /\ gui' = "connecting"
  /\ UNCHANGED <<machine, store, pc, scan, job, pending, recap, banner, clear, notes, due, asked>>

\* The proxy is ready; _post_reboot_checked is set before the answer is there.
Connect ==
  /\ gui = "connecting" /\ Serving
  /\ gui' = "asking"
  /\ UNCHANGED <<machine, store, pc, scan, job, pending, recap, banner, clear, bounds, notes, due, asked>>

GetPostRebootSummary ==
  /\ gui = "asking" /\ Serving
  /\ \/ pending = None /\ gui' = "open" /\ UNCHANGED recap
     \/ /\ pending # None /\ gui' = "dialog"
        /\ \E v \in {now["version"]} \cup (IF pkg # now["version"] THEN {0} ELSE {}) :
             recap' = Result(v)
  /\ UNCHANGED <<machine, store, pc, scan, job, pending, banner, clear, bounds, notes, due, asked>>

\* No second attempt.
AskFails ==
  /\ gui = "asking" /\ Fault
  /\ gui' = "open"
  /\ UNCHANGED <<machine, store, pc, scan, job, pending, recap, banner, clear, notes, due, asked>>

\* Any button, or none: the recap has been seen.
Respond ==
  /\ gui = "dialog"
  /\ gui' = "open" /\ recap' = "none" /\ clear' = TRUE
  /\ UNCHANGED <<machine, store, pc, scan, job, pending, banner, bounds, notes, due, asked>>

ClearPostRebootSummary ==
  /\ clear /\ Serving
  /\ clear' = FALSE /\ pending' = None /\ due' = "none" /\ asked' = 0
  /\ UNCHANGED <<machine, store, pc, scan, job, gui, recap, banner, bounds, notes>>

Dismiss ==
  /\ banner /\ banner' = FALSE
  /\ UNCHANGED <<machine, store, pc, scan, job, pending, gui, recap, clear, bounds, notes, due, asked>>

CloseWindow ==
  /\ gui # "closed"
  /\ gui' = "closed" /\ recap' = "none" /\ banner' = FALSE
  /\ UNCHANGED <<machine, store, pc, scan, job, pending, clear, bounds, notes, due, asked>>

Next ==
  \/ Boot \/ Stop \/ Start \/ Load \/ Compare \/ Reported \/ DetectionFails
  \/ Capture \/ Open \/ Write \/ Emit
  \/ \E v \in Versions : InstallOutside(v)
  \/ \E f \in Files : Edit(f)
  \/ \E f \in Fields : Report(f)
  \/ PackagesInPlace \/ WritePending \/ OpenWindow \/ Connect \/ GetPostRebootSummary
  \/ AskFails \/ Respond \/ ClearPostRebootSummary \/ Dismiss \/ CloseWindow

Spec == Init /\ [][Next]_vars
-----------------------------------------------------------------------------
(* Properties. *)

\* Replaying the audit log gives the facts of the baseline, over any number of
\* boots, stops, failed writes and torn files; but for what changed while the
\* detection ran, could not be read, or was logged and not saved, and for a
\* change whose entry could not be written, until the next of the same field is
\* (service.py:398-484, state_tracker.py:95-151, audit.py:97-108).
TrailAgrees ==
  pc \in {"off", "up"} /\ file = "whole" => \A f \in Fields \ excused : trail[f] = saved[f]

\* Only what really changed since the baseline was captured is reported, to
\* the log and on the banner; a fact that cannot be read for a while is no
\* change (state_tracker.py:166-192).
NoFalseAlarm == pc = "report" => found \subseteq changed

\* After the reboot, an install by branch that nothing else has touched is told
\* as what it was, whenever the window asks: failed if no driver runs, a success
\* if the one that runs is of the branch asked for, and partial only if apt has
\* put another in place (pending_summary.py:125-206, window.py:277-360).
RecapRight ==
  [][gui' = "dialog" /\ gui # "dialog" /\ pending.kind = "branch" /\ due = "booted"
       => recap' = IF now["version"] = 0 THEN "failed"
                   ELSE IF Branch[pkg] = asked THEN "success" ELSE "partial"]_vars
=============================================================================
