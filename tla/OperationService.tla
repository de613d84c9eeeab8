-------------------------- MODULE OperationService --------------------------
(***************************************************************************)
(* The long-running operations of the Verde daemon: the operation slot     *)
(* (_operation_in_progress and its companions) of VerdeService, the worker *)
(* thread each accepted operation gets, the GLib idle queue through which  *)
(* workers reach the main loop, the operation marker on disk, and the      *)
(* daemon's stops and starts.                                              *)
(*                                                                         *)
(* The main loop is one thread: D-Bus dispatch, timeouts and idle          *)
(* callbacks never interleave with each other, but all of them interleave  *)
(* with the worker.  Nothing of a worker survives a stop (the threads are  *)
(* daemon threads); the marker, dpkg's state, the audit log and what the   *)
(* bus has already carried do.                                             *)
(***************************************************************************)
EXTENDS Naturals, Sequences

CONSTANTS
  Op,         \* operation ids, uuid4().hex[:12]: fresh for every operation
  NoOp,       \* "None" for _current_op_id
  Called,     \* the methods clients call, a subset of Kind
  MayFail,    \* the best-effort steps that may fail, see Fault
  MaxStops    \* bound: how often the daemon may stop

(* The D-Bus methods that run in a worker.  "fixPower" stands for          *)
(* FixSuspend and FixHibernate, whose dispatch and worker are line by line *)
(* the same.                                                               *)
Kind == {"install", "rollback", "repair", "fixPower", "fixModule"}

(* Steps whose failure the code catches and ignores, or never expects:     *)
(*   "thread"   threading.Thread.start raises: the guard is already taken  *)
(*   "inhibit"  logind refuses the inhibitor lock                          *)
(*   "mark"     the marker cannot be written                               *)
(*   "snapshot" the pre-install snapshot fails                             *)
(*   "unlink"   the marker cannot be removed                               *)
(*   "probe"    dpkg --audit times out or cannot run at startup            *)
Fault == {"thread", "inhibit", "mark", "snapshot", "unlink", "probe"}

ASSUME ConstantsOK ==
  /\ NoOp \notin Op
  /\ Called \subseteq Kind
  /\ MayFail \subseteq Fault
  /\ MaxStops \in Nat

Fix        == {"fixPower", "fixModule"}
Marking    == {"install", "rollback"}   \* bracketed by the operation marker
ViaPackage == Kind \ {"fixPower"}       \* kinds that run apt or dpkg

(* Where a worker stands: the statement of _do_* it executes next.         *)
WorkerStep == {"hold", "start", "inhibit", "mark", "snapshot", "run", "unmark",
               "report", "reboot", "audit", "cleanup", "uninhibit", "release"}

Outcome  == {"ok", "failed", "raised"}
Signal   == {"progress", "ok", "failed", "reboot"}

(* What the idle queue holds: a callback of an operation, or the notice of *)
(* set_startup_error, which belongs to none.                               *)
StartupNotice == [cb |-> "startup", op |-> NoOp]
Message == [cb : Signal \cup {"hold", "release"}, op : Op] \cup {StartupNotice}

VARIABLES
  up,           \* the daemon process runs its main loop
  loop,         \* "idle", or "revert" inside RevertModification's handler
  idle,         \* the _IdleTimer: "armed", "held", or "off" (no process)
  inProgress,   \* _operation_in_progress
  currentOp,    \* _current_op_id
  startupError, \* _startup_error is set
  queue,        \* callbacks given to GLib.idle_add, oldest first
  pc,           \* per operation: "new", a WorkerStep, "unstarted" (the
                \* thread never started), "done" or "killed"
  kind,         \* per operation: its method, "none" before it is accepted
  result,       \* per operation: how the work ended, "none" before
  inhibited,    \* operations whose worker holds an inhibitor descriptor
  snapped,      \* operations whose pre-install snapshot exists
  marker,       \* the operation marker file exists
  brokenBy,     \* the operation that left dpkg half-configured, or NoOp
  wire,         \* per operation: the signals emitted on the bus, in order
  audit,        \* per operation: the results in the audit log
  lost,         \* history: the operation the last stop killed, or NoOp
  stops         \* history: number of stops, bounded by MaxStops

process  == <<up, loop, idle, inProgress, currentOp, startupError>>
workers  == <<pc, kind, result, inhibited, snapped>>
machine  == <<marker, brokenBy, wire, audit>>
history  == <<lost, stops>>
vars     == <<process, queue, workers, machine, history>>

Alive(o)     == pc[o] \in WorkerStep
InWire(o, s) == \E i \in DOMAIN wire[o] : wire[o][i] = s
Queued(o, s) == \E i \in DOMAIN queue : queue[i] = [cb |-> s, op |-> o]
Completed(o) == InWire(o, "ok") \/ InWire(o, "failed")

Post(o, cb)  == queue' = Append(queue, [cb |-> cb, op |-> o])
Goto(o, l)   == pc' = [pc EXCEPT ![o] = l]
At(o, l)     == pc[o] = l

TypeOK ==
  /\ up \in BOOLEAN
  /\ loop \in {"idle", "revert"}
  /\ idle \in {"armed", "held", "off"}
  /\ inProgress \in BOOLEAN
  /\ currentOp \in Op \cup {NoOp}
  /\ startupError \in BOOLEAN
  /\ queue \in Seq(Message)
  /\ pc \in [Op -> WorkerStep \cup {"new", "unstarted", "done", "killed"}]
  /\ kind \in [Op -> Kind \cup {"none"}]
  /\ \A o \in Op : pc[o] # "new" => kind[o] \in Kind
  /\ result \in [Op -> Outcome \cup {"none"}]
  /\ inhibited \subseteq Op
  /\ snapped \subseteq Op
  /\ marker \in BOOLEAN
  /\ brokenBy \in Op \cup {NoOp}
  /\ wire \in [Op -> Seq(Signal)]
  /\ audit \in [Op -> SUBSET {"started", "success", "failed"}]
  /\ lost \in Op \cup {NoOp}
  /\ stops \in Nat

(* A first start of the daemon on a machine without a marker.              *)
Init ==
  /\ up = TRUE /\ loop = "idle" /\ idle = "armed"
  /\ inProgress = FALSE /\ currentOp = NoOp /\ startupError = FALSE
  /\ queue = <<>>
  /\ pc = [o \in Op |-> "new"]
  /\ kind = [o \in Op |-> "none"]
  /\ result = [o \in Op |-> "none"]
  /\ inhibited = {} /\ snapped = {}
  /\ marker = FALSE /\ brokenBy = NoOp
  /\ wire = [o \in Op |-> <<>>]
  /\ audit = [o \in Op |-> {}]
  /\ lost = NoOp /\ stops = 0

-----------------------------------------------------------------------------
(* The main loop: D-Bus calls.                                             *)

(* Mutant: the concurrency guard is not tested.                            *)
AcceptUnguarded(o, k) ==
  /\ up /\ loop = "idle" /\ At(o, "new")
  /\ inProgress' = TRUE /\ currentOp' = o /\ idle' = "armed"
  /\ kind' = [kind EXCEPT ![o] = k]
  /\ audit' = IF k \in Fix THEN [audit EXCEPT ![o] = @ \cup {"started"}] ELSE audit
  /\ Goto(o, "hold")
  /\ UNCHANGED <<up, loop, startupError, queue, result, inhibited, snapped,
                 marker, brokenBy, wire, history>>

(* Mutant: the dispatcher forgets _current_op_type.                        *)
AcceptUntyped(o, k) ==
  /\ up /\ loop = "idle" /\ ~inProgress /\ At(o, "new")
  /\ inProgress' = TRUE /\ currentOp' = o /\ idle' = "armed"
  /\ Goto(o, "hold")
  /\ UNCHANGED <<up, loop, startupError, queue, kind, result, inhibited, snapped,
                 machine, history>>

(* _dispatch_install_driver and its five siblings: an authorised call that *)
(* finds the slot free (and, for the apt methods, no foreign dpkg lock)    *)
(* takes it, answers with the op id and starts the worker.  A call that is *)
(* refused changes nothing here but the idle timer: see Touch.             *)
Accept(o, k) ==
  /\ up /\ loop = "idle"
  /\ ~inProgress
  /\ At(o, "new")
  /\ inProgress' = TRUE
  /\ currentOp' = o
  /\ idle' = "armed"
  /\ kind' = [kind EXCEPT ![o] = k]
  /\ audit' = IF k \in Fix THEN [audit EXCEPT ![o] = @ \cup {"started"}] ELSE audit
  /\ \/ Goto(o, "hold")
     \/ "thread" \in MayFail /\ Goto(o, "unstarted")
  /\ UNCHANGED <<up, loop, startupError, queue, result, inhibited, snapped,
                 marker, brokenBy, wire, history>>

(* Every other call that passes the gates, and every successful poll,      *)
(* calls on_idle_reset: the timer is armed whatever held it.               *)
Touch ==
  /\ up /\ loop = "idle"
  /\ idle = "held"
  /\ idle' = "armed"
  /\ UNCHANGED <<up, loop, inProgress, currentOp, startupError, queue, workers,
                 machine, history>>

(* RevertModification does its work (systemctl, update-initramfs, file     *)
(* edits) on the main thread and does not look at the operation slot.      *)
BeginRevert ==
  /\ up /\ loop = "idle"
  /\ loop' = "revert"
  /\ idle' = "armed"
  /\ UNCHANGED <<up, inProgress, currentOp, startupError, queue, workers, machine,
                 history>>

EndRevert ==
  /\ up /\ loop = "revert"
  /\ loop' = "idle"
  /\ UNCHANGED <<up, idle, inProgress, currentOp, startupError, queue, workers,
                 machine, history>>

-----------------------------------------------------------------------------
(* The main loop: idle callbacks, in the order they were posted.           *)

Pop(cbs) ==
  /\ up /\ loop = "idle"
  /\ queue # <<>> /\ Head(queue).cb \in cbs
  /\ queue' = Tail(queue)

(* _IdleTimer.hold *)
RunHold ==
  /\ Pop({"hold"})
  /\ idle' = "held"
  /\ UNCHANGED <<up, loop, inProgress, currentOp, startupError, workers, machine,
                 history>>

(* the _emit closure of _emit_signal *)
RunEmit ==
  /\ Pop(Signal \cup {"startup"})
  /\ LET c == Head(queue)
     IN  wire' = IF c.op = NoOp THEN wire ELSE [wire EXCEPT ![c.op] = Append(@, c.cb)]
  /\ UNCHANGED <<process, workers, marker, brokenBy, audit, history>>

(* the _release_guard closure: clear the slot, restart the idle countdown *)
RunRelease ==
  /\ Pop({"release"})
  /\ inProgress' = FALSE
  /\ currentOp' = NoOp
  /\ idle' = "armed"
  /\ UNCHANGED <<up, loop, startupError, workers, machine, history>>

-----------------------------------------------------------------------------
(* The worker thread of operation o: the body of _do_install, _do_rollback, *)
(* _do_repair, _do_fix_suspend, _do_fix_hibernate or _do_fix_module, which  *)
(* differ only in the steps they leave out.                                 *)

(* GLib.idle_add(self._on_idle_hold) *)
Hold(o) ==
  /\ At(o, "hold")
  /\ Post(o, "hold")
  /\ Goto(o, IF kind[o] \in Fix THEN "inhibit" ELSE "start")
  /\ UNCHANGED <<process, kind, result, inhibited, snapped, machine, history>>

(* the audit entry "started" (the fixes write theirs in the dispatcher) *)
Start(o) ==
  /\ At(o, "start")
  /\ audit' = [audit EXCEPT ![o] = @ \cup {"started"}]
  /\ Goto(o, IF kind[o] = "repair" THEN "run" ELSE "inhibit")
  /\ UNCHANGED <<process, queue, kind, result, inhibited, snapped, marker, brokenBy,
                 wire, history>>

(* _acquire_inhibitor_lock: any failure is logged and gives None *)
Inhibit(o) ==
  /\ At(o, "inhibit")
  /\ \/ inhibited' = inhibited \cup {o}
     \/ "inhibit" \in MayFail /\ UNCHANGED inhibited
  /\ Goto(o, IF kind[o] \in Marking THEN "mark" ELSE "run")
  /\ UNCHANGED <<process, queue, kind, result, snapped, machine, history>>

(* write_operation_marker: an OSError is logged and ignored *)
Mark(o) ==
  /\ At(o, "mark")
  /\ \/ marker' = TRUE
     \/ "mark" \in MayFail /\ UNCHANGED marker
  /\ Goto(o, IF kind[o] = "install" THEN "snapshot" ELSE "run")
  /\ UNCHANGED <<process, queue, kind, result, inhibited, snapped, brokenBy, wire,
                 audit, history>>

(* _create_pre_install_snapshot: any exception is logged and ignored *)
Snapshot(o) ==
  /\ At(o, "snapshot")
  /\ \/ snapped' = snapped \cup {o}
     \/ "snapshot" \in MayFail /\ UNCHANGED snapped
  /\ Goto(o, "run")
  /\ UNCHANGED <<process, queue, kind, result, inhibited, machine, history>>

(* a "pmstatus" line of apt, or a progress_cb of a fix or of restore; one  *)
(* per operation, which is enough to see its place in the stream           *)
Progress(o) ==
  /\ At(o, "run")
  /\ ~InWire(o, "progress") /\ ~Queued(o, "progress")
  /\ Post(o, "progress")
  /\ UNCHANGED <<process, workers, machine, history>>

(* apt starts to unpack: until it ends dpkg is half-configured.  It refuses *)
(* to start on a half-configured dpkg, and dpkg --configure -a only mends.  *)
Transact(o) ==
  /\ At(o, "run") /\ kind[o] \in ViaPackage \ {"repair"}
  /\ brokenBy = NoOp
  /\ brokenBy' = o
  /\ UNCHANGED <<process, queue, workers, marker, wire, audit, history>>

(* the work succeeds *)
RunSucceeds(o) ==
  /\ At(o, "run")
  /\ kind[o] \in Marking => brokenBy \in {NoOp, o}
  /\ result' = [result EXCEPT ![o] = "ok"]
  /\ brokenBy' = IF kind[o] = "repair" \/ brokenBy = o THEN NoOp ELSE brokenBy
  /\ Goto(o, IF kind[o] \in {"install", "repair"} THEN "unmark" ELSE "report")
  /\ UNCHANGED <<process, queue, kind, inhibited, snapped, marker, wire, audit, history>>

(* the work fails or times out ("failed"), or the except clause catches an  *)
(* exception ("raised"): dpkg stays as it is                                *)
RunFails(o) ==
  /\ At(o, "run")
  /\ \E r \in {"failed", "raised"} : result' = [result EXCEPT ![o] = r]
  /\ Goto(o, "report")
  /\ UNCHANGED <<process, queue, kind, inhibited, snapped, machine, history>>

RemoveMarker == \/ marker' = FALSE
                \/ "unlink" \in MayFail /\ UNCHANGED marker

(* remove_operation_marker after a successful install or repair; a repair  *)
(* also clears _startup_error, from the worker thread                      *)
Unmark(o) ==
  /\ At(o, "unmark")
  /\ RemoveMarker
  /\ startupError' = (startupError /\ kind[o] # "repair")
  /\ Goto(o, "report")
  /\ UNCHANGED <<up, loop, idle, inProgress, currentOp, queue, kind, result, inhibited,
                 snapped, brokenBy, wire, audit, history>>

Announce(o) == Post(o, IF result[o] = "ok" THEN "ok" ELSE "failed")

AfterReport(o) ==
  CASE kind[o] = "repair" /\ result[o] = "raised"   -> "release"
    [] kind[o] \in Marking /\ result[o] = "ok"      -> "reboot"
    [] OTHER                                        -> "audit"

(* Mutant: RebootRequired is posted before OperationComplete.              *)
ReportRebootFirst(o) ==
  /\ At(o, "report")
  /\ IF kind[o] \in Marking /\ result[o] = "ok"
     THEN queue' = queue \o <<[cb |-> "reboot", op |-> o], [cb |-> "ok", op |-> o]>>
     ELSE Announce(o)
  /\ Goto(o, IF kind[o] = "repair" /\ result[o] = "raised" THEN "release" ELSE "audit")
  /\ UNCHANGED <<process, kind, result, inhibited, snapped, machine, history>>

(* Mutant: a failed operation posts no OperationComplete.                  *)
ReportSuccessOnly(o) ==
  /\ At(o, "report")
  /\ IF result[o] = "ok" THEN Announce(o) ELSE UNCHANGED queue
  /\ Goto(o, AfterReport(o))
  /\ UNCHANGED <<process, kind, result, inhibited, snapped, machine, history>>

(* OperationComplete, with the outcome.  RepairDpkg's generic except clause *)
(* goes straight on to finally.                                             *)
Report(o) ==
  /\ At(o, "report")
  /\ Announce(o)
  /\ Goto(o, AfterReport(o))
  /\ UNCHANGED <<process, kind, result, inhibited, snapped, machine, history>>

(* RebootRequired: always after an install or a rollback, and after those   *)
(* fixes that need one, whose audit entry is already written.               *)
Reboot(o) ==
  /\ At(o, "reboot")
  /\ \/ Post(o, "reboot")
     \/ kind[o] \in Fix /\ UNCHANGED queue
  /\ Goto(o, IF kind[o] \in Fix THEN "uninhibit" ELSE "audit")
  /\ UNCHANGED <<process, kind, result, inhibited, snapped, machine, history>>

AfterAudit(o) ==
  CASE kind[o] \in Marking                    -> "cleanup"
    [] kind[o] = "repair"                     -> "release"
    [] kind[o] \in Fix /\ result[o] = "ok"    -> "reboot"
    [] OTHER                                  -> "uninhibit"

(* Mutant: a failed install falls through to the success entry.            *)
AuditFallsThrough(o) ==
  /\ At(o, "audit")
  /\ audit' = [audit EXCEPT ![o] = @ \cup
                 IF result[o] = "ok" THEN {"success"} ELSE {"failed", "success"}]
  /\ Goto(o, AfterAudit(o))
  /\ UNCHANGED <<process, queue, kind, result, inhibited, snapped, marker, brokenBy,
                 wire, history>>

(* the closing audit entry *)
Audit(o) ==
  /\ At(o, "audit")
  /\ audit' = [audit EXCEPT ![o] = @ \cup
                 {IF result[o] = "ok" THEN "success" ELSE "failed"}]
  /\ Goto(o, AfterAudit(o))
  /\ UNCHANGED <<process, queue, kind, result, inhibited, snapped, marker, brokenBy,
                 wire, history>>

(* finally: remove_operation_marker, whatever the outcome *)
Cleanup(o) ==
  /\ At(o, "cleanup")
  /\ RemoveMarker
  /\ Goto(o, "uninhibit")
  /\ UNCHANGED <<process, queue, kind, result, inhibited, snapped, brokenBy, wire, audit,
                 history>>

(* Mutant: the descriptor is closed only after a success.                  *)
UninhibitOnSuccess(o) ==
  /\ At(o, "uninhibit")
  /\ inhibited' = IF result[o] = "ok" THEN inhibited \ {o} ELSE inhibited
  /\ Goto(o, "release")
  /\ UNCHANGED <<process, queue, kind, result, snapped, machine, history>>

(* finally: _release_inhibitor_lock *)
Uninhibit(o) ==
  /\ At(o, "uninhibit")
  /\ inhibited' = inhibited \ {o}
  /\ Goto(o, "release")
  /\ UNCHANGED <<process, queue, kind, result, snapped, machine, history>>

(* Mutant: the release overtakes the signals (a higher GLib priority).     *)
PostReleaseFirst(o) ==
  /\ At(o, "release")
  /\ queue' = <<[cb |-> "release", op |-> o]>> \o queue
  /\ Goto(o, "done")
  /\ UNCHANGED <<process, kind, result, inhibited, snapped, machine, history>>

(* Mutant: the worker ends without releasing the guard.                    *)
PostNoRelease(o) ==
  /\ At(o, "release")
  /\ Goto(o, "done")
  /\ UNCHANGED <<process, queue, kind, result, inhibited, snapped, machine, history>>

(* finally: GLib.idle_add(_release_guard), and the thread ends *)
PostRelease(o) ==
  /\ At(o, "release")
  /\ Post(o, "release")
  /\ Goto(o, "done")
  /\ UNCHANGED <<process, kind, result, inhibited, snapped, machine, history>>

-----------------------------------------------------------------------------
(* Stops and starts of the process.                                        *)

(* Whatever ends the main loop ends the process, its threads with it; the  *)
(* inhibitor descriptors are closed by the kernel.                         *)
Stop ==
  /\ up /\ stops < MaxStops
  /\ up' = FALSE /\ loop' = "idle" /\ idle' = "off"
  /\ inProgress' = FALSE /\ currentOp' = NoOp /\ startupError' = FALSE
  /\ queue' = <<>>
  /\ pc' = [o \in Op |-> IF Alive(o) \/ pc[o] = "unstarted" THEN "killed" ELSE pc[o]]
  /\ inhibited' = {}
  /\ lost' = IF \E o \in Op : Alive(o) THEN CHOOSE o \in Op : Alive(o) ELSE NoOp
  /\ stops' = stops + 1
  /\ UNCHANGED <<kind, result, snapped, machine>>

(* _IdleTimer._on_timeout *)
IdleTimeout == idle = "armed" /\ loop = "idle" /\ Stop

(* SIGTERM, a lost bus name, a crash, a power loss *)
Killed == Stop

(* Mutant: any marker found at startup is taken for stale.                 *)
RestartTrustingDpkg ==
  /\ ~up
  /\ up' = TRUE /\ idle' = "armed"
  /\ startupError' = FALSE /\ queue' = <<>>
  /\ marker' = FALSE
  /\ UNCHANGED <<loop, inProgress, currentOp, workers, brokenBy, wire, audit, history>>

(* main() and detect_interrupted_operation: a marker beside a broken dpkg   *)
(* is reported and kept, a marker beside a clean dpkg is stale.             *)
(* detect_dpkg_broken answers "not broken" when dpkg --audit cannot tell.   *)
Restart ==
  /\ ~up
  /\ up' = TRUE
  /\ idle' = "armed"
  /\ \/ /\ marker /\ brokenBy # NoOp
        /\ startupError' = TRUE
        /\ queue' = Append(queue, StartupNotice)
        /\ UNCHANGED marker
     \/ /\ marker /\ brokenBy # NoOp => "probe" \in MayFail
        /\ startupError' = FALSE
        /\ RemoveMarker
        /\ UNCHANGED queue
  /\ UNCHANGED <<loop, inProgress, currentOp, workers, brokenBy, wire, audit, history>>

-----------------------------------------------------------------------------
Worker(o) ==
  \/ Hold(o) \/ Start(o) \/ Inhibit(o) \/ Mark(o) \/ Snapshot(o)
  \/ Transact(o) \/ RunSucceeds(o) \/ RunFails(o) \/ Unmark(o)
  \/ Report(o) \/ Reboot(o) \/ Audit(o) \/ Cleanup(o) \/ Uninhibit(o) \/ PostRelease(o)

Callbacks == RunHold \/ RunEmit \/ RunRelease

Next ==
  \/ \E o \in Op, k \in Called : Accept(o, k)
  \/ Touch \/ BeginRevert \/ EndRevert
  \/ Callbacks
  \/ \E o \in Op : Worker(o) \/ Progress(o)
  \/ IdleTimeout \/ Killed \/ Restart

Spec == Init /\ [][Next]_vars

(* Every step of a worker ends: its subprocesses run under timeouts.  The   *)
(* loop comes back from a handler, and idle callbacks, which wait while     *)
(* calls and timeouts are ready, run again and again: the rate limiter      *)
(* bounds the calls.                                                        *)
Fairness ==
  /\ \A o \in Op : WF_vars(Worker(o))
  /\ WF_vars(EndRevert)
  /\ SF_vars(Callbacks)

FairSpec == Spec /\ Fairness

-----------------------------------------------------------------------------
(* Properties that hold.                                                   *)

(* At most one worker runs, and only while the slot is taken in its name:   *)
(* the guard is tested and set on the main thread but cleared by a callback *)
(* posted from the worker, so two workers would mean that some callback     *)
(* cleared a slot that was no longer its own.                               *)
OneWorker ==
  /\ \A o, p \in Op : Alive(o) /\ Alive(p) => o = p
  /\ \A o \in Op : Alive(o) => inProgress /\ currentOp = o

(* A callback still queued is always one of the operation that holds the    *)
(* slot, and a release is the last of them: when the slot is cleared nothing *)
(* of the old operation can hold the timer or speak on the bus any more.    *)
NoStaleCallback ==
  \A i \in DOMAIN queue :
    /\ queue[i].op # NoOp => inProgress /\ queue[i].op = currentOp
    /\ queue[i].cb = "release" => i = Len(queue) /\ ~Alive(currentOp)

(* The idle timer is never left held by an operation that is over: a daemon *)
(* with a free slot always counts down.                                     *)
HeldOnlyWhileBusy == idle = "held" => inProgress

(* What a client sees of an operation: progress, then one OperationComplete, *)
(* then RebootRequired at most, and only after a success.                    *)
StreamWellFormed ==
  \A o \in Op : \A i, j \in DOMAIN wire[o] :
    i < j => \/ wire[o][i] = "progress"
             \/ wire[o][i] = "ok" /\ wire[o][j] = "reboot"

(* The slot is given free, in a running daemon, only after the bus has       *)
(* carried the OperationComplete of the operation that held it.              *)
FreedOnlyAfterComplete ==
  [][inProgress /\ ~inProgress' /\ up' => Completed(currentOp)]_vars

(* The audit log never contradicts itself or the bus: no operation both      *)
(* succeeded and failed, and none is logged with one outcome and announced   *)
(* with the other.                                                           *)
AuditAgrees ==
  \A o \in Op :
    /\ ~ ({"success", "failed"} \subseteq audit[o])
    /\ "success" \in audit[o] => ~InWire(o, "failed")
    /\ "failed" \in audit[o] => ~InWire(o, "ok")

(* An inhibitor lock blocks shutdown and sleep only while the worker that    *)
(* took it lives: neither failures nor stops leak the descriptor.            *)
NoInhibitorLeak == \A o \in inhibited : Alive(o) /\ up

(* If the daemon is stopped while an install or a rollback has dpkg          *)
(* half-configured, the next daemon knows: _startup_error is set, and stays  *)
(* set until dpkg is mended.  (With a marker that was written, and a dpkg    *)
(* --audit that answers.)                                                    *)
InterruptionReported ==
  \A o \in Op :
    up /\ lost = o /\ kind[o] \in Marking /\ result[o] = "none" /\ brokenBy = o
      => startupError

(* Every accepted operation ends: its OperationComplete goes out, or the     *)
(* daemon stops.                                                             *)
EventuallyAnswered ==
  \A o \in Op : At(o, "hold") ~> Completed(o) \/ ~up

(* The slot never stays taken for ever.                                      *)
EventuallyFree == inProgress ~> ~inProgress

=============================================================================
