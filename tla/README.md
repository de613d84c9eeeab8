# Verde: TLA+ models, checks and proofs

Verde is a GTK application and a root daemon that install NVIDIA drivers, roll
them back, and repair suspend, hibernation and module loading.  This directory
models how privileged operations are admitted, run, reported, undone and
remembered while the daemon's main loop, its worker threads, timers, the GUI, a
recovery console, stops and reboots interleave.

Paths are relative to the repository: `service.py` is
`src/verde-daemon/service.py`, and so on.

## 1. Inventory

One process, `verde-daemon`, runs a GLib main loop on its main thread.  D-Bus
calls, timeouts and idle callbacks run there one at a time.  Each long operation
gets a Python *daemon thread* that reaches the main loop only through
`GLib.idle_add`.  The GUI (`src/verde`) is a D-Bus client with a main loop of
its own.

| Component | State it keeps | Operations | Interacts with |
|---|---|---|---|
| Long-running operations (`service.py`) | `_operation_in_progress`, `_current_op_*`, `_startup_error`; marker file | Install, Rollback, RepairDpkg, FixSuspend, FixHibernate, FixModuleNotLoaded; release callbacks | worker thread → idle queue → main loop; apt and dpkg; logind; audit log |
| Idle shutdown (`main.py`) | one GLib source id | start, reset, hold, release, expire | every call, every poll and the workers |
| Polling (`service.py`) | poll source, last GPU availability, degraded state | `_poll_and_emit` every 2 s | NVML; idle timer; signals |
| Rate limiter (`rate_limiter.py`) | two token buckets per caller | `check`, `cleanup_stale` | dispatcher; 60 s timer |
| Dispatcher (`service.py`, `polkit.py`, `validators.py`) | none of its own | the guards of `_handle_method_call` | rate limiter, Polkit (blocking call), audit log |
| Modification tracker (`modification_tracker.py`) | JSON manifest under a file lock | `record`, `revert`, `mark_inactive`, lists | fixes (worker thread) and RevertModification (main thread) |
| Power and module fixes (`power_manager.py`, `module_doctor.py`) | systemd units, modprobe and boot configuration | the fix procedures | tracker; callbacks of the worker |
| Snapshots (`snapshot_manager.py`) | snapshot files, at most 10 | create, prune, delete, restore | install and rollback workers; DeleteSnapshot |
| Post-reboot summary (`pending_summary.py`) | one state file | write, read, clear, compute | install and rollback workers; NVML after the boot |
| Startup detection (`state_tracker.py`, `integrity_checker.py`) | state file | load, detect, save | name acquisition; signals |
| Degraded states (`degraded_states.py`) | the service's last state and GPU availability | `detect_degraded_state`, `_poll_and_emit` | start, polls; GUI |
| Audit log (`audit.py`) | append-only file | `log`, read, suspicious patterns | everything privileged |
| APT errors, drivers (`apt_errors.py`, `driver_manager.py`, `preflight.py`) | marker file | classification, queries | workers |
| GUI client (`dbus_client.py`, `gpu_state.py`, `views/*`) | connection, mirrored properties, `_current_op_id` of a view | calls, signals, deferred updates | daemon over D-Bus |
| Recovery console (`cli_recovery.py`, `recovery_diagnostics.py`) | modprobe files, initramfs, packages | diagnosis, rollback, nouveau fallback | the machine only: no lock, no bus |
| Diagnostics report, `verde` command line | none that lasts | reports, queries | read-only |

What is hard here:

* **Interleaving.**  The operation slot is tested and set on the main thread and
  cleared by a callback that the worker posts; `RevertModification` works on the
  main thread beside a worker; reads and polls re-arm a timer an operation
  holds.
* **Ordering.**  Signals, the hold and the release of an operation all travel
  through one idle queue; RebootRequired must follow OperationComplete.
* **Failure.**  Almost every step of a worker may fail, and most failures are
  logged and ignored; some paths return early, some fall through.
* **Crashes.**  The daemon may be stopped at any step: worker threads die with
  it, the marker and dpkg's state stay.
* **Reboots.**  The baseline of system facts, the recap of the last operation,
  the initramfs and the blacklists outlive the process, and others write them too.
* **Time.**  Lazy refill and forgetting of token buckets; an idle countdown that
  several parties reset.

What makes each component correct, and the properties that say so, are in
section 3; `PROJECT.json` lists the hazards line by line.

## 2. Plan

Done:

1. `OperationService` - operations, idle queue, marker, restarts; with
   `OperationSlot` as the abstract specification and proofs.
2. `RateLimiter` - with `TokenBucket` as the abstract specification and proofs.
3. `IdleTimer` - discrete time, GLib sources and priorities, with proofs.
4. `Modifications` - the fixes and the manifest, with proofs.
5. `Snapshots` - retention, integrity and rollback, with proofs.
6. `Client` - the GUI's connection, mirror and operation dialogs, composed with
   `OperationSlot`, which stands for the daemon, with proofs.
7. `Boots` - startup detection, audit trail and recap over reboots, with proofs.
8. `Dispatch` - every method's guards in order, Polkit's blocking call, with proofs.
9. `Recovery` - degraded states, module doctor, dashboard and recovery console,
   with a proof.

Left:

10. `AptProcess` - status pipe, stderr pipe, deadlines and kill as processes of
    their own, refining `Transact` of `OperationService`.
11. Algorithms as functions: suspicious patterns in the audit log, progress lines.
12. The other mirrored properties of `gpu_state`, and two views at once.

Proofs to come: the safety half of the liveness properties - who waits has something on
its way to wait for (a dialog in progress its call, reply, stored id or running operation,
a call its turn) - and the lemmas on queues that `OperationServiceProofs`,
`DispatchProofs` and `ClientProofs` each state for themselves, in one module.

Modules that carry proofs declare no RECURSIVE operator and take their
parameters as CONSTANTS under named assumptions; invariants are conjunctions of
named parts.

## 3. The models

### OperationService

One record of the daemon's volatile state (`inProgress`, `currentOp`, `idle`,
`startupError`, `loop`), the idle `queue`, a program counter per operation, what
survives a stop (`marker`, `brokenBy`, `wire`, `audit`), and two history
variables.  The six methods share one worker whose steps are the statements of
`_do_install`, `_do_rollback`, `_do_repair`, `_do_fix_suspend`,
`_do_fix_hibernate` and `_do_fix_module` in their order; a method that lacks a
statement skips its step.

| Model | Code |
|---|---|
| `Accept(o, k)` | the `_dispatch_*` methods: guard, op id, thread; `"thread"` is `Thread.start` raising after the guard is set |
| `Touch` | any other call or poll that calls `_on_idle_reset` |
| `BeginRevert`, `EndRevert` | `RevertModification`, on the main thread, beside the worker |
| `Hold` ... `PostRelease` | the worker's statements, in order |
| `RunHold`, `RunEmit`, `RunRelease` | the callbacks given to `GLib.idle_add`, first in first out |
| `Transact`, `RunSucceeds`, `RunFails` | apt or dpkg: from `Transact` on dpkg is half-configured (`brokenBy`) until the work succeeds |
| `Stop` (`IdleTimeout`, `Killed`), `Restart` | the end of the loop for whatever reason; `main()` with `detect_interrupted_operation` |

Abstractions: versions, messages and error classes are dropped; one progress
signal per operation stands for many; the `fixPower` kind is FixSuspend and
FixHibernate, whose dispatch and worker are the same; the steps that fail and are
ignored are a constant, `MayFail`, so that each run says which failures it
allows.  An exception is possible wherever the work runs; exceptions between two
`idle_add` calls are not modelled (they do not raise).  Foreign dpkg locks only
refuse calls.

Properties: `OneWorker`, `NoStaleCallback`, `StreamWellFormed`, `AuditAgrees`, `NoInhibitorLeak`, `FreedOnlyAfterComplete`,
`InterruptionReported`, and under fairness `EventuallyAnswered` and
`EventuallyFree`; `HeldOnlyWhileBusy` is proved and not run.

`OperationSlot` is what clients are promised: one owner, one answer, free only
after the answer, lost answers only through a stop.  `OperationRefinement` maps
the owner to `_current_op_id` and an operation's answer to what the bus has
carried of it; `ImplementsSlot` is checked by TLC.

*Fairness* (`FairSpec`): a worker that can step does (its subprocesses run under
timeouts); a handler ends; and callbacks, which have idle priority, get strong
fairness - they wait while calls and timeouts are ready, which the rate limiter
and the 2 s poll keep from being for ever.  Clients and stops get none.

### RateLimiter and TokenBucket

The table of callers with its lazy refills (`Check`), the cleanup (`Cleanup`)
and a clock.  Time is counted in ticks and tokens in units of which a bucket
gains one per tick; with a tick of 1/3 s the code's numbers are 30 units and 1 a
call for reads, 180 and 36 for writes, 900 ticks for staleness.  That a bucket
fills before its entry is forgotten (`Capacity[b] <= StaleTicks`) is an
assumption on the constants that the code's numbers satisfy, and what the
refinement depends on.  Floating-point rounding is not modelled.

`TokenBucket` has no table, no laziness and no cleanup: buckets that fill with
time.  `WindowBound` bounds what any window, opened by an observer at any
moment, can see; `ImplementsBuckets` is the refinement.

### IdleTimer

Discrete time, one tick per poll interval.  `sources` are the countdowns GLib
knows, `sourceId` the one `_IdleTimer` remembers.  GLib's order is kept: what is
due runs before time goes on; of two due timeouts the one attached first runs
first (`elder`); idle callbacks wait for both; a blocked handler
(`BeginRevert`) lets time pass with nothing run.

*Fairness*: time, the poll, the expiry, the end of handlers and workers, and
callbacks.  No fairness on clients: `QuietDaemonStops` is about runs in which
calls and successful polls cease.

### Modifications

The worker's side is `fix_suspend` and `fix_hibernate` statement by statement
(`at`), the main thread's is `ModificationTracker.revert` (`mainAt`).  `enabled`,
`conf` and `initramfs` are the machine; `initramfs` is the configuration the image
was built from.  `copy` is the manifest each writer holds between load and save.

| Model | Code |
|---|---|
| `Begin(kind, profile)` | an accepted FixSuspend or FixHibernate, the detected profile |
| `CheckConfig`, `Scan`, `ScanDone` | what is already right - for the standard hibernate fix by a second detection of the display, which may answer otherwise (`seen`); one `systemctl is-enabled` per step |
| `WriteConfig`, `AskOriginal`, `AssumeOriginal`, `SwitchService`, `SkipService` | one change each, then `Record` |
| `Record`, `SaveRecord` | `record`: lock and load; append, save, unlock |
| `ServicesDone`, `Verify`, `VerifyDone`, `RebuildInitramfs` | the rest of the fix |
| `RevertBegin`, `Execute`, `SaveRevert` | `revert`: lock, load, find; `_execute_revert`; save and unlock |
| `Stop` | the daemon ends and is started by the next call |

A fault is a query that times out (read as "disabled"), a command that fails with
or without effect, a write, removal, save or load that fails, or a stop.  The
histories `lost` and `timedOut` name what a fault has spoilt, so that the
properties can say exactly what it costs: `OnTheBooks` (what differs from the
machine Verde found has an active entry or is being recorded), `FixEffective`
(success
means the profile's state; after two detections with two answers the second one's
configuration may be in place, section 5), `HistoryKept` (nothing on the manifest is
lost or rewritten) and `EveryFixEnds`.

What the tracker's documentation promises, that reverting brings back what was
there, does not hold (section 5): a `config_changed` entry never reverts
(`_revert_file_modified` raises without an original), a service switched on by one
fix and off by another and reverted oldest first ends up on with no active entry,
and reverting newest first rebuilds the initramfs before the configuration is
removed.

*Fairness* (`FairSpec`): the worker and a running revert go on, since every
subprocess has a timeout; the worker gets the lock in the end although the main
thread may take it again and again (strong fairness on `Record`) - two reverts
are separate calls that the rate limiter spaces.  Clients, faults and stops get
none.

### Snapshots

The machine is the installed packages and, apart, those of which only the
configuration files are left (`residue`): `dpkg-query -W` prints both.  A snapshot
is a file in a state (`disk`) with the packages it lists (`listing`).

| Model | Code |
|---|---|
| `Install`, `NoSpace`, `Capture`, `Prune`, `Write` | `_create_pre_install_snapshot`, `create_snapshot`: space, `dpkg-query`, pruning one file at a time, the atomic write |
| `Transact` | `_run_apt_install` as a whole |
| `Rollback`, `Read`, `VerifyIntegrity` | `_do_rollback`, `restore`: the file is read three times |
| `Plan`, `RemoveExtra`, `InstallSnapshot`, `Recover` | what to remove and install, two apt commands, and the attempt to put back what was removed |
| `DeleteSnapshot` | the main thread, between any two steps of the worker |
| `Withdraw`, `Damage`, `Stop` | the archive drops a version; a file is damaged or edited; the daemon stops |

The histories say what a property may rely on: `caught` (the snapshot lists what was
installed), `sharp` (the plan was made from what is installed), `missed` (files the
pruning failed to remove), `present` (what was installed when the rollback began, if
no fault came since).  `Retention`, `LatestKept`, `RestoresSnapshot` and
`FailureKeepsDrivers` are stated with them; `RollbackReturns`, the README's
promise, has none and is violated by residue.
No fairness: everything here is safety.  The rollback preflight
(`service.py:769`) is not here: no request reaches it (section 5).

### Client

One GUI: its proxy, its mirror of the degraded state, one dialog per view.  `calls`
and `inbox` are the bus in both directions, `idleq` the callbacks deferred with
`GLib.idle_add`, which run only when nothing from the bus waits.  The daemon is
`OperationSlot`: the module extends it, and its actions accept, answer, free, stop
and start through the slot's.  It may or may not be running when the GUI starts, so
the first call may have to wait for bus activation and a retry.

| Model | Code |
|---|---|
| `Activate`, `Connect`, `OnProxyReady`, `OnOwner`, `Retry`, `RetryClicked` | `connect_async`, `_on_proxy_ready`, `_on_name_owner_changed`, `_schedule_retry`, the views' retry buttons |
| `Serve`, `AcceptOther`, `Answer`, `Free`, `Change`, `Stop` | the daemon: dispatch, other clients, completion, release, polls, its end |
| `OnState`, `DoUpdate`, `DoReset` | replies and signals, `update_from_dict`, `reset` |
| `OpenInstall`, `OpenRollback`, `OpenFix`, `Confirm`, `Close` | the dialogs and their buttons |
| `OnStarted`, `DoStore`, `OnComplete` | `_on_install_started` and its likes, `_on_operation_complete`, `_start_next_fix` |
| `TimeOut`, `Drop` | the timeout of a call: 5 s, or 180 s for the methods of `_SLOW_METHODS`; the daemon may serve the call all the same, and GDBus drops its answer |

A failed connection keeps the proxy there is and schedules one retry (`retry`); the
user's retry button is guarded by the connection alone, so several proxies may be on
their way (`creating` counts them).  Connections may fail without end; only the user's
retries are bounded.

The preflight's answer is free: whether the button becomes sensitive is the user's
`Confirm`.  `shut` and `crossed` record the one way in which a dialog shows another's
outcome: it was opened after one had been closed while its operation ran, and the
view still has that operation's id.

*Fairness* (`FairSpec`): the bus delivers, the daemon serves and its workers end,
the GUI's loop handles what waits, the retry timer fires.  Users, faults and other
clients get none.

### Boots

`now` is the machine's facts (version, type, kernel, managed files), `pkg` the driver
on disk that the next boot loads.  `file` and `saved` are `last_state.json`, `pending`
the recap; `trail` replays the audit log.

| Model | Code |
|---|---|
| `Start`, `Load`, `Compare`, `Report`, `Reported`, `DetectionFails` | `_run_startup_detection` up to its except clause; one audit entry a step, which may fail to be written without anyone noticing |
| `Capture`, `Open`, `Write` | `save_current_state`: facts read again, the file truncated, then written |
| `Emit`, `Dismiss` | `ExternalChangesDetected` and the banner |
| `PackagesInPlace`, `WritePending` | a worker after apt, which may have put another branch in place than the one asked for (a transitional package); `write_pending` |
| `OpenWindow`, `Connect`, `GetPostRebootSummary`, `AskFails`, `Respond`, `ClearPostRebootSummary`, `CloseWindow` | the window's recap dialog |
| `Boot`, `Stop`, `InstallOutside`, `Edit` | reboots, the daemon's end, apt and editors |

The reads of one comparison, and of one capture, are one step each.  Facts are
numbers, 0 for what cannot be read.  `excused` names the fields for which log and
baseline were set apart, by a fault, by an audit entry that was not written or by a
change between comparison and capture; `TrailAgrees` is about all others.  `asked` is
the branch an install named, against which `RecapRight` measures the recap.  No fairness.

### Dispatch

Calls wait in `queue` until the main loop takes them; a call at Polkit holds up the
loop (`Free`).  `Handle` has the branches of `_handle_method_call` up to the
authorization in their order, `Finish` those after it; `ListDone` is the thread that
lists drivers, `WorkerDone` a worker's release.  Requests are the methods of
`METHOD_ACTION_MAP` and of the interface's XML with each class of argument that a
validator tells apart.  A call is dropped without an answer where nothing catches what
a handler raises: in two handlers, and in the listing thread once the list is there.

*Fairness*: the main loop takes what is queued, Polkit's call returns by its 5 s
timeout, the listing thread and the worker end.  Clients and users get none:
`DealtWith` holds although no one ever answers a dialog.

### Recovery

A machine whose driver may not load: packages, kernel headers, modules that DKMS has
built, Secure Boot, blacklists on disk (`ban`) and in the initramfs (`image`).

| Model | Code |
|---|---|
| `StartDaemon`, `Poll`, `Detect` | `VerdeService.__init__`, `_poll_and_emit`, `detect_degraded_state` |
| `Diagnose`, `Applies` | `ModuleDoctor.diagnose`: the first check that applies |
| `ClickFix`, `CloseDialog`, `ConfirmFix` | the dashboard's Fix dialog |
| `FixDiagnose`, `FixApt`, `FixDkms`, `FixUnban`, `FixModprobe`, `FixReports`, and their failures | `_do_fix_module` and the doctor's fixes, one subprocess or file a step |
| `StartConsole`, `ChooseRollback`, `CommandRollback`, `RollbackApt`, `RollbackImage` | `cli_recovery.py`, the rollback |
| `ChooseNouveau`, `NouveauBan`, `NouveauUnban`, `NouveauImage` | `execute_nouveau_fallback` |
| `Boot`, `LoseGpu` | a reboot on the newest kernel; the GPU stops answering |

A query may come late or fail whenever it is asked, and each caller reads that its own
way: `Findings` are the causes the doctor may name, one for each set of queries that do
not answer.  apt, DKMS, the blacklist's file and modprobe fail the fix as often as they
like - a module that does not build for the kernel fails every time; only the console's
failures, an apt that is killed and a lost GPU are counted.  The console
and the daemon interleave step by step; dpkg's lock is all they share.  `told` and
`fell` follow a reported fix and a reported fallback until something else touches
the machine.  `told` names the cause the worker itself diagnosed: that this is not
always the one the dialog had shown is not a violation of `FixDelivers`.

No fairness: `NoEndlessFix` speaks of runs in which the user confirms a fix again and
again, and those runs go on by themselves.  `NoEndlessFix` allows exactly what the code
allows: a fix is offered for ever only if its own command fails for ever, or late
answers mislead the doctor for ever.

## 4. Runs

| Run | Bounds | Shows |
|---|---|---|
| `OperationSafety` | 2 operations, 5 kinds, 2 stops; thread, unlink may fail; symmetry | `TypeOK`, `OneWorker`, `NoStaleCallback`, `StreamWellFormed`, `AuditAgrees`, `NoInhibitorLeak`, `InterruptionReported`, `FreedOnlyAfterComplete` - Two operations of any kind and two stops, with threads and unlinks that may fail: one worker at a time, no callback outlives its operation, the stream and the audit log of an operation agree, no inhibitor leaks, the slot is freed only after the answer, and an install cut off half-way is known to the next daemon, whatever a second operation did to the marker. |
| `OperationProgress` | 2 operations, 2 kinds, 1 stop; inhibitor locks may be refused; fairness, no symmetry | `ImplementsSlot`, `EventuallyAnswered`, `EventuallyFree` - With fair workers, inhibitor locks that may be refused and a main loop that comes round, every accepted operation is answered or the daemon stops, and the slot never stays taken; and the worker, the idle queue and the stops implement OperationSlot. |
| `RateLimits` | 1 caller, buckets of 2 and 3, prices 1 and 2, clock to 8 | `TypeOK`, `WindowBound`, `ImplementsBuckets` - A caller that calls, is forgotten and comes back: in every window no more is granted than a full bucket and the inflow, and lazy refills and the cleanup are indistinguishable from two full-time buckets. |
| `IdleShutdown` | timeout of 5 polls, 3 source ids | `TypeOK`, `OneSource`, `ExitOnlyAfterFailedPoll`, `QuietDaemonStops` - Calls, reverts that block the loop and polls that may raise: one idle source at most; the daemon exits under an operation only when a poll has raised; and a daemon with no calls and no successful polls stops, even if the last operation held the timer. |
| `Modifications` | 2 services, 3 machines, 2 fixes, 1 fault or stop; fairness | `TypeOK`, `OnTheBooks`, `FixEffective`, `HistoryKept`, `EveryFixEnds` - Two fixes of either kind and profile, reverts at any moment, and one command, query, write, save or load that fails or one stop: no record is lost, what Verde changed has an active entry, a fix that succeeds is effective whatever was left half done, and every fix ends. |
| `Snapshots` | 2 branches, one of them in 2 versions and with configuration files, 3 ids, 2 kept, 4 operations, 1 fault or stop | `Retention`, `LatestKept`, `RestoresSnapshot`, `FailureKeepsDrivers` - Installs, rollbacks, deletions, archive changes, damaged files, failures and stops in any order: the store stays bounded and keeps the last snapshot, a rollback that says so has brought the packages back, and one that fails because the archive or the file lets it down leaves the drivers that were there. |
| `FindingRollback` | the same, no fault | violated: `RollbackReturns` - An install from one branch to the other and the rollback to its snapshot. |
| `Client` | 2 operations, 3 dialogs and accepted operations together, 1 stop, time-out, clicked retry or change of state, any number of failed connections; fairness | `MirrorTrue`, `OwnOutcome`, `DialogEnds` - Dialogs that run one operation or chain two beside operations of other clients, a call that times out, a daemon that stops, a GPU that changes: the mirror is true once everything is handled, a dialog shows its own outcome, and ends. |
| `Boots` | 2 driver branches, 1 managed file, 3 events (reboots, edits, installs, windows), 1 fault | `TrailAgrees`, `NoFalseAlarm`, `RecapRight` - Reboots, starts and stops of the daemon, edits and installs by anyone, unreadable facts and torn writes while the startup detection runs and while the window asks for its recap: the audit log replays to the baseline but for entries that were not written, nothing that did not change is reported, and an install is recapped as what apt has put in place. |
| `Dispatch` | 2 calls, each any of the 23 methods with each class of argument, 2 faults | `OneAnswer`, `DealtWith` - Any two calls, with everything the limiter, the validators, Polkit, the slot and the handlers may say: each gets one answer, and none waits for ever behind Polkit's dialog. |
| `FindingDispatch` | 1 call, no fault | violated: `Reachable` - Each documented method, called as its clients call it. |
| `Recovery` | one reboot, one visit to the console, and one failure of a step of the console, of apt killed or of the GPU; the doctor's queries and the fix's own commands fail freely and for ever; four kinds of package, Secure Boot off or without an enrolled key, headers and modules for one kernel or none, a repository that knows the kernel or does not; a damaged snapshot, which may be refused or taken like a whole one | `FixDelivers`, `FallbackHolds`, `NoEndlessFix` - From every state of a machine whose driver does not load, with the daemon's fix and the recovery console side by side: a reported fix has removed its cause, a reported fallback keeps the NVIDIA driver away, and a fix is offered for ever only when what it does, or what the doctor asks, fails for ever. |

Why the bounds are enough: the operations of the service meet only through the
slot, the idle queue, the marker and dpkg, one at a time, so two operations show
every way in which one can follow, precede or overlap another, and the proofs
cover any number.  Stops matter through what they leave behind; two are enough
for a stop during the repair of what a first stop left.  The limiter's buckets
are small but keep the relations of the real ones: a write dearer than a read,
staleness no shorter than a fill, a clock long enough for a caller to be
forgotten, to return and to be forgotten again.  The idle countdown of five polls is longer
than any chain of events that resets it.

Two fixes are one of each kind or profile, or one that finds what the other left;
one fault is enough because every property speaks of what a single failure may
cost (two faults multiply the states and not the ways to meet).

Three snapshot ids with two kept make every install prune, and let a name sort
before or after the stored ones; the branch in two versions and with
configuration files is the smallest archive in which a rollback must downgrade,
remove and be refused.  In `Client` one view stands for each view, since views
share nothing but the signals, and what a second would do to the daemon
`AcceptOther` does; the proofs are for any number of views.  Three events in `Boots` are an install, a window and a
reboot, in any order and with a change by hand in place of any; the daemon's
own starts and stops are not counted.  Two calls show in `Dispatch` one that
waits at Polkit and one behind it.  One reboot in `Recovery` puts every reported
fix and fallback to the test; `NoEndlessFix` needs no second one because only
rounds without a pending reboot count.  Its fixes and queries fail without bound.  What
the bound on visits leaves out is a user who alternates the console's fallback and the
daemon's fix for ever, undoing one with the other.  A damaged snapshot may be refused
or taken like a whole one, which covers both; a console without a snapshot does less,
and the proofs have it.

Deadlock is not checked where the daemon may stop for good (IdleTimer), or where
the bounds leave nothing to do (Modifications, Snapshots, Client, Boots, Dispatch,
Recovery).

## 5. Disagreements with the documentation

* **`FindingRollback` (`RollbackReturns`)** - README.md:58 says "every install is snapshotted first, so you can return to the previous working driver"; _query_nvidia_packages takes every line of dpkg-query that has a version, a removed package whose configuration files are left too (driver_manager.py:279 asks for the state, this query does not): after an install in place of such a package, the rollback finds it present, removes the new driver, installs nothing and reports success.
* **`FindingDispatch` (`Reachable`)** - docs/dbus-api.md:17 documents "GetPreflightCheck(s operation)", "Pre-flight safety checks for an operation"; the drivers view asks for "install" (views/drivers.py:790) and "rollback:<id>" (:532), which OPERATION_NAME_PATTERN rejects, so both dialogs always get InvalidArgument and _dispatch_rollback_preflight is never reached.  Likewise GetAuditLog (docs/dbus-api.md:24) has no entry in METHOD_ACTION_MAP and ends at service.py:593 with UnknownMethod, and RepairDpkg (docs/dbus-api.md:35) is missing from data/com.verde.Manager.xml, so GDBus refuses it.

Seen while modelling, in the models as the code has them, without a run of their
own:

* docs/how-it-works.md:89 says only one write may run at a time;
  `RevertModification` (`service.py:1591`) never looks at `_operation_in_progress`
  and works beside an operation.
* docs/how-it-works.md:76 says writes are capped at 5 in 60 s and reads at 30 in 10 s.
  A token bucket (`rate_limiter.py:95`) lets a full bucket and its refill into one
  window, nearly twice that; `WindowBound` states the bound that holds.
* The standard hibernate fix detects the display twice: what `_check_modprobe_config()`
  finds in place (`power_manager.py:1308`, profile detected again at :979) may be another
  profile's configuration than the one the fix was begun for, and it then reports
  success without writing its own.  `FixEffective` allows it this and nothing else.
* docs/how-it-works.md:139 says every change is written to the audit log;
  `AuditLogger.log` swallows any `OSError` (`audit.py:97-108`), and the startup detection
  saves its baseline all the same, so the change is never reported again.
* docs/how-it-works.md:138 says every change is snapshotted before it happens;
  `_create_pre_install_snapshot` (`service.py:2461`) logs any exception and the
  install goes on.
* `apt_errors.py:548` says the marker persists until the operation completes
  successfully; the `finally` clause (`service.py:2090`) removes it after a failure.
* `main.py:41` says the daemon must not exit during operations; a reset re-arms
  the held timer, and polls that raise skip theirs (`service.py:328`).
* README.md:117 says the daemon shuts itself down after 60 seconds idle; every
  successful poll resets the countdown (`service.py:327`).
* `modification_tracker.py:5` says each modification records the original state;
  the standard hibernate fix (`power_manager.py:1343`) replaces
  `nvidia-power-management.conf` and records it as created.
* docs/how-it-works.md:119 has the recap after the reboot; a window opened before
  it gets the recap, and closing the dialog consumes it.  `-server` and `-open`
  installs are always recapped as partial, since no version ends so
  (`pending_summary.py:194`).
* The startup detection reports Verde's own installs as outside changes, since the
  baseline is saved at startup only; a version unreadable at one start hides the
  change for good; `ExternalChangesDetected` is sent before the GUI that activated
  the daemon has connected its handlers (`dbus_client.py:102`); the notice of
  `set_startup_error` has no reader.
* `RevertModification` and `GenerateDiagnosticReport` are validated after Polkit
  (README.md:179 says before); `GetPostRebootSummary` and `RevertModification` have
  no catch-all except clause, and `_finish_list_available_drivers`
  (service.py:2743) runs outside the try of its callers, so an exception there
  leaves the call unanswered; `log_auth_failure` has no caller.
* NVML is initialized once, so after a successful module fix the next poll says
  "no_gpu" until the daemon restarts (README.md:51); `_driver_installed` is computed
  at startup only.
* A kernel that the repositories no longer have is never diagnosed as a mismatch
  while its headers are missing, and the header fix fails each time
  (`module_doctor.py:93-107`; README.md:250 promises a one-click fix).  The mismatch fix
  builds the module for the running kernel only.  The blacklist fix takes out
  `blacklist nvidia` alone and does not rebuild the initramfs.
* "A DKMS rebuild should fix this" (`module_doctor.py:210`): where the module does not
  build for the kernel the rebuild fails every time (`module_doctor.py:553`) and the same
  fix is offered again for ever; so is the header fix while `dpkg-query` answers late
  (`module_doctor.py:131`).  `NoEndlessFix` says that these are the only ways.
* The console passes over a nouveau blacklist it cannot rewrite
  (`cli_recovery.py:335`) and never checks the enrolment its docstring mentions
  (`recovery_diagnostics.py:86-120`).
* `verde --check` (`cli.py:78-84`) reads keys the daemon does not send and exits
  with 3; its tests use the same keys (tests/unit/test_cli.py:25).
* A lost `OperationComplete`, and one that comes before its id is stored, leave a
  dialog in progress that cannot be cancelled; `gpu_state`'s deferred reset
  overwrites "daemon_unreachable" with "unknown".

## 6. Proofs

TLAPS (tlapm 1.4.5) proves, for every value of the constants that satisfies the
named assumptions:

**`OperationServiceProofs`** (assumption `ConstantsOK`).  `TypeCorrect`; then
`SlotInv`, the inductive invariant behind four theorems on the slot.  `OneWorker`
and `NoStaleCallback` are not inductive: they need to know what the callbacks
still queued belong to.  `SlotInv` is the conjunction of

* `Owner` - a live worker is the owner of a taken slot, and an operation that has
  not been accepted owns nothing;
* `OwnersQueue` - while the slot is taken everything queued is the owner's, a
  release is queued exactly when the owner's worker is done, and it is last;
  while it is free nothing of an operation is queued;
* `Announced` - a worker past its report has its completion queued or on the
  wire, and a queued release finds it there or in front of itself.

Each action has a lemma; `WorkerInv` treats the worker's steps together.
`OneWorkerCorrect`, `NoStaleCallbackCorrect`, `HeldOnlyWhileBusyCorrect` and
`FreedOnlyAfterCompleteCorrect` follow.

The answers need more: `AnswerInv` adds to `SlotInv`

* `Accounts` - for each operation, what its worker has decided by now, and that
  every signal of it, on the wire or still queued, and every audit entry repeats
  that decision.  It speaks of queued signals too because the worker has moved on,
  or is dead, when the loop comes to them;
* `Ordered` - the wire followed by the operation's part of the queue is a
  well-formed stream: the main loop only moves the cut between the two.

`StreamWellFormedCorrect` and `AuditAgreesCorrect` are its consequences, and
`SlotImplemented` is the refinement of `OperationSlot`: each step of `Next` maps to
the abstract accept, answer, free or stop, or to a stutter (`EmitAnswers`,
`AcceptAnswers`, `ReleaseAnswers`, `StopAnswers`, `SlotSteps`).

What outlives a worker is proved beside it.  `NoInhibitorLeakCorrect` rests on
`Descriptors` (who is between taking and releasing, and that a repair, which jumps
over the release, never takes one).  `InterruptionReportedCorrect` rests on `Marked`:
who may have dpkg half-configured has its marker on disk, and an operation that was
cut off is owed a report by the marker while the daemon is down and by the startup
error while it is up.  It assumes `"mark"` and `"probe"` not in `MayFail`, as the run
does: with a marker that was not written, or a `dpkg --audit` that times out, the code
has nothing to tell from (hazards at `apt_errors.py:395`).

The limiter's theorems (assumption `LimiterConstants`) are in **`DispatchProofs`**, since
every call passes it first: `LimiterTypeCorrect`; lemmas on
what `Check`, `Cleanup` and `Tick` do to a bucket's level (`CheckLevel`,
`CleanupLevel`, `TickLevel`) - the cleanup changes no level because an entry that
is stale has had the time to fill.  `WindowBoundCorrect` strengthens the bound to
`Budget` (what was spent plus what is left never exceeds the capacity plus the
inflow); `BucketsImplemented` is the refinement of `TokenBucket`.

**`ModificationsProofs`** (assumption `ModificationConstants`).  `Locked` proves the
types together with `LockInv`: who has loaded the manifest holds the lock, and
what he has loaded is what is on disk.  `HistoryKept` is not inductive without
it.  `NothingForgotten` then needs two facts: a record appends to the manifest
itself, and a revert changes one flag of it.

`ChangesOnTheBooks` needs to know what an entry means, for a revert believes it.
`BookInv` says: an entry that records switching a service found it the other way
round (`Entries`); a service that is on or off has come to be so by itself or by an
entry (`Explained`), except for the change the worker is about to record; what the
standard fix has yet to enable it found disabled (`WorkInv`); between a revert's
undoing and its save the target is as it was, or the worker has changed it again and
waits for the lock (`RevertInv`).  With it, saving the reverted entry as inactive
leaves no difference unrecorded, which is where the proof is hard
(`FoundUndone`, `ServiceOnTheBooks`, `ConfOnTheBooks`).

`FixesTakeEffect` needs the loop's progress as an invariant: `EffectInv` says that while
no revert interferes each service is as the profile calls for or still ahead of the
worker (`Ahead`), that the hibernate fix has found or written its configuration
(`Configured`), and that it records a rebuild only of an image that holds it (`Rebuilt`).  Where the
display was detected a second time the configuration found may be that of the second
answer; `Configured` says so, and so does `FixEffective`.

**`IdleTimerProofs`** (assumption `TimerConstants`).  `TypeCorrect`,
`OneSourceCorrect`, `ExitOnlyAfterFailedPollCorrect`.  The last is not inductive: that
the timer cannot expire under an operation rests on `Guarded` - while an operation
runs and every poll has run through, polling is on, the timer's source is younger
than the poll's, and either the countdown is whole or a poll is due, which then runs
first.

**`SnapshotsProofs`** (assumption `SnapshotConstants`).  The inductive invariant is
`TypeOK` with `StoreInv` (while the worker prunes, the files it will not remove leave
room for one more, up to those it failed to remove), `PackageInv` (dpkg, captures and
snapshots hold one version of a package), `BookInv` (what a rollback has loaded from a
file that turned out intact is what the snapshot caught), `PlanInv` (what a plan
removes and installs, against what is installed by now), `ResultInv` and `PresentInv`
(what was installed at the start is installed still, or among what was taken out and
will be put back: `FailureKeepsDriversCorrect`).
`RetentionCorrect` needs cardinalities of finite sets,
`RestoresSnapshotCorrect` that removing and then installing what the plan names gives
the snapshot's packages (a lemma on sets).

**`BootsProofs`** (assumption `BootsConstants`).  `TrailAgrees` is not inductive: during
the scan log and baseline differ.  `ScanInv` says by how much at each step, `ChangeInv`
that `changed` and `fresh` cover what differs from the baseline and from the capture,
`TrailInv` that the log has the facts as seen for what is told and the baseline's for
the rest, fields whose entry was not written apart, `RecapInv` that an undisturbed
install's recap expects the branch asked for, whichever apt put on disk.
`TrailAgreesCorrect`, `NoFalseAlarmCorrect` and `RecapRightCorrect` follow.

The other half of **`DispatchProofs`** is `OneAnswerCorrect`, for which
`DispatchConstants` is not needed.  Every branch is first shown to have one of three outcomes for its call
(`HandleOutcome`, `FinishOutcome`, `ListOutcome`); the invariant - no answer and no
entry before the step that ends a call, the queue an injective listing of the calls
that wait, one call at Polkit - is then kept by an outcome of any call (`CallInv`,
`QueueInv`, `PolkitInv`).

**`RecoveryProofs`** (no assumption needed).  `FallbackHoldsCorrect`: `FallbackInv`, that
from the console's first write on the NVIDIA driver is on the blacklist, and from its
report on in the initramfs too, as long as no fix of the daemon has come in between;
and every other step keeps both lists or resets the history.

`FixDeliversCorrect`: `DiagnoseApplies` shows that the doctor names a cause only when
that cause's own check applies, so that a cause whose check fails is not named again,
whichever comes before it in the list; `CuredIsGone` that a cured cause is then named
by no set of late answers, unless the one on the headers is among them (headers the
query does not answer for are taken to be missing).  `CureInv` then says what each step of the
worker knows of the cause it treats (`Treating`) and what each report stands for
(`Telling`), and `CuredKept` which steps of the rest of the machine leave a cured cause
cured; the others reset the history (`Spoiled`).

**`ClientProofs`** (assumption `ClientConstants`).  What the bus has for the GUI, what
the GUI has put off and what it shows are three queues of one story, so neither property
is inductive without saying what each part of it may still hold.

`MirrorCorrect` rests on `MirrorInv`: *the last word is true*.  The last thing in the
inbox that tells of the connection is so (`LinkTrue`); the last news of a daemon that is
up are its own or make the GUI fetch them, and what one that is down said ends with its
going (`NewsTrue`); with a daemon its state is shown, or will be by the last callback put
off, or is on its way (`Current`); without one a reset is to come or no state is shown
(`Blank`); and before there is a proxy nothing has been asked for (`Unlinked`).  With
everything handled, this is `MirrorTrue`.  A connection that fails while a retry is
scheduled leaves `connected` as it is, which is right only because the GUI has been told
before that the daemon is gone, and of no new one since: `WarnInv` says so of every
failure still in the inbox.

`OwnOutcomeCorrect` rests on `OutcomeInv`, which is a token and a count.  The token: as
long as no dialog was closed under its operation, a view has at most one operation in one
place, asked for, replied, put off or current, while it shows progress, and it is the
dialog's own (`TokenInv`: `Single`, `Owns`).  The count: dialogs are numbered in the order
they open and operations bear their numbers (`DialogsNumbered`, `AsksNumbered`); a
completion is told once and after the answer (`Told`); a dialog never asks for more than
it has counted down (`Paid`), and what it has counted down was done, except for the one
it waits for (`Earned`).  At success the two bounds meet.  The lemmas `CountAppend`,
`CountTail`, `DoneGrows` and `DoneMore` do the cardinalities.

## 7. Only model-checked

Liveness, `ENABLED` and whatever rests on recursive definitions stay with TLC.
`DialogEnds`, `DealtWith`, `EveryFixEnds`, `NoEndlessFix`, `QuietDaemonStops`,
`EventuallyAnswered` and `EventuallyFree` are liveness; every other property of the runs
is a theorem.

## 8. Not modelled

* NVML and sysfs bindings, report formatting, apt-cache and dpkg-query output,
  error-text classification, JSON and its validation: input/output and text.  Their
  outcomes are choices of the models.
* The apt subprocess's status pipe, stderr pipe, deadline and kill
  (`service.py:2111-2220`): `Transact` and its outcomes stand for it.
* The audit log's reader and its suspicious patterns (`audit.py:172` on): a pass over
  entries that changes nothing.
* The mirrored GPU properties other than the degraded state, lists of drivers and
  snapshots, and all presentation of the GUI.
* The `verde` command line, the mock daemon, packaging, translations and tests.
