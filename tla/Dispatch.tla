------------------------------ MODULE Dispatch ------------------------------
(***************************************************************************)
(* From a method call on the bus to its answer: the guards in their order,  *)
(* Polkit's question, which holds up the main loop and every call behind    *)
(* it, the handler, the thread that lists drivers, and the operation slot   *)
(* that is free again when a worker is done.  Calls are taken in the order  *)
(* they came.                                                              *)
(*                                                                         *)
(* The rate limiter's decision is free here (RateLimiter has it), and so is *)
(* what dpkg's lock, the user and the queried tools say.  An argument is a  *)
(* member of its class: good or bad where a validator looks at it, or the   *)
(* name of an operation.  The bus daemon always gives a sender.             *)
(***************************************************************************)
EXTENDS Naturals, Sequences, FiniteSets, SequencesExt

CONSTANTS
  Calls,     \* calls in one run
  MaxFaults  \* bound: answers that are late, files that are damaged, tools that fail

ASSUME DispatchConstants == MaxFaults \in Nat

VARIABLES
  what,    \* each call's method and argument
  stage,   \* where it is
  answer,  \* what its caller was told
  told,    \* history: how many answers it got
  entries, \* history: audit entries about it
  queue,   \* the calls the main loop has yet to take
  busy,    \* _operation_in_progress
  faults

vars == <<what, stage, answer, told, entries, queue, busy, faults>>
-----------------------------------------------------------------------------
(* The methods. *)

\* Names that GetPreflightCheck is asked for: by the fixes' dialogs, and by the
\* drivers view, whose rollback names a snapshot too.
Asked == {"fix_suspend", "fix_hibernate", "fix_module", "install", "rollback:id"}

\* OPERATION_NAME_PATTERN
Operations == {"driver_install", "driver_switch", "driver_rollback",
               "fix_suspend", "fix_hibernate", "fix_module"}

\* _GPU_DATA_METHODS
GpuData == {"GetGPUInfo", "GetGPUStats", "GetCurrentDriver", "GetDegradedState",
            "ListAvailableDrivers"}

Recaps == {"GetPostRebootSummary", "ClearPostRebootSummary"}
Reads  == {"DiagnoseModuleFailure", "GetPowerStatus", "ListSnapshots", "GetIntegrityStatus",
           "ListModifications"}

\* METHOD_ACTION_MAP
Actions == [m \in {"InstallDriver", "RollbackDriver", "RepairDpkg", "DeleteSnapshot",
                   "FixModuleNotLoaded"} |-> "driver.manage"]
           @@ [m \in {"FixSuspend", "FixHibernate", "RevertModification"} |-> "power.manage"]
           @@ [m \in {"GenerateDiagnosticReport"} |-> "diagnostics"]

\* _METHOD_VALIDATORS
Validated == {"InstallDriver", "RollbackDriver", "DeleteSnapshot"}

\* Those that start a worker, and those that look at dpkg's lock first.
Long  == {"InstallDriver", "RollbackDriver", "RepairDpkg", "FixSuspend", "FixHibernate",
          "FixModuleNotLoaded"}
Locks == {"InstallDriver", "RollbackDriver", "RepairDpkg"}

\* The interface's XML; GDBus refuses the rest.
Declared ==
  {"Ping", "GetPreflightCheck", "GetAuditLog"} \cup GpuData \cup Recaps \cup Reads
    \cup (DOMAIN Actions \ {"RepairDpkg"})

\* The documented methods and the arguments that clients send or may mistype.
Requests ==
  {[method |-> m, arg |-> a] :
     m \in Validated \cup {"RevertModification", "GenerateDiagnosticReport"}, a \in {"good", "bad"}}
  \cup {[method |-> "GetPreflightCheck", arg |-> a] : a \in Asked \cup Operations \cup {"bad"}}
  \cup {[method |-> m, arg |-> "good"] :
          m \in (Declared \cup DOMAIN Actions) \ {"GetPreflightCheck"}}

Init ==
  /\ what = [c \in Calls |-> [method |-> "Ping", arg |-> "good"]]
  /\ stage = [c \in Calls |-> "unsent"] /\ answer = [c \in Calls |-> "none"]
  /\ told = [c \in Calls |-> 0] /\ entries = [c \in Calls |-> 0]
  /\ queue = <<>> /\ busy = FALSE /\ faults = 0
-----------------------------------------------------------------------------
(* Steps of a call. *)

Fault == faults < MaxFaults /\ faults' = faults + 1

\* Only one call is in the main thread, and only Polkit keeps it there.
Free == \A c \in Calls : stage[c] # "polkit"

Answer(c, a) ==
  /\ answer' = [answer EXCEPT ![c] = a] /\ told' = [told EXCEPT ![c] = @ + 1]
  /\ stage' = [stage EXCEPT ![c] = "done"]

Unlogged     == UNCHANGED entries
Logged(c)    == entries' = [entries EXCEPT ![c] = @ + 1]
Refuse(c, a) == Answer(c, a) /\ UNCHANGED <<busy, faults>>

\* A handler with an except clause: its tools or its data may fail it.
Guarded(c, error) ==
  \/ Answer(c, "ok") /\ UNCHANGED faults
  \/ Answer(c, error) /\ Fault

\* One without: what it raises ends in the log, and nobody answers.
Raise(c) ==
  /\ Fault /\ stage' = [stage EXCEPT ![c] = "dropped"]
  /\ UNCHANGED <<answer, told>>

Send(c, r) ==
  /\ stage[c] = "unsent"
  /\ what' = [what EXCEPT ![c] = r] /\ stage' = [stage EXCEPT ![c] = "queued"]
  /\ queue' = Append(queue, c)
  /\ UNCHANGED <<answer, told, entries, busy, faults>>

\* The main loop takes the next call, its method as M, its argument as A.
Takes(c) ==
  /\ Free /\ queue # <<>> /\ c = Head(queue) /\ stage[c] = "queued"
  /\ queue' = Tail(queue) /\ UNCHANGED what

M(c) == what[c].method
A(c) == what[c].arg

\* GDBus knows the XML only.
NotDeclared(c) ==
  /\ Takes(c) /\ M(c) \notin Declared
  /\ Refuse(c, "UnknownMethod") /\ Unlogged

Ping(c) ==
  /\ Takes(c) /\ M(c) = "Ping"
  /\ Refuse(c, "ok") /\ Unlogged

RateLimited(c) ==
  /\ Takes(c) /\ M(c) \in Declared \ {"Ping"}
  /\ Refuse(c, "RateLimited") /\ Logged(c)

\* _dispatch_get_post_reboot_summary has no except clause: a damaged file.
Recap(c) ==
  /\ Takes(c) /\ M(c) \in Recaps
  /\ \/ Answer(c, "ok") /\ UNCHANGED faults
     \/ M(c) = "GetPostRebootSummary" /\ Raise(c)
  /\ IF M(c) = "ClearPostRebootSummary" THEN Logged(c) ELSE Unlogged
  /\ UNCHANGED busy

\* _dispatch_gpu_method answers, or leaves the list of drivers to a thread.
GpuDataCall(c) ==
  /\ Takes(c) /\ M(c) \in GpuData
  /\ \/ /\ M(c) = "ListAvailableDrivers" /\ stage' = [stage EXCEPT ![c] = "listing"]
        /\ UNCHANGED <<answer, told, faults>>
     \/ /\ M(c) # "ListAvailableDrivers"
        /\ Guarded(c, IF M(c) = "GetCurrentDriver" THEN "AptUnavailable" ELSE "InternalError")
  /\ Unlogged /\ UNCHANGED busy

\* Mutant: the list goes on to its end after an error.
ListErrorGoesOn(c) ==
  answer' = [answer EXCEPT ![c] = "AptUnavailable"] /\ told' = [told EXCEPT ![c] = 1] /\ UNCHANGED stage

\* ubuntu-drivers or apt-cache failed: the thread's except clause returns.
ListError(c) == Answer(c, "AptUnavailable")

\* The thread's answer, by way of an idle callback; an entry the reply cannot be
\* built from raises outside the except clause, and the thread ends.
ListDone(c) ==
  /\ stage[c] = "listing"
  /\ \/ Answer(c, "ok") /\ UNCHANGED faults
     \/ told[c] = 0 /\ ListError(c) /\ Fault
     \/ Raise(c)
  /\ UNCHANGED <<what, entries, queue, busy>>

PlainRead(c) ==
  /\ Takes(c) /\ M(c) \in Reads
  /\ Guarded(c, "InternalError") /\ Unlogged /\ UNCHANGED busy

\* GetPreflightCheck: its own validation, and one of the four kinds of checks.
Preflight(c) ==
  /\ Takes(c) /\ M(c) = "GetPreflightCheck"
  /\ \/ A(c) \notin Operations /\ Refuse(c, "InvalidArgument") /\ Logged(c)
     \/ A(c) \in Operations /\ Guarded(c, "InternalError") /\ Unlogged /\ UNCHANGED busy

NoAction(c) ==
  /\ Takes(c)
  /\ M(c) \in Declared \ (DOMAIN Actions \cup {"Ping", "GetPreflightCheck"} \cup GpuData \cup Recaps \cup Reads)
  /\ Refuse(c, "UnknownMethod") /\ Unlogged

Invalid(c) ==
  /\ Takes(c) /\ M(c) \in Validated /\ A(c) = "bad"
  /\ Refuse(c, "InvalidArgument") /\ Logged(c)

Valid(c) == M(c) \in Validated => A(c) = "good"

\* check_authorization, which waits for Polkit, and Polkit for the user.
AskPolkit(c) ==
  /\ Takes(c) /\ M(c) \in DOMAIN Actions \cap Declared /\ Valid(c)
  /\ stage' = [stage EXCEPT ![c] = "polkit"]
  /\ UNCHANGED <<answer, told, entries, busy, faults>>

\* No, a closed dialog, no agent; any other error is a no.
Denied(c) ==
  /\ stage[c] = "polkit" /\ UNCHANGED <<what, queue>>
  /\ \/ \E d \in {"NotAuthorized", "PolkitCancelled"} : Refuse(c, d) /\ Unlogged
     \/ Refuse(c, "PolkitAgentMissing") /\ Logged(c)

\* Mutant: the call to Polkit has no deadline.
WaitsForever(c) == FALSE

\* _POLKIT_TIMEOUT_MS
TimesOut(c) ==
  /\ stage[c] = "polkit" /\ UNCHANGED <<what, queue>>
  /\ Refuse(c, "PolkitTimeout") /\ Unlogged

Authorized(c) == stage[c] = "polkit" /\ UNCHANGED <<what, queue>>

\* The slot is looked at after Polkit has answered, and dpkg's lock after it.
Occupied(c) ==
  /\ Authorized(c) /\ M(c) \in Long /\ busy
  /\ Refuse(c, "OperationInProgress") /\ Unlogged

Locked(c) ==
  /\ Authorized(c) /\ M(c) \in Locks /\ ~busy
  /\ Answer(c, "DpkgLocked") /\ Fault /\ Logged(c) /\ UNCHANGED busy

\* The op id goes out and the worker starts.
Accept(c) ==
  /\ Authorized(c) /\ M(c) \in Long /\ ~busy
  /\ busy' = TRUE
  /\ Answer(c, "ok") /\ Logged(c) /\ UNCHANGED faults

DeleteSnapshot(c) ==
  /\ Authorized(c) /\ M(c) = "DeleteSnapshot" /\ UNCHANGED busy
  /\ \/ Answer(c, "ok") /\ Logged(c) /\ UNCHANGED faults
     \/ /\ \E e \in {"SnapshotNotFound", "InternalError"} : Answer(c, e)
        /\ Unlogged /\ Fault

\* The id is validated here, after Polkit; the revert itself may raise.
RevertModification(c) ==
  /\ Authorized(c) /\ M(c) = "RevertModification" /\ UNCHANGED busy
  /\ \/ A(c) = "bad" /\ Answer(c, "InvalidArgument") /\ Logged(c) /\ UNCHANGED faults
     \/ A(c) = "good" /\ Answer(c, "ok") /\ Logged(c) /\ UNCHANGED faults
     \/ A(c) = "good" /\ Answer(c, "ModificationNotFound") /\ Unlogged /\ UNCHANGED faults
     \/ A(c) = "good" /\ Raise(c) /\ Unlogged

\* So is the format.
GenerateDiagnosticReport(c) ==
  /\ Authorized(c) /\ M(c) = "GenerateDiagnosticReport" /\ UNCHANGED busy
  /\ \/ A(c) = "bad" /\ Answer(c, "InvalidArgument") /\ Unlogged /\ UNCHANGED faults
     \/ A(c) = "good" /\ Guarded(c, "InternalError") /\ Logged(c)

\* _release_guard
WorkerDone ==
  /\ busy /\ Free /\ busy' = FALSE
  /\ UNCHANGED <<what, stage, answer, told, entries, queue, faults>>

Handle(c) ==
  \/ NotDeclared(c) \/ Ping(c) \/ RateLimited(c) \/ Recap(c) \/ GpuDataCall(c) \/ PlainRead(c)
  \/ Preflight(c) \/ NoAction(c) \/ Invalid(c) \/ AskPolkit(c)

Finish(c) ==
  \/ Denied(c) \/ TimesOut(c) \/ Occupied(c) \/ Locked(c) \/ Accept(c) \/ DeleteSnapshot(c)
  \/ RevertModification(c) \/ GenerateDiagnosticReport(c)

Next ==
  \/ \E c \in Calls, r \in Requests : Send(c, r)
  \/ \E c \in Calls : Handle(c) \/ Finish(c) \/ ListDone(c)
  \/ WorkerDone

\* The main loop takes what is queued, Polkit's call returns in 5 s, the thread
\* and the worker end; no client need ever call.
Fairness ==
  /\ WF_vars(\E c \in Calls : Handle(c))
  /\ WF_vars(\E c \in Calls : TimesOut(c))
  /\ WF_vars(WorkerDone)
  /\ \A c \in Calls : WF_vars(ListDone(c))

Spec == Init /\ [][Next]_vars /\ Fairness
-----------------------------------------------------------------------------
(* Properties. *)

\* No call is answered twice or logged twice, nor answered while it waits, and
\* while one is at Polkit nothing is taken out of turn; a call is left without
\* an answer only by the two handlers without an except clause and by the
\* thread that lists drivers (service.py:490-729, 1043, 1567, 2720-2797).
OneAnswer ==
  /\ \A c \in Calls :
       /\ told[c] = IF stage[c] = "done" THEN 1 ELSE 0
       /\ entries[c] <= 1
       /\ stage[c] = "dropped" =>
            M(c) \in {"GetPostRebootSummary", "RevertModification", "ListAvailableDrivers"}
  /\ ToSet(queue) = {c \in Calls : stage[c] = "queued"}
  /\ Cardinality({c \in Calls : stage[c] = "polkit"}) <= 1

\* However long users take over Polkit's dialog, however often it is dismissed,
\* a call that came in is dealt with (service.py:623-664, polkit.py:14-16).
DealtWith == \A c \in Calls : stage[c] = "queued" ~> stage[c] \in {"done", "dropped"}

\* Each documented method, with an argument its clients send, reaches its
\* handler (docs/dbus-api.md:17, 24, 35).
Reachable ==
  \A c \in Calls : A(c) \in {"good"} \cup Asked => answer[c] \notin {"UnknownMethod", "InvalidArgument"}
=============================================================================
