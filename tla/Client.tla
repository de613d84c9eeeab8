------------------------------- MODULE Client -------------------------------
(***************************************************************************)
(* The GUI as a client of the daemon: its connection to the bus, its mirror *)
(* of the degraded state, and the dialogs in which the drivers and power    *)
(* views run operations.  The daemon is what OperationSlot promises.        *)
(*                                                                         *)
(* The GUI has one main loop.  What the bus brings is handled in the order  *)
(* it came; callbacks given to GLib.idle_add run only when nothing from the *)
(* bus is waiting.  A call waits for its answer 5 s, or 180 s for apt's     *)
(* methods; the daemon may serve one whose caller has stopped waiting.      *)
(*                                                                         *)
(* Left out: the properties of the GPU other than the degraded state, the   *)
(* lists of drivers and snapshots, progress, wording and widgets.           *)
(***************************************************************************)
EXTENDS OperationSlot, Naturals, Sequences, FiniteSets

CONSTANTS
  View,        \* the views with operation dialogs
  Offers,      \* per view: what its dialogs do, of "install", "rollback" and "fix"
  Mode,        \* degraded states of the GPU
  MaxWork,     \* bound: dialogs opened and operations accepted
  MaxEvents    \* bound: stops of the daemon, calls that time out, retries
               \* clicked and changes of the degraded state

ASSUME ClientConstants ==
  /\ NoOp \notin Op /\ IsFiniteSet(Op)
  /\ Offers \in [View -> SUBSET {"install", "rollback", "fix"}]
  /\ Mode # {} /\ Mode \cap {"unknown", "unreachable", "error"} = {}
  /\ MaxWork \in Nat /\ MaxEvents \in Nat

VARIABLES
  mode,       \* the degraded state the daemon knows
  calls,      \* calls on their way to the daemon
  inbox,      \* what the bus has for the GUI: answers, signals, owner changes
  idleq,      \* callbacks given to GLib.idle_add
  proxy,      \* "none" or "ready"
  creating,   \* how many proxies are being created
  retry,      \* _retry_source_id: a failed connection is tried again in 5 s
  connected,  \* VerdeDBusClient.connected
  shown,      \* GPUState.degraded-state
  stage,      \* per view: its active dialog
  dialog,     \* per view: the number of that dialog
  left,       \* per view: the fixes it has yet to start
  current,    \* per view: _current_op_id
  work, events,
  asker,      \* history: the dialog that asked for an operation, 0 for another client
  want,       \* history: per view, how many operations its dialog was opened for
  shut,       \* history: dialogs closed while their operation was awaited
  crossed,    \* history: active dialogs that took another dialog's completion for theirs
  missed,     \* history: active dialogs whose completion came before its id was stored
  unfetched   \* history: the last fetch of the degraded state failed

bus     == <<calls, inbox>>
link    == <<proxy, creating, retry, connected>>
views   == <<stage, dialog, left, current>>
bounds  == <<work, events>>
notes   == <<asker, want, shut, crossed, missed>>
vars    == <<slotVars, mode, bus, idleq, link, shown, views, bounds, notes, unfetched>>

Send(c)  == calls' = Append(calls, c)
Tell(m)  == inbox' = Append(inbox, m)
Later(c) == idleq' = Append(idleq, c)
Work     == work < MaxWork /\ work' = work + 1
Event    == events < MaxEvents /\ events' = events + 1

Fetch       == [c |-> "fetch", late |-> FALSE]
Ask(v)      == [c |-> "ask", v |-> v, d |-> dialog[v], late |-> FALSE]
Owner(up)   == [m |-> "owner", up |-> up]
Started(v, o) == [m |-> "started", v |-> v, o |-> o]
State(m, s) == [m |-> m, s |-> s]
Proxy(r)    == [m |-> "proxy", r |-> r]
Complete(o, ok) == [m |-> "complete", o |-> o, ok |-> ok]

Update(s)   == [c |-> "update", s |-> s]
Reset       == [c |-> "reset"]
Store(v, o) == [c |-> "store", v |-> v, o |-> o]

\* What becomes of the answer to a call: GDBus drops one that nobody waits for.
Late        == [m |-> "late"]
Reply(c, m) == IF c.late THEN Late ELSE m

\* The error that answers a call.
Failure(c) == IF c.c = "fetch" THEN State("fetched", "error") ELSE Started(c.v, NoOp)

\* Dialogs with an OperationProgressPanel.
Running == {"progress", "success", "error"}

Init ==
  /\ SlotInit
  /\ mode = CHOOSE s \in Mode : TRUE
  /\ calls = <<>> /\ inbox = <<>> /\ idleq = <<>>
  /\ proxy = "none" /\ creating = 1 /\ retry = FALSE /\ connected = FALSE
  /\ shown = "unknown"
  /\ stage = [v \in View |-> "none"] /\ dialog = [v \in View |-> 0]
  /\ left = [v \in View |-> 0] /\ current = [v \in View |-> NoOp]
  /\ work = 0 /\ events = 0
  /\ asker = [o \in Op |-> 0] /\ want = [v \in View |-> 0]
  /\ shut = {} /\ crossed = {} /\ missed = {} /\ unfetched = FALSE
-----------------------------------------------------------------------------
(* The daemon and the bus. *)

\* Mode' when the daemon starts: it looks at the GPU afresh.
Begins == SlotStart /\ mode' \in Mode

\* A call starts the daemon when nobody has the name.
Activate ==
  /\ calls # <<>> /\ Begins
  /\ Tell(Owner(TRUE))
  /\ UNCHANGED <<calls, idleq, link, shown, views, bounds, notes, unfetched>>

\* The proxy's constructor starts the daemon too, and finds out who owns the
\* name.  There may be no bus, or a daemon that does not come up, again and again.
Connect ==
  /\ creating > 0 /\ creating' = creating - 1
  /\ \/ /\ alive /\ Tell(Proxy("up"))
        /\ UNCHANGED <<slotVars, mode, events>>
     \/ /\ Begins /\ inbox' = inbox \o <<Owner(TRUE), Proxy("up")>>
        /\ UNCHANGED events
     \/ /\ ~alive /\ \E r \in {"down", "failed"} : Tell(Proxy(r))
        /\ UNCHANGED <<slotVars, mode, events>>
  /\ UNCHANGED <<calls, idleq, proxy, retry, connected, shown, views, work, notes,
                 unfetched>>

\* The id of the next operation: ids are random, no two are the same.
Fresh == CHOOSE o \in Op \cup {NoOp} :
           IF \E p \in Op : answer[p] = "none" THEN o \in Op /\ answer[o] = "none" ELSE o = NoOp

\* The daemon answers calls in order.  It accepts an operation into a free
\* slot, or refuses it: the slot is taken, or some other check fails.
Serve ==
  /\ alive /\ calls # <<>>
  /\ LET c == Head(calls)
     IN  \/ /\ c.c = "fetch" /\ Tell(Reply(c, State("fetched", mode)))
            /\ UNCHANGED <<slotVars, work, asker>>
         \/ /\ c.c = "ask" /\ Fresh # NoOp /\ Work
            /\ SlotAccept(Fresh) /\ Tell(Reply(c, Started(c.v, Fresh)))
            /\ asker' = [asker EXCEPT ![Fresh] = c.d]
         \/ /\ c.c = "ask" /\ Tell(Reply(c, Failure(c)))
            /\ UNCHANGED <<slotVars, work, asker>>
  /\ calls' = Tail(calls)
  /\ UNCHANGED <<mode, idleq, link, shown, views, events, want, shut, crossed, missed, unfetched>>

\* Another client's operation.
AcceptOther ==
  /\ Fresh # NoOp /\ Work /\ SlotAccept(Fresh)
  /\ UNCHANGED <<mode, bus, idleq, link, shown, views, events, notes, unfetched>>

\* OperationComplete goes to every client.
Answer(r) ==
  /\ SlotAnswer(r)
  /\ Tell(Complete(owner, r = "ok"))
  /\ UNCHANGED <<mode, calls, idleq, link, shown, views, bounds, notes, unfetched>>

Free ==
  /\ SlotFree
  /\ UNCHANGED <<mode, bus, idleq, link, shown, views, bounds, notes, unfetched>>

\* A poll finds the GPU in another state: DegradedStateChanged.
Change(s) ==
  /\ alive /\ s # mode /\ Event
  /\ mode' = s
  /\ Tell(State("changed", s))
  /\ UNCHANGED <<slotVars, calls, idleq, link, shown, views, work, notes, unfetched>>

\* The bus tells that the name has no owner and fails the calls that wait.
Stop ==
  /\ SlotStop /\ Event
  /\ inbox' = Append(inbox, Owner(FALSE)) \o [i \in DOMAIN calls |-> Reply(calls[i], Failure(calls[i]))]
  /\ calls' = <<>>
  /\ UNCHANGED <<mode, idleq, link, shown, views, work, notes, unfetched>>

\* The caller stops waiting; the call stays on its way.
TimeOut(i) ==
  /\ i \in DOMAIN calls /\ ~calls[i].late /\ Event
  /\ calls' = [calls EXCEPT ![i].late = TRUE]
  /\ Tell(Failure(calls[i]))
  /\ UNCHANGED <<slotVars, mode, idleq, link, shown, views, work, notes, unfetched>>
-----------------------------------------------------------------------------
(* The GUI's main loop: what came from the bus. *)

Take(m) == inbox # <<>> /\ Head(inbox).m = m /\ inbox' = Tail(inbox)

\* Mutant: reset at once, and not after the updates that already wait.
ResetNow ==
  /\ UNCHANGED idleq /\ shown' = "unreachable"

\* reset is deferred, the state is set at once.
ResetLater ==
  /\ Later(Reset) /\ shown' = "unreachable"

\* _on_proxy_ready.  A failure keeps the proxy there is, and schedules one retry.
OnProxyReady ==
  /\ Take("proxy")
  /\ LET r == Head(inbox).r
     IN  \/ /\ r = "up" /\ proxy' = "ready" /\ connected' = TRUE
            /\ Send(Fetch) /\ unfetched' = FALSE /\ UNCHANGED <<retry, shown>>
         \/ /\ r = "down" /\ proxy' = "ready" /\ connected' = FALSE
            /\ shown' = "unreachable" /\ UNCHANGED <<calls, retry, unfetched>>
         \/ /\ r = "failed" /\ retry' = TRUE
            /\ connected' = (connected /\ retry)
            /\ UNCHANGED <<proxy, calls, shown, unfetched>>
  /\ UNCHANGED <<slotVars, mode, idleq, creating, views, bounds, notes>>

\* _on_name_owner_changed, once the handler is connected
OnOwner ==
  /\ Take("owner")
  /\ IF proxy # "ready"
     THEN UNCHANGED <<calls, idleq, connected, shown, unfetched>>
     ELSE /\ connected' = Head(inbox).up
          /\ \/ /\ Head(inbox).up /\ Send(Fetch) /\ unfetched' = FALSE
                /\ UNCHANGED <<idleq, shown>>
             \/ ~Head(inbox).up /\ ResetLater /\ UNCHANGED <<calls, unfetched>>
  /\ UNCHANGED <<slotVars, mode, proxy, creating, retry, views, bounds, notes>>

\* DegradedStateChanged, or the answer to GetDegradedState
OnState ==
  /\ \/ Take("changed") /\ proxy = "ready" /\ Later(Update(Head(inbox).s))
        /\ unfetched' = FALSE /\ UNCHANGED shown
     \/ Take("changed") /\ proxy # "ready" /\ UNCHANGED <<idleq, shown, unfetched>>
     \/ Take("fetched") /\ Head(inbox).s # "error"
        /\ Later(Update(Head(inbox).s)) /\ UNCHANGED <<shown, unfetched>>
     \/ Take("fetched") /\ Head(inbox).s = "error"
        /\ shown' = "unreachable" /\ unfetched' = TRUE /\ UNCHANGED idleq
  /\ UNCHANGED <<slotVars, mode, calls, link, views, bounds, notes>>

\* The answer to InstallDriver, RollbackDriver, FixSuspend or FixHibernate
OnStarted ==
  /\ Take("started")
  /\ Later(Store(Head(inbox).v, Head(inbox).o))
  /\ UNCHANGED <<slotVars, mode, calls, link, shown, views, bounds, notes, unfetched>>

\* Mutant: a view takes every OperationComplete for its own.
MineAlways(o) == {v \in View : stage[v] \in Running}

\* The views whose _current_op_id is that of the signal.
Mine(o) == {v \in View : current[v] = o}

\* The power view goes on to the next fix type.
Continues(v) == left[v] > 0

Active == {dialog[v] : v \in View} \ {0}

OnComplete ==
  /\ Take("complete")
  /\ LET o    == Head(inbox).o
         hit  == {v \in Mine(o) : stage[v] \in Running}
         next == {v \in hit : Head(inbox).ok /\ Continues(v)}
     IN  /\ current' = [v \in View |-> IF v \in Mine(o) THEN NoOp ELSE current[v]]
         /\ stage' = [v \in View |->
              IF v \notin hit THEN stage[v]
              ELSE IF v \in next THEN "progress"
              ELSE IF Head(inbox).ok THEN "success" ELSE "error"]
         /\ left' = [v \in View |-> IF v \in next THEN left[v] - 1 ELSE left[v]]
         /\ \/ next = {} /\ UNCHANGED calls
            \/ \E v \in next : Send(Ask(v))
         /\ crossed' = crossed \cup {dialog[v] : v \in {w \in hit : asker[o] # dialog[w]}}
         /\ missed' = IF Mine(o) = {} THEN missed \cup {d \in Active : asker[o] = d} ELSE missed
  /\ UNCHANGED <<slotVars, mode, idleq, link, shown, dialog, bounds, asker, want, shut, unfetched>>

Drop ==
  /\ Take("late")
  /\ UNCHANGED <<slotVars, mode, calls, idleq, link, shown, views, bounds, notes, unfetched>>

(* Idle callbacks. *)

Run(c) == inbox = <<>> /\ idleq # <<>> /\ Head(idleq).c = c /\ idleq' = Tail(idleq)

\* _do_update
DoUpdate ==
  /\ Run("update")
  /\ shown' = Head(idleq).s
  /\ UNCHANGED <<slotVars, mode, bus, link, views, bounds, notes, unfetched>>

\* _do_reset
DoReset ==
  /\ Run("reset")
  /\ shown' = "unknown"
  /\ UNCHANGED <<slotVars, mode, bus, link, views, bounds, notes, unfetched>>

\* Mutant: a refused operation leaves the dialog as it is.
RefusedSilently(v) == UNCHANGED stage

\* _on_install_start_error, _on_rollback_start_error, _on_fix_start_error
Refused(v) ==
  stage' = IF stage[v] \in Running THEN [stage EXCEPT ![v] = "error"] ELSE stage

\* _on_install_started, _on_rollback_started, _on_fix_started
DoStore ==
  /\ Run("store")
  /\ LET c == Head(idleq)
     IN  \/ c.o # NoOp /\ current' = [current EXCEPT ![c.v] = c.o] /\ UNCHANGED stage
         \/ c.o = NoOp /\ Refused(c.v) /\ UNCHANGED current
  /\ UNCHANGED <<slotVars, mode, bus, link, shown, dialog, left, bounds, notes, unfetched>>

\* _retry_connect after five seconds
Retry ==
  /\ retry /\ retry' = FALSE
  /\ creating' = creating + 1
  /\ UNCHANGED <<slotVars, mode, bus, idleq, proxy, connected, shown, views, bounds, notes, unfetched>>
-----------------------------------------------------------------------------
(* The user. *)

\* The views' retry buttons, visible while the daemon is unreachable.
RetryClicked ==
  /\ ~connected /\ Event
  /\ creating' = creating + 1
  /\ UNCHANGED <<slotVars, mode, bus, idleq, proxy, retry, connected, shown, views, work,
                 notes, unfetched>>

\* A dialog opens with its preflight, for k operations.
OpenDialog(v, k) ==
  /\ stage[v] = "none" /\ connected /\ Work
  /\ stage' = [stage EXCEPT ![v] = "preflight"]
  /\ dialog' = [dialog EXCEPT ![v] = work + 1]
  /\ left' = [left EXCEPT ![v] = k]
  /\ want' = [want EXCEPT ![v] = k]
  /\ UNCHANGED <<slotVars, mode, bus, idleq, link, shown, current, events, asker,
                 shut, crossed, missed, unfetched>>

OpenInstall(v)  == "install" \in Offers[v] /\ OpenDialog(v, 1)
OpenRollback(v) == "rollback" \in Offers[v] /\ OpenDialog(v, 1)

\* Suspend, hibernate, or the two after each other.
OpenFix(v) == "fix" \in Offers[v] /\ \E k \in 1..2 : OpenDialog(v, k)

\* The checks pass, which makes the button sensitive, and the user confirms: the
\* dialog shows progress and cannot be cancelled.  Until then, and for ever when
\* the checks fail, it can only be closed.
Confirm(v) ==
  /\ stage[v] = "preflight"
  /\ stage' = [stage EXCEPT ![v] = "progress"]
  /\ left' = [left EXCEPT ![v] = @ - 1]
  /\ Send(Ask(v))
  /\ UNCHANGED <<slotVars, mode, inbox, idleq, link, shown, dialog, current, bounds, notes,
                 unfetched>>

\* close-request: the user cancels or, while an operation runs, closes the window.
Close(v) ==
  /\ stage[v] # "none"
  /\ stage' = [stage EXCEPT ![v] = "none"]
  /\ dialog' = [dialog EXCEPT ![v] = 0] /\ left' = [left EXCEPT ![v] = 0]
  /\ want' = [want EXCEPT ![v] = 0]
  /\ shut' = IF stage[v] = "progress" THEN shut \cup {dialog[v]} ELSE shut
  /\ crossed' = crossed \ {dialog[v]} /\ missed' = missed \ {dialog[v]}
  /\ UNCHANGED <<slotVars, mode, bus, idleq, link, shown, current, bounds, asker, unfetched>>

Daemon == Activate \/ Connect \/ Serve \/ (\E r \in {"ok", "failed"} : Answer(r)) \/ Free
Handle == OnProxyReady \/ OnOwner \/ OnState \/ OnStarted \/ OnComplete \/ Drop
Idle   == DoUpdate \/ DoReset \/ DoStore

Next ==
  \/ Daemon \/ Handle \/ Idle \/ Retry
  \/ AcceptOther
  \/ \E s \in Mode : Change(s)
  \/ Stop \/ \E i \in 1..Len(calls) : TimeOut(i)
  \/ RetryClicked
  \/ \E v \in View : OpenInstall(v) \/ OpenRollback(v) \/ OpenFix(v) \/ Confirm(v) \/ Close(v)

Spec == Init /\ [][Next]_vars

\* The bus delivers, the daemon's loop, its workers and the GUI's loop run,
\* and the retry timer fires.  The user and faults are free.
Fairness ==
  /\ WF_vars(Activate) /\ WF_vars(Connect) /\ WF_vars(Serve) /\ WF_vars(Free)
  /\ WF_vars(\E r \in {"ok", "failed"} : Answer(r))
  /\ WF_vars(Handle) /\ WF_vars(Idle) /\ WF_vars(Retry)

FairSpec == Spec /\ Fairness
-----------------------------------------------------------------------------
(* Properties. *)

Quiet == inbox = <<>> /\ idleq = <<>> /\ calls = <<>> /\ creating = 0

\* Once everything sent has been handled, the GUI knows whether the daemon is
\* there and shows its degraded state, unless the last fetch of it failed;
\* without a daemon it never shows a state the GPU may no longer have
\* (dbus_client.py:86-119, gpu_state.py:133-138 and 213-223: updates and the
\* reset are deferred, "unreachable" and the connection are not).
MirrorTrue ==
  Quiet /\ proxy = "ready" =>
    /\ connected = alive
    /\ alive /\ ~unfetched => shown = mode
    /\ ~alive => shown \notin Mode

\* A dialog that shows success has had every operation it was opened for
\* done, and takes the completion of another for its own only after a dialog
\* was closed while its operation ran (drivers.py:905-911, power.py:785-815).
OwnOutcome ==
  /\ crossed # {} => shut # {}
  /\ \A v \in View :
       stage[v] = "success" /\ dialog[v] \notin crossed =>
         Cardinality({o \in Op : asker[o] = dialog[v] /\ answer[o] = "ok"}) = want[v]

\* A dialog that waits for an operation comes to an end, unless the daemon was
\* stopped under the operation or its completion came before the id was stored
\* (drivers.py:866-869, power.py:753-756).
DialogEnds ==
  \A v \in View :
    stage[v] = "progress" ~>
      \/ stage[v] # "progress"
      \/ dialog[v] \in missed
      \/ \E o \in Op : asker[o] = dialog[v] /\ answer[o] = "lost"
=============================================================================
