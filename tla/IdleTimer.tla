----------------------------- MODULE IdleTimer -----------------------------
(***************************************************************************)
(* The daemon's idle shutdown in discrete time: the GLib timeout source     *)
(* that _IdleTimer keeps, what starts it again (client calls, every         *)
(* successful poll, the end of an operation), what suspends it (the hold    *)
(* callback of a worker), and the loop's end when it expires.               *)
(*                                                                         *)
(* A tick is the 2 s poll interval; IdleTicks stands for 60 s.  GLib runs   *)
(* what is due before time goes on, unless a handler blocks the loop; of     *)
(* two due timeouts the one attached first runs first, and idle callbacks    *)
(* wait for both.                                                           *)
(***************************************************************************)
EXTENDS Naturals, Sequences

CONSTANTS
  IdleTicks,    \* IDLE_TIMEOUT_SECONDS, in polls
  Source,       \* ids of GLib sources
  NoSource,     \* "None" for _source_id
  Calls         \* whether clients call at all

ASSUME TimerConstants ==
  /\ IdleTicks \in Nat /\ IdleTicks > 1
  /\ NoSource \notin Source
  /\ Calls \in BOOLEAN

VARIABLES
  up,         \* the main loop runs
  blocked,    \* RevertModification's handler has the main thread
  polling,    \* _poll_source_id is set
  pollDue,    \* the poll's timeout has expired and its callback waits
  sources,    \* the idle sources GLib knows: ticks left, by id
  sourceId,   \* _source_id
  elder,      \* that source was attached before the poll's
  op,         \* the worker: "none", "new" (accepted), "runs" or "ended"
  posted,     \* its hold and release callbacks in the idle queue
  raised      \* history: a poll has raised since the last operation was accepted

timer == <<sources, sourceId, elder>>
vars  == <<up, blocked, polling, pollDue, timer, op, posted, raised>>

TypeOK ==
  /\ up \in BOOLEAN /\ blocked \in BOOLEAN /\ elder \in BOOLEAN /\ polling \in BOOLEAN /\ pollDue \in BOOLEAN
  /\ DOMAIN sources \subseteq Source
  /\ \A i \in DOMAIN sources : sources[i] \in 0 .. IdleTicks
  /\ sourceId \in Source \cup {NoSource}
  /\ op \in {"none", "new", "runs", "ended"}
  /\ posted \in Seq({"hold", "release"})
  /\ raised \in BOOLEAN

(* main: the timer is started before the loop                              *)
Init ==
  /\ up = TRUE /\ blocked = FALSE /\ polling = FALSE /\ pollDue = FALSE
  /\ elder = TRUE
  /\ \E i \in Source : sourceId = i /\ sources = [j \in {i} |-> IdleTicks]
  /\ op = "none" /\ posted = <<>> /\ raised = FALSE

-----------------------------------------------------------------------------
(* _IdleTimer.                                                             *)

Kept == DOMAIN sources \ {sourceId}

(* Mutant: start forgets to remove the source it replaces.                  *)
ArmTwice ==
  \E i \in Source \ DOMAIN sources :
    /\ sourceId' = i
    /\ sources' = [j \in DOMAIN sources \cup {i} |-> IF j = i THEN IdleTicks ELSE sources[j]]
    /\ elder' = ~polling

(* Mutant: a reset adds a full timeout to what is left of the old one.       *)
ArmAdds ==
  \E i \in Source \ DOMAIN sources :
    /\ sourceId' = i
    /\ sources' = [j \in {i} |-> IdleTicks + IF sourceId = NoSource THEN 0 ELSE sources[sourceId]]
    /\ elder' = ~polling

(* start, and its aliases reset and release: GLib hands out a fresh id      *)
Arm ==
  \E i \in Source \ DOMAIN sources :
    /\ sourceId' = i
    /\ sources' = [j \in Kept \cup {i} |-> IF j = i THEN IdleTicks ELSE sources[j]]
    /\ elder' = ~polling

(* hold                                                                     *)
Suspend ==
  /\ sources' = [j \in Kept |-> sources[j]]
  /\ sourceId' = NoSource
  /\ UNCHANGED elder

Overdue == \E i \in DOMAIN sources : sources[i] = 0
Free    == up /\ ~blocked

(* _on_timeout: the loop ends, and with it the process                      *)
Expire ==
  /\ Free /\ Overdue
  /\ pollDue => elder
  /\ up' = FALSE
  /\ sourceId' = NoSource
  /\ UNCHANGED <<blocked, polling, pollDue, sources, elder, op, posted, raised>>

-----------------------------------------------------------------------------
(* The service.                                                            *)

(* _on_bus_acquired: the object is registered and polling starts            *)
BusAcquired ==
  /\ Free /\ ~polling
  /\ polling' = TRUE
  /\ UNCHANGED <<up, blocked, pollDue, timer, op, posted, raised>>

(* a call that resets the timer and starts no operation                     *)
ClientCall ==
  /\ Calls /\ Free /\ polling
  /\ Arm
  /\ UNCHANGED <<up, blocked, polling, pollDue, op, posted, raised>>

(* RevertModification: resets the timer and runs systemctl, dpkg or          *)
(* update-initramfs on the main thread, for as long as that takes           *)
BeginRevert ==
  /\ Calls /\ Free /\ polling
  /\ Arm
  /\ blocked' = TRUE
  /\ UNCHANGED <<up, polling, pollDue, op, posted, raised>>

EndRevert ==
  /\ up /\ blocked
  /\ blocked' = FALSE
  /\ UNCHANGED <<up, polling, pollDue, timer, op, posted, raised>>

(* a call that is accepted as an operation                                  *)
Accept ==
  /\ Calls /\ Free /\ polling /\ op = "none"
  /\ op' = "new"
  /\ raised' = FALSE
  /\ Arm
  /\ UNCHANGED <<up, blocked, polling, pollDue, posted>>

PollTurn == Free /\ pollDue /\ ~(Overdue /\ elder)

(* Mutant: only client calls reset the timer.                               *)
PollWithoutReset ==
  /\ PollTurn
  /\ pollDue' = FALSE
  /\ UNCHANGED <<up, blocked, polling, timer, op, posted, raised>>

(* _poll_and_emit runs through                                              *)
PollOK ==
  /\ PollTurn
  /\ pollDue' = FALSE
  /\ Arm
  /\ UNCHANGED <<up, blocked, polling, op, posted, raised>>

(* an exception on the way: logged, and the timer is not reset              *)
PollRaises ==
  /\ PollTurn
  /\ pollDue' = FALSE
  /\ raised' = TRUE
  /\ UNCHANGED <<up, blocked, polling, timer, op, posted>>

(* the worker posts its hold and starts on the work                         *)
WorkerStarts ==
  /\ up /\ op = "new"
  /\ op' = "runs"
  /\ posted' = Append(posted, "hold")
  /\ UNCHANGED <<up, blocked, polling, pollDue, timer, raised>>

(* the work is done and the release is posted                               *)
WorkerEnds ==
  /\ up /\ op = "runs"
  /\ op' = "ended"
  /\ posted' = Append(posted, "release")
  /\ UNCHANGED <<up, blocked, polling, pollDue, timer, raised>>

IdleTurn(cb) == Free /\ ~pollDue /\ ~Overdue /\ posted # <<>> /\ Head(posted) = cb

RunHold ==
  /\ IdleTurn("hold")
  /\ posted' = Tail(posted)
  /\ Suspend
  /\ UNCHANGED <<up, blocked, polling, pollDue, op, raised>>

(* Mutant: the release clears the slot and leaves the timer held.           *)
RunReleaseKeepsHold ==
  /\ IdleTurn("release")
  /\ posted' = Tail(posted)
  /\ op' = "none"
  /\ UNCHANGED <<up, blocked, polling, pollDue, timer, raised>>

RunRelease ==
  /\ IdleTurn("release")
  /\ posted' = Tail(posted)
  /\ op' = "none"
  /\ Arm
  /\ UNCHANGED <<up, blocked, polling, pollDue, raised>>

(* Time goes on when nothing is due, or while a handler keeps the loop from *)
(* what is due; polls missed meanwhile are made up for by one.              *)
Tick ==
  /\ up
  /\ blocked \/ (~pollDue /\ ~Overdue /\ posted = <<>>)
  /\ sources' = [i \in DOMAIN sources |-> IF sources[i] > 0 THEN sources[i] - 1 ELSE 0]
  /\ pollDue' = polling
  /\ UNCHANGED <<up, blocked, polling, sourceId, elder, op, posted, raised>>

-----------------------------------------------------------------------------
Callbacks == RunHold \/ RunRelease
Worker    == WorkerStarts \/ WorkerEnds
Poll      == PollOK \/ PollRaises

Next ==
  \/ Expire \/ BusAcquired \/ ClientCall \/ BeginRevert \/ EndRevert
  \/ Accept \/ Poll \/ Worker \/ Callbacks \/ Tick

Spec == Init /\ [][Next]_vars

(* Time goes on, the worker and the handlers come to an end, and the main    *)
(* loop runs what is due.                                                    *)
FairSpec ==
  /\ Spec
  /\ WF_vars(Tick) /\ WF_vars(Expire) /\ WF_vars(Poll) /\ WF_vars(EndRevert)
  /\ WF_vars(Worker) /\ WF_vars(Callbacks)

-----------------------------------------------------------------------------
(* Properties.                                                              *)

(* GLib knows at most one idle source, the one the timer remembers: a hold   *)
(* leaves none behind, and no reset leaves an old countdown running.         *)
OneSource == up => DOMAIN sources = {sourceId} \ {NoSource}

(* While an operation runs the daemon stays up as long as polls run through, *)
(* even when a read has undone the hold, or a handler has blocked the loop   *)
(* for longer than the timeout.                                              *)
ExitOnlyAfterFailedPoll == ~up /\ op \in {"new", "runs"} => raised

(* From the moment no call comes and no poll runs through any more, a worker *)
(* that was still busy or a hold that was still due cannot keep the daemon   *)
(* from stopping.                                                            *)
QuietDaemonStops ==
  <>[][~(ClientCall \/ BeginRevert \/ Accept \/ PollOK)]_vars => <>(~up)

=============================================================================
