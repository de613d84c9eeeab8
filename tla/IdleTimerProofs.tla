--------------------------- MODULE IdleTimerProofs ---------------------------
(***************************************************************************)
(* The idle timer for every length of the countdown and any source ids.     *)
(***************************************************************************)
EXTENDS IdleTimer, SequenceTheorems, TLAPS

\* While an operation runs and every poll has run through: the countdown is
\* whole, or a poll is due that will make it so before the timer's turn.
Guarded ==
  up /\ op # "none" /\ ~raised =>
    /\ polling /\ ~elder
    /\ pollDue \/ \A i \in DOMAIN sources : sources[i] = IdleTicks

IInv == TypeOK /\ OneSource /\ Guarded /\ (~up /\ op # "none" => raised)
-----------------------------------------------------------------------------
USE TimerConstants

\* start, reset and release leave one source with a whole countdown.
LEMMA ArmOne ==
  ASSUME TypeOK, OneSource, up, Arm
  PROVE  \E i \in Source :
           /\ sourceId' = i /\ sources' = [j \in {i} |-> IdleTicks]
           /\ elder' = ~polling
<1>1. Kept = {}
  BY DEF OneSource, Kept
<1>2. PICK i \in Source \ DOMAIN sources :
        /\ sourceId' = i
        /\ sources' = [j \in Kept \cup {i} |-> IF j = i THEN IdleTicks ELSE sources[j]]
        /\ elder' = ~polling
  BY DEF Arm
<1>3. sources' = [j \in {i} |-> IdleTicks]
  BY <1>1, <1>2
<1> QED BY <1>2, <1>3

\* So every step that arms the timer keeps its part of the invariant.
LEMMA ArmKeeps ==
  ASSUME TypeOK, OneSource, up, Arm, polling \in BOOLEAN
  PROVE  /\ DOMAIN sources' \subseteq Source
         /\ \A i \in DOMAIN sources' : sources'[i] = IdleTicks /\ sources'[i] \in 0 .. IdleTicks
         /\ sourceId' \in Source \cup {NoSource} /\ elder' \in BOOLEAN
         /\ DOMAIN sources' = {sourceId'} \ {NoSource}
         /\ polling => ~elder'
<1>1. PICK i \in Source :
        /\ sourceId' = i /\ sources' = [j \in {i} |-> IdleTicks]
        /\ elder' = ~polling
  BY ArmOne
<1>2. DOMAIN sources' = {i} /\ i # NoSource
  BY <1>1
<1>3. elder' \in BOOLEAN /\ (polling => ~elder')
  BY <1>1
<1> QED BY <1>1, <1>2, <1>3

\* hold leaves no source.
LEMMA SuspendNone ==
  ASSUME OneSource, up, Suspend
  PROVE  DOMAIN sources' = {} /\ sourceId' = NoSource /\ elder' = elder
<1>1. Kept = {}
  BY DEF OneSource, Kept
<1> QED BY <1>1 DEF Suspend
-----------------------------------------------------------------------------
\* The clients' calls, polls that run through, and the release.
LEMMA ArmingSteps ==
  ASSUME IInv, ClientCall \/ BeginRevert \/ Accept \/ PollOK \/ RunRelease
  PROVE  IInv'
<1>1. /\ Arm /\ up /\ up' = up /\ polling' = polling /\ polling \in BOOLEAN
      /\ TypeOK /\ OneSource
  BY DEF IInv, TypeOK, ClientCall, BeginRevert, Accept, PollOK, RunRelease, PollTurn, IdleTurn, Free
<1>2. /\ DOMAIN sources' \subseteq Source
      /\ \A i \in DOMAIN sources' : sources'[i] = IdleTicks /\ sources'[i] \in 0 .. IdleTicks
      /\ sourceId' \in Source \cup {NoSource} /\ elder' \in BOOLEAN
      /\ DOMAIN sources' = {sourceId'} \ {NoSource}
      /\ polling => ~elder'
  BY <1>1, ArmKeeps
<1>3. /\ blocked' \in BOOLEAN /\ pollDue' \in BOOLEAN /\ raised' \in BOOLEAN
      /\ op' \in {"none", "new", "runs", "ended"}
  BY <1>1 DEF TypeOK, ClientCall, BeginRevert, Accept, PollOK, RunRelease
<1>4. posted' \in Seq({"hold", "release"})
  BY <1>1, HeadTailProperties DEF TypeOK, ClientCall, BeginRevert, Accept, PollOK, RunRelease, IdleTurn
<1>5. op' # "none" /\ ~raised' => polling
  BY <1>1 DEF IInv, Guarded, ClientCall, BeginRevert, Accept, PollOK, RunRelease
<1>6. TypeOK'
  BY <1>1, <1>2, <1>3, <1>4 DEF TypeOK
<1>7. OneSource'
  BY <1>2 DEF OneSource
<1>8. Guarded'
  BY <1>1, <1>2, <1>5 DEF Guarded
<1> QED BY <1>1, <1>6, <1>7, <1>8 DEF IInv

\* The timer's own callback: with no operation, or after a poll has raised.
LEMMA ExpireStep == IInv /\ Expire => IInv'
<1> SUFFICES ASSUME IInv, Expire PROVE IInv'
  OBVIOUS
<1>1. TypeOK'
  BY DEF IInv, TypeOK, Expire
<1>2. op # "none" => raised
  <2> SUFFICES ASSUME op # "none", ~raised PROVE FALSE
    BY DEF IInv, TypeOK
  <2>1. polling /\ ~elder /\ (pollDue \/ \A i \in DOMAIN sources : sources[i] = IdleTicks)
    BY DEF IInv, Guarded, Expire, Free
  <2>2. ~pollDue
    BY <2>1 DEF Expire
  <2>3. PICK i \in DOMAIN sources : sources[i] = 0
    BY DEF Expire, Overdue
  <2> QED BY <2>1, <2>2, <2>3
<1> QED BY <1>1, <1>2 DEF IInv, Expire, OneSource, Guarded

LEMMA TickStep == IInv /\ Tick => IInv'
<1> SUFFICES ASSUME IInv, Tick PROVE IInv'
  OBVIOUS
<1>1. DOMAIN sources' = DOMAIN sources /\ \A i \in DOMAIN sources : sources'[i] \in 0 .. IdleTicks
  BY DEF IInv, TypeOK, Tick
<1>2. TypeOK'
  BY <1>1 DEF IInv, TypeOK, Tick
<1>3. OneSource'
  BY <1>1 DEF IInv, OneSource, Tick
<1>4. Guarded'
  BY DEF IInv, Guarded, Tick
<1> QED BY <1>2, <1>3, <1>4 DEF IInv, Tick

\* The rest leave the countdown, or remove it.
LEMMA OtherSteps ==
  ASSUME IInv, BusAcquired \/ EndRevert \/ PollRaises \/ WorkerStarts \/ WorkerEnds
  PROVE  IInv'
<1>1. posted' \in Seq({"hold", "release"})
  BY AppendProperties DEF IInv, TypeOK, BusAcquired, EndRevert, PollRaises, WorkerStarts, WorkerEnds
<1>2. TypeOK'
  BY <1>1 DEF IInv, TypeOK, BusAcquired, EndRevert, PollRaises, WorkerStarts, WorkerEnds, timer
<1>3. OneSource'
  BY DEF IInv, OneSource, BusAcquired, EndRevert, PollRaises, WorkerStarts, WorkerEnds, timer
<1>4. Guarded'
  BY DEF IInv, Guarded, BusAcquired, EndRevert, PollRaises, WorkerStarts, WorkerEnds, timer
<1> QED BY <1>2, <1>3, <1>4
        DEF IInv, BusAcquired, EndRevert, PollRaises, WorkerStarts, WorkerEnds, PollTurn, Free

LEMMA HoldStep == IInv /\ RunHold => IInv'
<1> SUFFICES ASSUME IInv, RunHold PROVE IInv'
  OBVIOUS
<1>1. DOMAIN sources' = {} /\ sourceId' = NoSource /\ elder' = elder
  BY SuspendNone DEF IInv, RunHold, IdleTurn, Free
<1>2. posted' \in Seq({"hold", "release"})
  BY HeadTailProperties DEF IInv, TypeOK, RunHold, IdleTurn
<1>3. TypeOK'
  BY <1>1, <1>2 DEF IInv, TypeOK, RunHold
<1>4. OneSource'
  BY <1>1 DEF OneSource
<1>5. Guarded'
  BY <1>1 DEF IInv, Guarded, RunHold
<1> QED BY <1>3, <1>4, <1>5 DEF IInv, RunHold

LEMMA StepInv == IInv /\ [Next]_vars => IInv'
<1> SUFFICES ASSUME IInv, [Next]_vars PROVE IInv'
  OBVIOUS
<1>1. CASE UNCHANGED vars
  BY <1>1 DEF vars, timer, IInv, TypeOK, OneSource, Guarded
<1> QED BY <1>1, ArmingSteps, ExpireStep, TickStep, OtherSteps, HoldStep
        DEF Next, Poll, Worker, Callbacks

LEMMA InitInv == Init => IInv
<1> SUFFICES ASSUME Init PROVE IInv
  OBVIOUS
<1>1. PICK i \in Source : sourceId = i /\ sources = [j \in {i} |-> IdleTicks]
  BY DEF Init
<1>2. posted \in Seq({"hold", "release"})
  BY DEF Init
<1>3. TypeOK
  <2>1. DOMAIN sources = {i} /\ sources[i] = IdleTicks /\ i # NoSource
    BY <1>1
  <2>2. \A j \in DOMAIN sources : sources[j] \in 0 .. IdleTicks
    BY <2>1
  <2> QED BY <1>1, <1>2, <2>1, <2>2 DEF Init, TypeOK
<1>4. OneSource
  BY <1>1 DEF OneSource
<1> QED BY <1>3, <1>4 DEF Init, IInv, Guarded
-----------------------------------------------------------------------------
LEMMA Always == Spec => []IInv
BY InitInv, StepInv, PTL DEF Spec

\* Each source's countdown stays within the timeout (_IdleTimer).
THEOREM TypeCorrect == Spec => []TypeOK
BY Always, PTL DEF IInv

\* _IdleTimer never leaves a second countdown behind, whatever the order of
\* resets, holds and releases.
THEOREM OneSourceCorrect == Spec => []OneSource
BY Always, PTL DEF IInv

\* With an operation under way the daemon quits only if a poll has raised since
\* it was accepted: a poll that runs through comes before the timer, however
\* long a handler has blocked the loop.
THEOREM ExitOnlyAfterFailedPollCorrect == Spec => []ExitOnlyAfterFailedPoll
<1>1. IInv => ExitOnlyAfterFailedPoll
  BY DEF IInv, ExitOnlyAfterFailedPoll
<1> QED BY <1>1, Always, PTL
=============================================================================
