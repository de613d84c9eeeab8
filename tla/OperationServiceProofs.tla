----------------------- MODULE OperationServiceProofs -----------------------
(***************************************************************************)
(* Proofs about OperationService, for any set of operations, any set of    *)
(* steps that may fail and any number of stops: the slot, the signals on   *)
(* the bus and the audit log, the refinement of OperationSlot, and what is  *)
(* left behind by a worker that ends or is killed.                         *)
(***************************************************************************)
EXTENDS OperationRefinement, SequenceTheorems, TLAPS

(* The steps of the main loop and of the process that every proof below    *)
(* goes through, one by one.                                               *)
USE DEF At, Goto

LEMMA PopType ==
  ASSUME TypeOK, NEW cbs, Pop(cbs)
  PROVE  /\ Head(queue) \in Message
         /\ queue' \in Seq(Message)
  BY HeadTailProperties DEF TypeOK, Pop

LEMMA TypeInit == Init => TypeOK
<1> SUFFICES ASSUME Init PROVE TypeOK
  OBVIOUS
<1>1. wire \in [Op -> Seq(Signal)] /\ queue \in Seq(Message)
  BY DEF Init
<1> QED
  BY <1>1 DEF Init, TypeOK

LEMMA TypeStep == TypeOK /\ [Next]_vars => TypeOK'
<1> SUFFICES ASSUME TypeOK, [Next]_vars
             PROVE  TypeOK'
  OBVIOUS
<1>1. ASSUME NEW o \in Op, NEW k \in Called, Accept(o, k)
      PROVE  TypeOK'
  BY <1>1, ConstantsOK DEF Accept, TypeOK, WorkerStep, history
<1>2. CASE Touch
  BY <1>2 DEF Touch, TypeOK, workers, machine, history
<1>3. CASE BeginRevert
  BY <1>3 DEF BeginRevert, TypeOK, workers, machine, history
<1>4. CASE EndRevert
  BY <1>4 DEF EndRevert, TypeOK, workers, machine, history
<1>5. CASE RunHold
  BY <1>5, PopType DEF RunHold, TypeOK, workers, machine, history
<1>6. CASE RunEmit
  <2>1. Head(queue) \in Message /\ Head(queue).cb \in Signal \cup {"startup"}
    BY <1>6, PopType DEF RunEmit, Pop
  <2>2. wire' \in [Op -> Seq(Signal)]
    BY <1>6, <2>1, ConstantsOK DEF RunEmit, TypeOK, Message, StartupNotice
  <2> QED
    BY <1>6, <2>2, PopType DEF RunEmit, TypeOK, process, workers, history
<1>7. CASE RunRelease
  BY <1>7, PopType DEF RunRelease, TypeOK, workers, machine, history
<1>8. ASSUME NEW o \in Op, Hold(o)
      PROVE  TypeOK'
  BY <1>8 DEF Hold, Post, TypeOK, process, machine, history, WorkerStep, Message
<1>9. ASSUME NEW o \in Op, Start(o)
      PROVE  TypeOK'
  BY <1>9 DEF Start, TypeOK, process, history, WorkerStep
<1>10. ASSUME NEW o \in Op, Inhibit(o)
       PROVE  TypeOK'
  BY <1>10 DEF Inhibit, TypeOK, process, machine, history, WorkerStep
<1>11. ASSUME NEW o \in Op, Mark(o)
       PROVE  TypeOK'
  <2>1. marker' \in BOOLEAN
    BY <1>11 DEF Mark, TypeOK
  <2>2. /\ pc[o] = "mark" /\ pc' = [pc EXCEPT ![o] = IF kind[o] = "install" THEN "snapshot" ELSE "run"]
        /\ UNCHANGED <<process, queue, kind, result, inhibited, snapped, brokenBy, wire, audit, history>>
    BY <1>11 DEF Mark, At, Goto
  <2> QED
    BY <2>1, <2>2 DEF TypeOK, process, history, WorkerStep
<1>12. ASSUME NEW o \in Op, Snapshot(o)
       PROVE  TypeOK'
  BY <1>12 DEF Snapshot, TypeOK, process, machine, history, WorkerStep
<1>13. ASSUME NEW o \in Op, Progress(o)
       PROVE  TypeOK'
  BY <1>13 DEF Progress, Post, TypeOK, process, workers, machine, history,
               Message, Signal
<1>14. ASSUME NEW o \in Op, Transact(o)
       PROVE  TypeOK'
  BY <1>14 DEF Transact, TypeOK, process, workers, history
<1>15. ASSUME NEW o \in Op, RunSucceeds(o)
       PROVE  TypeOK'
  BY <1>15 DEF RunSucceeds, TypeOK, process, history, WorkerStep, Outcome
<1>16. ASSUME NEW o \in Op, RunFails(o)
       PROVE  TypeOK'
  BY <1>16 DEF RunFails, TypeOK, process, machine, history, WorkerStep, Outcome
<1>17. ASSUME NEW o \in Op, Unmark(o)
       PROVE  TypeOK'
  <2>1. marker' \in BOOLEAN /\ startupError' \in BOOLEAN
    BY <1>17 DEF Unmark, RemoveMarker, TypeOK
  <2>2. /\ pc[o] = "unmark" /\ pc' = [pc EXCEPT ![o] = "report"]
        /\ UNCHANGED <<up, loop, idle, inProgress, currentOp, queue, kind, result, inhibited, snapped,
                       brokenBy, wire, audit, history>>
    BY <1>17 DEF Unmark, At, Goto
  <2> QED
    BY <2>1, <2>2 DEF TypeOK, history, WorkerStep
<1>18. ASSUME NEW o \in Op, Report(o) \/ Reboot(o)
       PROVE  TypeOK'
  <2>1. CASE Report(o)
    BY <2>1 DEF Report, Announce, AfterReport, Post, TypeOK, process, machine, history,
                WorkerStep, Message, Signal
  <2>2. CASE Reboot(o)
    <3>1. [cb |-> "reboot", op |-> o] \in Message /\ queue \in Seq(Message)
      BY DEF Message, Signal, TypeOK
    <3>2. queue' \in Seq(Message)
      BY <2>2, <3>1, AppendProperties DEF Reboot, Post
    <3> QED
      BY <2>2, <3>2 DEF Reboot, TypeOK, process, machine, history, WorkerStep
  <2> QED
    BY <1>18, <2>1, <2>2
<1>19. ASSUME NEW o \in Op, Audit(o)
       PROVE  TypeOK'
  BY <1>19 DEF Audit, AfterAudit, TypeOK, process, history, WorkerStep
<1>20. ASSUME NEW o \in Op, Cleanup(o)
       PROVE  TypeOK'
  <2>1. marker' \in BOOLEAN
    BY <1>20 DEF Cleanup, RemoveMarker, TypeOK
  <2>2. /\ pc[o] = "cleanup" /\ pc' = [pc EXCEPT ![o] = "uninhibit"]
        /\ UNCHANGED <<process, queue, kind, result, inhibited, snapped, brokenBy, wire, audit, history>>
    BY <1>20 DEF Cleanup, At, Goto
  <2> QED
    BY <2>1, <2>2 DEF TypeOK, process, history, WorkerStep
<1>21. ASSUME NEW o \in Op, Uninhibit(o)
       PROVE  TypeOK'
  BY <1>21 DEF Uninhibit, TypeOK, process, machine, history, WorkerStep
<1>22. ASSUME NEW o \in Op, PostRelease(o)
       PROVE  TypeOK'
  BY <1>22 DEF PostRelease, Post, TypeOK, process, machine, history, WorkerStep,
               Message
<1>23. CASE Stop
  <2>1. lost' \in Op \cup {NoOp} /\ queue' \in Seq(Message) /\ stops' \in Nat
    BY <1>23 DEF Stop, TypeOK
  <2>2. /\ pc' \in [Op -> WorkerStep \cup {"new", "unstarted", "done", "killed"}]
        /\ \A o \in Op : pc'[o] # "new" => kind'[o] \in Kind
    BY <1>23 DEF Stop, TypeOK, Alive, WorkerStep
  <2> QED
    BY <1>23, <2>1, <2>2 DEF Stop, TypeOK, machine
<1>24. CASE Restart
  <2>1. queue' = queue \/ queue' = Append(queue, StartupNotice)
    BY <1>24 DEF Restart
  <2>2. StartupNotice \in Message
    BY DEF Message
  <2>3. queue \in Seq(Message) /\ Append(queue, StartupNotice) \in Seq(Message)
    BY <2>2, AppendProperties DEF TypeOK
  <2>4. queue' \in Seq(Message)
    BY <2>1, <2>3
  <2> QED
    BY <1>24, <2>4 DEF Restart, RemoveMarker, TypeOK, workers, history
<1>25. CASE UNCHANGED vars
  BY <1>25 DEF vars, process, workers, machine, history, TypeOK
<1> QED
  BY <1>1, <1>2, <1>3, <1>4, <1>5, <1>6, <1>7, <1>8, <1>9, <1>10, <1>11, <1>12,
     <1>13, <1>14, <1>15, <1>16, <1>17, <1>18, <1>19, <1>20, <1>21, <1>22, <1>23,
     <1>24, <1>25
     DEF Next, Worker, Callbacks, IdleTimeout, Killed

(* Every variable keeps to its range.                                      *)
THEOREM TypeCorrect == Spec => []TypeOK
  BY TypeInit, TypeStep, PTL DEF Spec

-----------------------------------------------------------------------------
(* The slot.  OneWorker and NoStaleCallback are not inductive: they do not  *)
(* say that a release is queued only by a worker that is done, nor that a   *)
(* worker past its report has announced its outcome.                        *)

Reported == {"reboot", "audit", "cleanup", "uninhibit", "release", "done"}

Owner ==
  /\ inProgress <=> currentOp # NoOp
  /\ \A o \in Op : Alive(o) \/ At(o, "unstarted") => currentOp = o
  /\ ~up => queue = <<>> /\ ~inProgress /\ idle = "off"
  /\ idle = "held" => inProgress

OwnersQueue ==
  \A i \in DOMAIN queue :
    /\ queue[i].op # NoOp => queue[i].op = currentOp
    /\ queue[i].cb = "release" => i = Len(queue) /\ At(currentOp, "done")

Announced ==
  \A o \in Op : currentOp = o /\ pc[o] \in Reported
                 => Completed(o) \/ Queued(o, "ok") \/ Queued(o, "failed")

SlotInv == TypeOK /\ Owner /\ OwnersQueue /\ Announced

(* A step of the owner's worker that leaves the slot alone and posts nothing *)
(* or callbacks of its own other than the release keeps the invariant.       *)
LEMMA OwnerStep ==
  ASSUME SlotInv, TypeOK',
         NEW o \in Op, Alive(o), NEW l \in WorkerStep, Goto(o, l),
         UNCHANGED <<up, idle, inProgress, currentOp, wire>>,
         Len(queue') >= Len(queue),
         \A i \in 1 .. Len(queue) : queue'[i] = queue[i],
         \A i \in (Len(queue) + 1) .. Len(queue') :
             queue'[i].op = o /\ queue'[i].cb # "release",
         l \in Reported => pc[o] \in Reported \/ Queued(o, "ok")' \/ Queued(o, "failed")'
  PROVE  SlotInv'
<1>1. /\ queue \in Seq(Message) /\ DOMAIN queue = 1 .. Len(queue) /\ Len(queue) \in Nat
      /\ queue' \in Seq(Message) /\ DOMAIN queue' = 1 .. Len(queue')
      /\ Len(queue') \in Nat
  BY LenProperties DEF SlotInv, TypeOK
<1>2. currentOp = o /\ inProgress /\ up
  BY ConstantsOK DEF SlotInv, Owner
<1>3. pc' = [pc EXCEPT ![o] = l] /\ pc \in [Op -> WorkerStep \cup {"new", "unstarted", "done", "killed"}]
  BY DEF SlotInv, TypeOK
<1>4. Owner'
  BY <1>2, <1>3 DEF SlotInv, Owner, Alive
<1>5. \A i \in DOMAIN queue : queue[i].cb # "release"
  BY <1>2 DEF SlotInv, OwnersQueue, Alive, WorkerStep
<1>6. OwnersQueue'
  BY <1>1, <1>2, <1>5 DEF SlotInv, OwnersQueue
<1>7. Announced'
  <2>1. \A s : Queued(o, s) => Queued(o, s)'
    BY <1>1 DEF Queued
  <2>2. Completed(o) => Completed(o)'
    BY DEF Completed, InWire
  <2>3. pc'[o] \in Reported => Completed(o)' \/ Queued(o, "ok")' \/ Queued(o, "failed")'
    BY <1>2, <1>3, <2>1, <2>2 DEF SlotInv, Announced
  <2> QED
    BY <1>2, <2>3 DEF Announced
<1> QED
  BY <1>4, <1>6, <1>7 DEF SlotInv

(* A callback taken off the queue leaves the rest, shifted by one.          *)
LEMMA PopQueue ==
  ASSUME TypeOK, NEW cbs, Pop(cbs)
  PROVE  /\ up /\ Len(queue) \in Nat \ {0} /\ DOMAIN queue = 1 .. Len(queue)
         /\ DOMAIN queue' = 1 .. (Len(queue) - 1) /\ Len(queue') = Len(queue) - 1
         /\ \A i \in 1 .. (Len(queue) - 1) : queue'[i] = queue[i + 1]
         /\ Head(queue) = queue[1] /\ Head(queue) \in Message /\ queue[1].cb \in cbs
<1>1. queue \in Seq(Message) /\ queue # <<>> /\ queue' = Tail(queue)
  BY DEF TypeOK, Pop
<1>2. /\ Head(queue) \in Message /\ Tail(queue) \in Seq(Message)
      /\ Len(Tail(queue)) = Len(queue) - 1
      /\ \A i \in 1 .. Len(Tail(queue)) : Tail(queue)[i] = queue[i + 1]
  BY <1>1, HeadTailProperties
<1>3. Len(queue) \in Nat \ {0} /\ DOMAIN queue = 1 .. Len(queue)
  BY <1>1, EmptySeq, LenProperties
<1>4. DOMAIN Tail(queue) = 1 .. Len(Tail(queue))
  BY <1>2, LenProperties
<1> QED
  BY <1>1, <1>2, <1>3, <1>4 DEF Pop

LEMMA SlotInit == Init => SlotInv
  BY ConstantsOK, TypeInit
     DEF Init, SlotInv, Owner, OwnersQueue, Announced, Alive, WorkerStep

LEMMA AcceptStep ==
  ASSUME SlotInv, TypeOK', NEW o \in Op, NEW k \in Called, Accept(o, k)
  PROVE  SlotInv'
<1>1. currentOp = NoOp /\ currentOp' = o /\ inProgress' /\ up' /\ idle' = "armed"
      /\ queue' = queue /\ o # NoOp
  BY ConstantsOK DEF SlotInv, Owner, Accept
<1>2. \A p \in Op : ~Alive(p) /\ pc[p] # "unstarted"
  BY <1>1, ConstantsOK DEF SlotInv, Owner
<1>3. \E l \in {"hold", "unstarted"} : pc' = [pc EXCEPT ![o] = l]
  BY DEF Accept
<1>4. Owner'
  BY <1>1, <1>2, <1>3 DEF Owner, Alive, SlotInv, TypeOK
<1>5. \A i \in DOMAIN queue : queue[i].op = NoOp /\ queue[i].cb # "release"
  <2>1. \A i \in DOMAIN queue : queue[i] \in Message
    BY LenProperties, ElementOfSeq DEF SlotInv, TypeOK
  <2>2. \A m \in Message : m.op = NoOp => m.cb # "release"
    BY ConstantsOK DEF Message, StartupNotice
  <2> QED
    BY <1>1, <2>1, <2>2 DEF SlotInv, OwnersQueue
<1>6. OwnersQueue'
  BY <1>1, <1>5 DEF OwnersQueue
<1>7. Announced'
  BY <1>1, <1>3 DEF Announced, Reported, SlotInv, TypeOK
<1> QED
  BY <1>4, <1>6, <1>7 DEF SlotInv

LEMMA HoldCallbackStep == SlotInv /\ TypeOK' /\ RunHold => SlotInv'
<1> SUFFICES ASSUME SlotInv, TypeOK', RunHold PROVE SlotInv'
  OBVIOUS
<1>1. Pop({"hold"}) /\ idle' = "held"
      /\ UNCHANGED <<up, inProgress, currentOp, pc, wire>>
  BY DEF RunHold, workers, machine
<1>2. /\ up /\ Len(queue) \in Nat \ {0} /\ DOMAIN queue = 1 .. Len(queue)
      /\ DOMAIN queue' = 1 .. (Len(queue) - 1) /\ Len(queue') = Len(queue) - 1
      /\ \A i \in 1 .. (Len(queue) - 1) : queue'[i] = queue[i + 1]
      /\ queue[1] \in Message /\ queue[1].cb = "hold"
  BY <1>1, PopQueue DEF SlotInv
<1>3. queue[1].op # NoOp
  BY <1>2, ConstantsOK DEF Message, StartupNotice
<1>4. inProgress
  BY <1>2, <1>3 DEF SlotInv, Owner, OwnersQueue
<1>5. Owner'
  BY <1>1, <1>2, <1>4 DEF SlotInv, Owner, Alive
<1>6. OwnersQueue'
  BY <1>1, <1>2 DEF SlotInv, OwnersQueue
<1>7. Announced'
  <2>1. \A o \in Op : \A s \in {"ok", "failed"} : Queued(o, s) => Queued(o, s)'
    <3> SUFFICES ASSUME NEW o \in Op, NEW s \in {"ok", "failed"}, Queued(o, s)
                 PROVE  Queued(o, s)'
      OBVIOUS
    <3>1. PICK i \in 1 .. Len(queue) : queue[i] = [cb |-> s, op |-> o]
      BY <1>2 DEF Queued
    <3>2. i # 1
      BY <1>2, <3>1
    <3>3. i - 1 \in 1 .. (Len(queue) - 1) /\ queue'[i - 1] = queue[i]
      BY <1>2, <3>2
    <3> QED
      BY <1>2, <3>1, <3>3 DEF Queued
  <2> QED
    BY <1>1, <2>1 DEF SlotInv, Announced, Completed, InWire
<1> QED
  BY <1>5, <1>6, <1>7 DEF SlotInv

LEMMA EmitStep == SlotInv /\ TypeOK' /\ RunEmit => SlotInv'
<1> SUFFICES ASSUME SlotInv, TypeOK', RunEmit PROVE SlotInv'
  OBVIOUS
<1> DEFINE c == queue[1]
<1>1. /\ Pop(Signal \cup {"startup"})
      /\ UNCHANGED <<up, idle, inProgress, currentOp, pc>>
      /\ wire' = IF Head(queue).op = NoOp THEN wire
                 ELSE [wire EXCEPT ![Head(queue).op] = Append(@, Head(queue).cb)]
  BY DEF RunEmit, process, workers
<1>2. /\ up /\ Len(queue) \in Nat \ {0} /\ DOMAIN queue = 1 .. Len(queue)
      /\ DOMAIN queue' = 1 .. (Len(queue) - 1) /\ Len(queue') = Len(queue) - 1
      /\ \A i \in 1 .. (Len(queue) - 1) : queue'[i] = queue[i + 1]
      /\ Head(queue) = c /\ c \in Message /\ c.cb \in Signal \cup {"startup"}
  BY <1>1, PopQueue DEF SlotInv
<1>3. Owner'
  BY <1>1, <1>2 DEF SlotInv, Owner, Alive
<1>4. OwnersQueue'
  BY <1>1, <1>2 DEF SlotInv, OwnersQueue
<1>5. wire \in [Op -> Seq(Signal)]
  BY DEF SlotInv, TypeOK
<1>6. \A o \in Op, s \in {"ok", "failed"} : InWire(o, s) => InWire(o, s)'
  <2> SUFFICES ASSUME NEW o \in Op, NEW s \in {"ok", "failed"}, InWire(o, s)
               PROVE  InWire(o, s)'
    OBVIOUS
  <2>1. CASE wire'[o] = wire[o]
    BY <2>1 DEF InWire
  <2>2. CASE c.op = o /\ wire'[o] = Append(wire[o], c.cb) /\ c.cb \in Signal
    <3>1. wire[o] \in Seq(Signal) /\ DOMAIN wire[o] = 1 .. Len(wire[o])
          /\ Len(wire[o]) \in Nat
      BY <1>5, LenProperties
    <3>2. PICK i \in 1 .. Len(wire[o]) : wire[o][i] = s
      BY <3>1 DEF InWire
    <3>3. i \in DOMAIN wire'[o] /\ wire'[o][i] = s
      BY <2>2, <3>1, <3>2
    <3> QED
      BY <3>3 DEF InWire
  <2>3. c.op = NoOp \/ (c.op \in Op /\ c.cb \in Signal)
    BY <1>2 DEF Message, StartupNotice, Signal
  <2> QED
    BY <1>1, <1>2, <1>5, <2>1, <2>2, <2>3
<1>7. \A o \in Op, s \in {"ok", "failed"} : Queued(o, s) => Queued(o, s)' \/ InWire(o, s)'
  <2> SUFFICES ASSUME NEW o \in Op, NEW s \in {"ok", "failed"}, Queued(o, s)
               PROVE  Queued(o, s)' \/ InWire(o, s)'
    OBVIOUS
  <2>1. PICK i \in 1 .. Len(queue) : queue[i] = [cb |-> s, op |-> o]
    BY <1>2 DEF Queued
  <2>2. CASE i = 1
    <3>1. c.op = o /\ c.cb = s /\ o # NoOp
      BY <2>1, <2>2, ConstantsOK
    <3>2. wire'[o] = Append(wire[o], s) /\ wire[o] \in Seq(Signal) /\ s \in Signal
      BY <1>1, <1>2, <1>5, <3>1 DEF Signal
    <3>3. (Len(wire[o]) + 1) \in DOMAIN wire'[o] /\ wire'[o][Len(wire[o]) + 1] = s
      BY <3>2, AppendProperties, LenProperties
    <3> QED
      BY <3>3 DEF InWire
  <2>3. CASE i # 1
    <3>1. i - 1 \in 1 .. (Len(queue) - 1) /\ queue'[i - 1] = queue[i]
      BY <1>2, <2>3
    <3> QED
      BY <1>2, <2>1, <3>1 DEF Queued
  <2> QED
    BY <2>2, <2>3
<1>8. Announced'
  BY <1>1, <1>6, <1>7 DEF SlotInv, Announced, Completed
<1> QED
  BY <1>3, <1>4, <1>8 DEF SlotInv

(* A release at the head of the queue is the whole queue, and the worker it *)
(* releases has announced its outcome on the bus.                           *)
LEMMA ReleaseIsLast ==
  ASSUME SlotInv, RunRelease
  PROVE  /\ Len(queue) = 1 /\ queue' = <<>> /\ currentOp \in Op
         /\ At(currentOp, "done") /\ Completed(currentOp)
<1>1. Pop({"release"})
  BY DEF RunRelease
<1>2. /\ Len(queue) \in Nat \ {0} /\ DOMAIN queue = 1 .. Len(queue)
      /\ queue[1] \in Message /\ queue[1].cb = "release"
      /\ Len(queue') = Len(queue) - 1
  BY <1>1, PopQueue DEF SlotInv
<1>3. queue[1].op \in Op /\ queue[1].op # NoOp
  BY <1>2, ConstantsOK DEF Message, StartupNotice
<1>4. Len(queue) = 1 /\ At(currentOp, "done") /\ currentOp \in Op
  BY <1>2, <1>3 DEF SlotInv, OwnersQueue
<1>5. queue' = <<>>
  <2>1. queue' \in Seq(Message)
    BY <1>1, PopType DEF SlotInv
  <2> QED
    BY <1>2, <1>4, <2>1, EmptySeq
<1>6. ~Queued(currentOp, "ok") /\ ~Queued(currentOp, "failed")
  BY <1>2, <1>4 DEF Queued
<1> QED
  BY <1>4, <1>5, <1>6 DEF SlotInv, Announced, Reported

LEMMA ReleaseStep == SlotInv /\ TypeOK' /\ RunRelease => SlotInv'
<1> SUFFICES ASSUME SlotInv, TypeOK', RunRelease PROVE SlotInv'
  OBVIOUS
<1>1. queue' = <<>> /\ currentOp \in Op /\ At(currentOp, "done")
  BY ReleaseIsLast
<1>2. up /\ UNCHANGED <<up, pc>> /\ ~inProgress' /\ currentOp' = NoOp /\ idle' = "armed"
  BY DEF RunRelease, Pop, workers
<1>3. Owner'
  BY <1>1, <1>2 DEF SlotInv, Owner, Alive, WorkerStep
<1>4. OwnersQueue' /\ Announced'
  BY <1>1, <1>2, ConstantsOK DEF OwnersQueue, Announced
<1> QED
  BY <1>3, <1>4 DEF SlotInv

(* The worker's last step: the release is the newest callback.             *)
LEMMA PostReleaseStep ==
  ASSUME SlotInv, TypeOK', NEW o \in Op, PostRelease(o)
  PROVE  SlotInv'
<1>1. /\ queue' = Append(queue, [cb |-> "release", op |-> o])
      /\ pc' = [pc EXCEPT ![o] = "done"] /\ pc[o] = "release"
      /\ UNCHANGED <<up, idle, inProgress, currentOp, wire>>
      /\ pc \in [Op -> WorkerStep \cup {"new", "unstarted", "done", "killed"}]
  BY DEF PostRelease, Post, process, machine, SlotInv, TypeOK
<1>2. currentOp = o /\ inProgress /\ up
  BY <1>1, ConstantsOK DEF SlotInv, Owner, Alive, WorkerStep
<1>3. queue \in Seq(Message) /\ Len(queue) \in Nat /\ DOMAIN queue = 1 .. Len(queue)
  BY LenProperties DEF SlotInv, TypeOK
<1>4. /\ DOMAIN queue' = 1 .. (Len(queue) + 1) /\ Len(queue') = Len(queue) + 1
      /\ \A i \in 1 .. Len(queue) : queue'[i] = queue[i]
      /\ queue'[Len(queue) + 1] = [cb |-> "release", op |-> o]
  BY <1>1, <1>3
<1>5. Owner'
  BY <1>1, <1>2 DEF SlotInv, Owner, Alive
<1>6. \A i \in DOMAIN queue : queue[i].cb # "release"
  BY <1>1, <1>2 DEF SlotInv, OwnersQueue
<1>7. OwnersQueue'
  BY <1>1, <1>2, <1>3, <1>4, <1>6 DEF SlotInv, OwnersQueue, TypeOK
<1>8. \A s : Queued(o, s) => Queued(o, s)'
  BY <1>3, <1>4 DEF Queued
<1>9. Announced'
  BY <1>1, <1>2, <1>8 DEF SlotInv, Announced, Completed, InWire, Reported
<1> QED
  BY <1>5, <1>7, <1>9 DEF SlotInv

LEMMA StopStep == SlotInv /\ TypeOK' /\ Stop => SlotInv'
<1> SUFFICES ASSUME SlotInv, TypeOK', Stop PROVE SlotInv'
  OBVIOUS
<1>1. /\ ~up' /\ idle' = "off" /\ ~inProgress' /\ currentOp' = NoOp /\ queue' = <<>>
      /\ \A o \in Op : pc'[o] = IF Alive(o) \/ pc[o] = "unstarted" THEN "killed" ELSE pc[o]
  BY DEF Stop
<1>2. \A o \in Op : ~(Alive(o) \/ At(o, "unstarted"))'
  BY <1>1 DEF Alive, WorkerStep
<1>3. Owner'
  BY <1>1, <1>2 DEF Owner
<1>4. OwnersQueue' /\ Announced'
  BY <1>1, ConstantsOK DEF OwnersQueue, Announced
<1> QED
  BY <1>3, <1>4 DEF SlotInv

LEMMA RestartStep == SlotInv /\ TypeOK' /\ Restart => SlotInv'
<1> SUFFICES ASSUME SlotInv, TypeOK', Restart PROVE SlotInv'
  OBVIOUS
<1>1. ~up /\ queue = <<>> /\ ~inProgress /\ currentOp = NoOp
  BY DEF Restart, SlotInv, Owner
<1>2. up' /\ idle' = "armed" /\ UNCHANGED <<inProgress, currentOp, pc, wire>>
  BY DEF Restart, workers
<1>3. Owner'
  BY <1>1, <1>2 DEF SlotInv, Owner, Alive
<1>4. \A i \in DOMAIN queue' : queue'[i] = StartupNotice
  <2>1. queue' = <<>> \/ queue' = <<StartupNotice>>
    BY <1>1 DEF Restart
  <2> QED
    BY <2>1
<1>5. OwnersQueue' /\ Announced'
  BY <1>1, <1>2, <1>4, ConstantsOK DEF OwnersQueue, Announced, StartupNotice
<1> QED
  BY <1>3, <1>5 DEF SlotInv

(* The steps that touch neither the slot, the queue, the bus nor a worker,  *)
(* and at most arm the idle timer.                                          *)
LEMMA QuietStep ==
  ASSUME SlotInv, TypeOK', up,
         UNCHANGED <<up, inProgress, currentOp, queue, pc, wire>>,
         idle' = idle \/ idle' = "armed"
  PROVE  SlotInv'
<1>1. Owner'
  BY DEF SlotInv, Owner, Alive
<1>2. OwnersQueue' /\ Announced'
  BY DEF SlotInv, OwnersQueue, Announced, Completed, InWire, Queued
<1> QED
  BY <1>1, <1>2 DEF SlotInv

LEMMA WorkerInv ==
  ASSUME SlotInv, TypeOK', NEW o \in Op, Worker(o) \/ Progress(o)
  PROVE  SlotInv'
<1> USE DEF process, workers, machine, history
<1>1. queue \in Seq(Message) /\ Len(queue) \in Nat
  BY LenProperties DEF SlotInv, TypeOK
<1>2. ASSUME NEW cb \in Signal \cup {"hold"}, Post(o, cb), Alive(o),
             NEW l \in WorkerStep, Goto(o, l),
             l \in Reported => pc[o] \in Reported \/ cb \in {"ok", "failed"},
             UNCHANGED <<up, idle, inProgress, currentOp, wire>>
      PROVE  SlotInv'
  <2>1. /\ Len(queue') = Len(queue) + 1
        /\ \A i \in 1 .. Len(queue) : queue'[i] = queue[i]
        /\ queue'[Len(queue) + 1] = [cb |-> cb, op |-> o]
    BY <1>1, <1>2 DEF Post
  <2>2. /\ Len(queue') >= Len(queue)
        /\ \A i \in (Len(queue) + 1) .. Len(queue') :
              queue'[i].op = o /\ queue'[i].cb # "release"
    BY <1>1, <2>1 DEF Signal
  <2>3. cb \in {"ok", "failed"} => Queued(o, "ok")' \/ Queued(o, "failed")'
    <3>1. DOMAIN queue' = 1 .. Len(queue') /\ Len(queue) + 1 \in 1 .. Len(queue')
      BY <1>1, <2>1, LenProperties DEF TypeOK
    <3> QED
      BY <2>1, <3>1 DEF Queued
  <2> QED
    BY <1>2, <2>1, <2>2, <2>3, OwnerStep
<1>3. CASE Hold(o) \/ Progress(o) \/ Report(o)
  <2>1. CASE Hold(o)
    BY <1>2, <2>1 DEF Hold, Alive, WorkerStep, Reported
  <2>2. CASE Progress(o)
    <3>1. Goto(o, "run")
      BY <2>2 DEF Progress, SlotInv, TypeOK
    <3> QED
      BY <1>2, <2>2, <3>1 DEF Progress, Alive, WorkerStep, Signal, Reported
  <2>3. CASE Report(o)
    <3>1. PICK cb \in {"ok", "failed"} : Post(o, cb)
      BY <2>3 DEF Report, Announce
    <3>2. AfterReport(o) \in WorkerStep
      BY DEF AfterReport, WorkerStep
    <3> QED
      BY <1>2, <2>3, <3>1, <3>2 DEF Report, Alive, WorkerStep, Signal
  <2> QED
    BY <1>3, <2>1, <2>2, <2>3
<1>4. CASE PostRelease(o)
  BY <1>4, PostReleaseStep
<1>5. ASSUME NEW l \in WorkerStep, Alive(o), Goto(o, l),
             l \in Reported => pc[o] \in Reported,
             UNCHANGED <<up, idle, inProgress, currentOp, wire, queue>>
      PROVE  SlotInv'
  <2>1. /\ Len(queue') >= Len(queue)
        /\ \A i \in 1 .. Len(queue) : queue'[i] = queue[i]
        /\ \A i \in (Len(queue) + 1) .. Len(queue') :
              queue'[i].op = o /\ queue'[i].cb # "release"
    BY <1>1, <1>5
  <2> QED
    BY <1>5, <2>1, OwnerStep
<1>6. CASE Start(o) \/ Inhibit(o) \/ Mark(o) \/ Snapshot(o)
  BY <1>5, <1>6 DEF Start, Inhibit, Mark, Snapshot, Alive, WorkerStep, Reported
<1>7. CASE RunSucceeds(o) \/ RunFails(o) \/ Unmark(o)
  BY <1>5, <1>7 DEF RunSucceeds, RunFails, Unmark, Alive, WorkerStep, Reported
<1>8. CASE Reboot(o) \/ Audit(o) \/ Cleanup(o) \/ Uninhibit(o)
  <2>1. CASE Reboot(o) /\ Post(o, "reboot")
    BY <1>2, <2>1 DEF Reboot, Alive, WorkerStep, Reported, Signal
  <2>2. CASE Reboot(o) /\ UNCHANGED queue
    BY <1>5, <2>2 DEF Reboot, Alive, WorkerStep, Reported
  <2> QED
    BY <1>5, <1>8, <2>1, <2>2 DEF Reboot, Audit, AfterAudit, Cleanup, Uninhibit, Alive, WorkerStep, Reported
<1>9. CASE Transact(o)
  <2>1. up
    BY <1>9, ConstantsOK DEF Transact, SlotInv, Owner, Alive, WorkerStep
  <2> QED
    BY <1>9, <2>1, QuietStep DEF Transact
<1> QED
  BY <1>2, <1>3, <1>4, <1>6, <1>7, <1>8, <1>9 DEF Worker

LEMMA SlotStep == SlotInv /\ [Next]_vars => SlotInv'
<1> SUFFICES ASSUME SlotInv, [Next]_vars PROVE SlotInv'
  OBVIOUS
<1>1. TypeOK'
  BY TypeStep DEF SlotInv
<1>2. CASE \E o \in Op, k \in Called : Accept(o, k)
  BY <1>1, <1>2, AcceptStep
<1>3. CASE Touch \/ BeginRevert \/ EndRevert
  BY <1>1, <1>3, QuietStep DEF Touch, BeginRevert, EndRevert, workers, machine
<1>4. CASE Callbacks
  BY <1>1, <1>4, HoldCallbackStep, EmitStep, ReleaseStep DEF Callbacks
<1>5. CASE \E o \in Op : Worker(o) \/ Progress(o)
  BY <1>1, <1>5, WorkerInv
<1>6. CASE IdleTimeout \/ Killed
  BY <1>1, <1>6, StopStep DEF IdleTimeout, Killed
<1>7. CASE Restart
  BY <1>1, <1>7, RestartStep
<1>8. CASE UNCHANGED vars
  <2>1. UNCHANGED <<up, idle, inProgress, currentOp, queue, pc, wire>>
    BY <1>8 DEF vars, process, workers, machine
  <2>2. Owner' /\ OwnersQueue' /\ Announced'
    BY <2>1 DEF SlotInv, Owner, OwnersQueue, Announced, Alive, Completed, InWire, Queued
  <2> QED
    BY <1>1, <2>2 DEF SlotInv
<1> QED
  BY <1>2, <1>3, <1>4, <1>5, <1>6, <1>7, <1>8 DEF Next

LEMMA SlotCorrect == Spec => []SlotInv
  BY SlotInit, SlotStep, PTL DEF Spec

(* At most one worker lives, and it owns the slot.                         *)
THEOREM OneWorkerCorrect == Spec => []OneWorker
<1>1. SlotInv => OneWorker
  BY ConstantsOK DEF SlotInv, Owner, OneWorker
<1> QED
  BY <1>1, SlotCorrect, PTL

(* Every queued callback belongs to the owner of the slot, and the release  *)
(* of the slot comes last.                                                  *)
THEOREM NoStaleCallbackCorrect == Spec => []NoStaleCallback
<1>1. SlotInv => NoStaleCallback
  <2> SUFFICES ASSUME SlotInv, NEW i \in DOMAIN queue
               PROVE  /\ queue[i].op # NoOp => inProgress /\ queue[i].op = currentOp
                      /\ queue[i].cb = "release" => i = Len(queue) /\ ~Alive(currentOp)
    BY DEF NoStaleCallback
  <2> QED
    BY DEF SlotInv, Owner, OwnersQueue, Alive, WorkerStep
<1> QED
  BY <1>1, SlotCorrect, PTL

(* The idle timer is held only while the slot is taken.                    *)
THEOREM HeldOnlyWhileBusyCorrect == Spec => []HeldOnlyWhileBusy
<1>1. SlotInv => HeldOnlyWhileBusy
  BY DEF SlotInv, Owner, HeldOnlyWhileBusy
<1> QED
  BY <1>1, SlotCorrect, PTL

(* The bus has carried OperationComplete before the slot is free again.    *)
THEOREM FreedOnlyAfterCompleteCorrect == Spec => FreedOnlyAfterComplete
<1>1. SlotInv /\ [Next]_vars => [inProgress /\ ~inProgress' /\ up' => Completed(currentOp)]_vars
  <2> SUFFICES ASSUME SlotInv, Next, inProgress, ~inProgress', up'
               PROVE  Completed(currentOp)
    OBVIOUS
  <2>1. CASE RunRelease
    BY <2>1, ReleaseIsLast
  <2>2. ~IdleTimeout /\ ~Killed
    BY DEF IdleTimeout, Killed, Stop
  <2>3. \A o \in Op : ~Worker(o) /\ ~Progress(o)
    BY DEF Worker, Hold, Start, Inhibit, Mark, Snapshot, Transact, RunSucceeds, RunFails,
           Unmark, Report, Reboot, Audit, Cleanup, Uninhibit, PostRelease, Progress, process
  <2>4. ~RunHold /\ ~RunEmit /\ ~Touch /\ ~BeginRevert /\ ~EndRevert /\ ~Restart
    BY DEF RunHold, RunEmit, Touch, BeginRevert, EndRevert, Restart, process
  <2>5. \A o \in Op, k \in Called : ~Accept(o, k)
    BY DEF Accept
  <2> QED
    BY <2>1, <2>2, <2>3, <2>4, <2>5 DEF Next, Callbacks
<1> QED
  BY <1>1, SlotCorrect, PTL DEF Spec, FreedOnlyAfterComplete

-----------------------------------------------------------------------------
(* The answers.  What the bus has carried of an operation and what the     *)
(* queue still holds of it are one stream, cut in two by the main loop; the *)
(* invariant is about the whole of it, for the worker has long moved on     *)
(* when the loop comes to its signals.                                      *)

Signalled(o, s) == InWire(o, s) \/ Queued(o, s)

(* What may come after a signal *)
Follows(s, t) == s = "progress" \/ (s = "ok" /\ t = "reboot")

Undecided  == {"new", "unstarted", "hold", "start", "inhibit", "mark", "snapshot", "run"}
Unreported == Undecided \cup {"unmark", "report"}
Decided    == {"unmark", "report"} \cup Reported

(* Where the worker stands tells whether the work has an outcome and whether *)
(* it was announced; the announcement and the audit log repeat the outcome.  *)
Account(o) ==
  /\ pc[o] \in Undecided => result[o] = "none"
  /\ pc[o] \in Decided => result[o] # "none"
  /\ pc[o] \in Unreported => \A s \in {"ok", "failed", "reboot"} : ~Signalled(o, s)
  /\ At(o, "reboot") => result[o] = "ok" /\ kind[o] # "repair"
  /\ At(o, "reboot") \/ (At(o, "audit") /\ kind[o] \notin Marking) => ~Signalled(o, "reboot")
  /\ Signalled(o, "ok") => result[o] = "ok"
  /\ Signalled(o, "failed") => result[o] \in {"failed", "raised"}
  /\ "success" \in audit[o] => result[o] = "ok"
  /\ "failed" \in audit[o] => result[o] \in {"failed", "raised"}

Accounts == \A o \in Op : Account(o)

Ordered ==
  /\ StreamWellFormed
  /\ \A i, j \in DOMAIN queue :
       i < j /\ queue[i].op = queue[j].op /\ queue[i].cb \in Signal /\ queue[j].cb \in Signal
         => Follows(queue[i].cb, queue[j].cb)
  /\ \A o \in Op : \A i \in DOMAIN wire[o], j \in DOMAIN queue :
       queue[j].op = o /\ queue[j].cb \in Signal => Follows(wire[o][i], queue[j].cb)

AnswerInv == SlotInv /\ Accounts /\ Ordered

LEMMA PostQueue ==
  ASSUME TypeOK, NEW o \in Op, NEW cb, Post(o, cb)
  PROVE  /\ Len(queue) \in Nat /\ DOMAIN queue = 1 .. Len(queue)
         /\ DOMAIN queue' = 1 .. (Len(queue) + 1)
         /\ \A i \in 1 .. Len(queue) : queue'[i] = queue[i]
         /\ queue'[Len(queue) + 1] = [cb |-> cb, op |-> o]
<1>1. queue \in Seq(Message) /\ Len(queue) \in Nat /\ DOMAIN queue = 1 .. Len(queue)
  BY LenProperties DEF TypeOK
<1> QED
  BY <1>1 DEF Post

(* A callback posted adds itself to the signals of its operation, ...       *)
LEMMA PostSignals ==
  ASSUME TypeOK, NEW o \in Op, NEW cb, Post(o, cb), UNCHANGED wire,
         NEW p \in Op, NEW s, Signalled(p, s)'
  PROVE  Signalled(p, s) \/ (p = o /\ s = cb)
<1>0. /\ DOMAIN queue = 1 .. Len(queue) /\ DOMAIN queue' = 1 .. (Len(queue) + 1)
      /\ \A i \in 1 .. Len(queue) : queue'[i] = queue[i]
      /\ queue'[Len(queue) + 1] = [cb |-> cb, op |-> o] /\ Len(queue) \in Nat
  BY PostQueue
<1>1. InWire(p, s)' => InWire(p, s)
  BY DEF InWire
<1>2. ASSUME Queued(p, s)' PROVE Queued(p, s) \/ (p = o /\ s = cb)
  <2>1. PICK i \in DOMAIN queue' : queue'[i] = [cb |-> s, op |-> p]
    BY <1>2 DEF Queued
  <2>2. CASE i \in 1 .. Len(queue)
    BY <1>0, <2>1, <2>2 DEF Queued
  <2>3. CASE i = Len(queue) + 1
    BY <1>0, <2>1, <2>3
  <2> QED
    BY <1>0, <2>2, <2>3
<1> QED
  BY <1>1, <1>2 DEF Signalled

(* ... and a callback taken off the queue adds nothing: what it emits was   *)
(* queued before.                                                           *)
LEMMA PopSignals ==
  ASSUME TypeOK, Callbacks, NEW p \in Op, NEW s, Signalled(p, s)'
  PROVE  Signalled(p, s)
<1>1. PICK cbs : Pop(cbs)
  BY DEF Callbacks, RunHold, RunEmit, RunRelease
<1>2. /\ Len(queue) \in Nat \ {0} /\ DOMAIN queue = 1 .. Len(queue)
      /\ DOMAIN queue' = 1 .. (Len(queue) - 1)
      /\ \A i \in 1 .. (Len(queue) - 1) : queue'[i] = queue[i + 1]
      /\ Head(queue) = queue[1] /\ Head(queue) \in Message
  BY <1>1, PopQueue
<1>3. Queued(p, s)' => Queued(p, s)
  <2> SUFFICES ASSUME Queued(p, s)' PROVE Queued(p, s)
    OBVIOUS
  <2>1. PICK i \in 1 .. (Len(queue) - 1) : queue'[i] = [cb |-> s, op |-> p]
    BY <1>2 DEF Queued
  <2>2. i + 1 \in 1 .. Len(queue) /\ queue[i + 1] = [cb |-> s, op |-> p]
    BY <1>2, <2>1
  <2> QED
    BY <1>2, <2>2 DEF Queued
<1>4. InWire(p, s)' => InWire(p, s) \/ Queued(p, s)
  <2>1. CASE wire'[p] = wire[p]
    BY <2>1 DEF InWire
  <2>2. CASE queue[1].op = p /\ wire'[p] = Append(wire[p], queue[1].cb)
    <3>1. wire[p] \in Seq(Signal) /\ DOMAIN wire[p] = 1 .. Len(wire[p]) /\ Len(wire[p]) \in Nat
      BY LenProperties DEF TypeOK
    <3>2. 1 \in DOMAIN queue /\ queue[1] = [cb |-> queue[1].cb, op |-> p]
      BY <1>2, <2>2 DEF Message, StartupNotice
    <3> QED
      BY <2>2, <3>1, <3>2 DEF InWire, Queued
  <2>3. wire' = wire \/ wire' = [wire EXCEPT ![queue[1].op] = Append(@, queue[1].cb)]
    BY <1>2 DEF Callbacks, RunHold, RunEmit, RunRelease, machine
  <2> QED
    BY <2>1, <2>2, <2>3 DEF TypeOK
<1> QED
  BY <1>3, <1>4 DEF Signalled

(* An operation whose worker does nothing, and which gets no new signal,    *)
(* keeps its account.                                                       *)
LEMMA AccountKept ==
  ASSUME NEW o \in Op, Account(o), \A s \in Signal : Signalled(o, s)' => Signalled(o, s),
         UNCHANGED <<kind[o], result[o], audit[o]>>,
         pc'[o] \in {pc[o], "killed"}
  PROVE  Account(o)'
BY DEF Account, Signal, Undecided, Unreported, Decided, Reported

(* What a worker's step leaves alone, and how it reaches the main loop.     *)
LEMMA WorkerFrame ==
  ASSUME TypeOK, NEW o \in Op, Worker(o) \/ Progress(o)
  PROVE  /\ Alive(o) /\ UNCHANGED <<up, inProgress, currentOp, wire, lost>>
         /\ UNCHANGED kind
         /\ \A p \in Op \ {o} : UNCHANGED <<pc[p], result[p], audit[p]>>
         /\ pc'[o] \in WorkerStep \cup {"done"}
         /\ \/ UNCHANGED queue
            \/ \E cb \in Signal \cup {"hold", "release"} : Post(o, cb)
<1> USE DEF process, workers, machine, history, TypeOK, Alive, WorkerStep, Signal
<1>1. CASE Hold(o) \/ Start(o) \/ Inhibit(o) \/ Mark(o) \/ Snapshot(o)
  BY <1>1 DEF Hold, Start, Inhibit, Mark, Snapshot
<1>2. CASE Progress(o) \/ Transact(o)
  BY <1>2 DEF Progress, Transact
<1>3. CASE RunSucceeds(o) \/ RunFails(o) \/ Unmark(o)
  BY <1>3 DEF RunSucceeds, RunFails, Unmark
<1>4. CASE Report(o) \/ Reboot(o)
  BY <1>4 DEF Report, Announce, AfterReport, Reboot
<1>5. CASE Audit(o) \/ Cleanup(o) \/ Uninhibit(o) \/ PostRelease(o)
  BY <1>5 DEF Audit, AfterAudit, Cleanup, Uninhibit, PostRelease
<1> QED
  BY <1>1, <1>2, <1>3, <1>4, <1>5 DEF Worker

(* A worker's step that posts nothing adds no signal.                       *)
LEMMA SilentSignals ==
  ASSUME UNCHANGED <<queue, wire>>, NEW p, NEW s
  PROVE  Signalled(p, s)' <=> Signalled(p, s)
BY DEF Signalled, InWire, Queued

LEMMA WorkerAccount ==
  ASSUME TypeOK, NEW o \in Op, Account(o), Worker(o) \/ Progress(o)
  PROVE  Account(o)'
<1> USE DEF process, workers, machine, history, Undecided, Unreported, Decided, Reported
<1>1. kind[o] \in Kind /\ result[o] \in Outcome \cup {"none"} /\ o \in DOMAIN pc
      /\ o \in DOMAIN result /\ o \in DOMAIN audit
  BY WorkerFrame DEF TypeOK, Alive, WorkerStep
<1>2. ASSUME UNCHANGED <<queue, wire>>, NEW s
      PROVE  Signalled(o, s)' <=> Signalled(o, s)
  BY <1>2, SilentSignals
<1>3. ASSUME NEW cb, Post(o, cb), UNCHANGED wire, NEW s, Signalled(o, s)'
      PROVE  Signalled(o, s) \/ s = cb
  BY <1>3, PostSignals
<1>4. CASE Hold(o)
  BY <1>3, <1>4 DEF Hold, Account
<1>5. CASE Start(o)
  BY <1>1, <1>2, <1>5 DEF Start, Account
<1>6. CASE Inhibit(o) \/ Mark(o) \/ Snapshot(o)
  BY <1>1, <1>2, <1>6 DEF Inhibit, Mark, Snapshot, Account
<1>7. CASE Progress(o)
  BY <1>3, <1>7 DEF Progress, Account
<1>8. CASE Transact(o)
  BY <1>1, <1>2, <1>8 DEF Transact, Account
<1>9. CASE RunSucceeds(o)
  BY <1>1, <1>2, <1>9 DEF RunSucceeds, Account
<1>10. CASE RunFails(o)
  BY <1>1, <1>2, <1>10 DEF RunFails, Account
<1>11. CASE Unmark(o) \/ Cleanup(o) \/ Uninhibit(o)
  BY <1>1, <1>2, <1>11 DEF Unmark, Cleanup, Uninhibit, Account
<1>12. CASE Report(o)
  <2>1. Post(o, IF result[o] = "ok" THEN "ok" ELSE "failed") /\ UNCHANGED <<wire, result, kind, audit>>
    BY <1>12 DEF Report, Announce
  <2>2. /\ pc[o] = "report" /\ pc'[o] \in {"release", "reboot", "audit"}
        /\ pc'[o] = "reboot" => result[o] = "ok" /\ kind[o] \in Marking
    BY <1>1, <1>12 DEF Report, AfterReport
  <2>3. \A s : Signalled(o, s)' => Signalled(o, s) \/ s = IF result[o] = "ok" THEN "ok" ELSE "failed"
    BY <1>3, <2>1
  <2> QED
    BY <1>1, <2>1, <2>2, <2>3 DEF Account, Marking, Outcome
<1>13. CASE Reboot(o)
  <2>1. /\ pc[o] = "reboot" /\ pc'[o] \in {"uninhibit", "audit"} /\ UNCHANGED <<wire, result, kind, audit>>
        /\ pc'[o] = "audit" => kind[o] \notin Fix
    BY <1>1, <1>13 DEF Reboot
  <2>2. kind[o] # "repair"
    BY <2>1 DEF Account
  <2>3. pc'[o] = "audit" => kind[o] \in Marking
    BY <1>1, <2>1, <2>2 DEF Kind, Fix, Marking
  <2>4. \A s : Signalled(o, s)' => Signalled(o, s) \/ s = "reboot"
    BY <1>2, <1>3, <1>13 DEF Reboot
  <2> QED
    BY <2>1, <2>3, <2>4 DEF Account
<1>14. CASE Audit(o)
  <2>1. /\ pc[o] = "audit" /\ UNCHANGED <<queue, wire, result, kind>>
        /\ audit'[o] = audit[o] \cup {IF result[o] = "ok" THEN "success" ELSE "failed"}
        /\ pc'[o] \in {"cleanup", "release", "reboot", "uninhibit"}
        /\ pc'[o] = "reboot" => result[o] = "ok" /\ kind[o] \in Fix
    BY <1>1, <1>14 DEF Audit, AfterAudit
  <2> QED
    BY <1>1, <1>2, <2>1 DEF Account, Outcome, Fix, Marking
<1>15. CASE PostRelease(o)
  BY <1>3, <1>15 DEF PostRelease, Account
<1> QED
  BY <1>4, <1>5, <1>6, <1>7, <1>8, <1>9, <1>10, <1>11, <1>12, <1>13, <1>14, <1>15 DEF Worker

LEMMA AccountsStep == SlotInv /\ Accounts /\ [Next]_vars => Accounts'
<1> SUFFICES ASSUME SlotInv, Accounts, [Next]_vars, NEW p \in Op
             PROVE  Account(p)'
  BY DEF Accounts
<1>0. TypeOK /\ Account(p)
  BY DEF SlotInv, Accounts
<1>1. ASSUME NEW o \in Op, NEW k \in Called, Accept(o, k)
      PROVE  Account(p)'
  <2>1. \A s : Signalled(p, s)' <=> Signalled(p, s)
    BY <1>1, SilentSignals DEF Accept
  <2>2. CASE p = o
    BY <1>0, <1>1, <2>1, <2>2
       DEF Accept, TypeOK, Account, Undecided, Unreported, Decided, Reported
  <2>3. CASE p # o
    BY <1>0, <1>1, <2>1, <2>3, AccountKept DEF Accept, TypeOK
  <2> QED
    BY <2>2, <2>3
<1>2. CASE Callbacks
  <2>1. UNCHANGED <<pc, kind, result, audit>>
    BY <1>2 DEF Callbacks, RunHold, RunEmit, RunRelease, workers, machine
  <2> QED
    BY <1>0, <1>2, <2>1, PopSignals, AccountKept
<1>3. ASSUME NEW o \in Op, Worker(o) \/ Progress(o)
      PROVE  Account(p)'
  <2>1. CASE p = o
    BY <1>0, <1>3, <2>1, WorkerAccount
  <2>2. CASE p # o
    <3>1. UNCHANGED <<pc[p], kind[p], result[p], audit[p], wire>>
      BY <1>0, <1>3, <2>2, WorkerFrame
    <3>2. \A s : Signalled(p, s)' => Signalled(p, s)
      BY <1>0, <1>3, <2>2, <3>1, WorkerFrame, SilentSignals, PostSignals
    <3> QED
      BY <1>0, <3>1, <3>2, AccountKept
  <2> QED
    BY <2>1, <2>2
<1>4. CASE Stop
  <2>1. queue' = <<>> /\ UNCHANGED <<wire, kind, result, audit>> /\ pc'[p] \in {pc[p], "killed"}
    BY <1>4 DEF Stop, machine
  <2>2. \A s : Signalled(p, s)' => Signalled(p, s)
    BY <2>1 DEF Signalled, InWire, Queued
  <2> QED
    BY <1>0, <2>1, <2>2, AccountKept
<1>5. CASE Restart
  <2>1. queue = <<>> /\ UNCHANGED <<pc, wire, kind, result, audit>>
    BY <1>5 DEF Restart, SlotInv, Owner, workers
  <2>2. queue' = <<>> \/ queue' = <<StartupNotice>>
    BY <1>5, <2>1 DEF Restart
  <2>3. \A s \in Signal : Signalled(p, s)' => Signalled(p, s)
    BY <2>1, <2>2, ConstantsOK DEF Signalled, InWire, Queued, StartupNotice
  <2> QED
    BY <1>0, <2>1, <2>3, AccountKept
<1>6. CASE Touch \/ BeginRevert \/ EndRevert \/ UNCHANGED vars
  <2>1. UNCHANGED <<queue, wire, pc, kind, result, audit>>
    BY <1>6 DEF Touch, BeginRevert, EndRevert, vars, workers, machine
  <2> QED
    BY <1>0, <2>1, SilentSignals, AccountKept
<1> QED
  BY <1>1, <1>2, <1>3, <1>4, <1>5, <1>6 DEF Next, IdleTimeout, Killed

(* A signal posted where it may follow all that were posted before keeps    *)
(* the stream in order.                                                     *)
LEMMA PostOrdered ==
  ASSUME TypeOK, Ordered, NEW o \in Op, NEW cb, Post(o, cb), UNCHANGED wire,
         cb \in Signal => \A s \in Signal : Signalled(o, s) => Follows(s, cb)
  PROVE  Ordered'
<1>1. /\ DOMAIN queue = 1 .. Len(queue) /\ DOMAIN queue' = 1 .. (Len(queue) + 1)
      /\ \A i \in 1 .. Len(queue) : queue'[i] = queue[i]
      /\ queue'[Len(queue) + 1] = [cb |-> cb, op |-> o] /\ Len(queue) \in Nat
  BY PostQueue
<1>2. StreamWellFormed'
  BY DEF Ordered, StreamWellFormed
<1>3. ASSUME NEW i \in DOMAIN queue', NEW j \in DOMAIN queue', i < j, queue'[i].op = queue'[j].op,
             queue'[i].cb \in Signal, queue'[j].cb \in Signal
      PROVE  Follows(queue'[i].cb, queue'[j].cb)
  <2>1. CASE j \in 1 .. Len(queue)
    <3>1. i \in 1 .. Len(queue)
      BY <1>1, <1>3, <2>1
    <3>2. queue'[i] = queue[i] /\ queue'[j] = queue[j]
      BY <1>1, <2>1, <3>1
    <3> QED
      BY <1>1, <1>3, <2>1, <3>1, <3>2 DEF Ordered
  <2>2. CASE j = Len(queue) + 1
    <3>1. i \in DOMAIN queue /\ queue'[i] = queue[i] /\ queue[i].op = o /\ queue'[j].cb = cb
      BY <1>1, <1>3, <2>2
    <3>2. queue[i] \in Message
      BY <3>1, ElementOfSeq, <1>1 DEF TypeOK
    <3>3. queue[i] = [cb |-> queue[i].cb, op |-> o]
      BY <3>1, <3>2 DEF Message, StartupNotice
    <3>4. Signalled(o, queue[i].cb)
      BY <3>1, <3>3 DEF Signalled, Queued
    <3> QED
      BY <1>3, <3>1, <3>4
  <2> QED
    BY <1>1, <2>1, <2>2
<1>4. ASSUME NEW p \in Op, NEW i \in DOMAIN wire'[p], NEW j \in DOMAIN queue',
             queue'[j].op = p, queue'[j].cb \in Signal
      PROVE  Follows(wire'[p][i], queue'[j].cb)
  <2>1. CASE j \in 1 .. Len(queue)
    BY <1>1, <1>4, <2>1 DEF Ordered
  <2>2. CASE j = Len(queue) + 1
    <3>1. p = o /\ queue'[j].cb = cb
      BY <1>1, <1>4, <2>2
    <3>2. wire[o][i] \in Signal /\ Signalled(o, wire[o][i])
      BY <1>4, <3>1, ElementOfSeq, LenProperties DEF TypeOK, Signalled, InWire
    <3> QED
      BY <1>4, <3>1, <3>2
  <2> QED
    BY <1>1, <2>1, <2>2
<1> QED
  BY <1>2, <1>3, <1>4 DEF Ordered

(* The main loop takes the oldest callback: what it emits comes after all   *)
(* that the bus has carried and before all that is queued.                  *)
LEMMA PopOrdered == TypeOK /\ Ordered /\ Callbacks => Ordered'
<1> SUFFICES ASSUME TypeOK, Ordered, Callbacks PROVE Ordered'
  OBVIOUS
<1> DEFINE c == queue[1]
<1>1. PICK cbs : Pop(cbs)
  BY DEF Callbacks, RunHold, RunEmit, RunRelease
<1>2. /\ Len(queue) \in Nat \ {0} /\ DOMAIN queue = 1 .. Len(queue)
      /\ DOMAIN queue' = 1 .. (Len(queue) - 1)
      /\ \A i \in 1 .. (Len(queue) - 1) : queue'[i] = queue[i + 1]
      /\ Head(queue) = c /\ c \in Message
  BY <1>1, PopQueue
<1>3. \A i, j \in DOMAIN queue' :
        i < j /\ queue'[i].op = queue'[j].op /\ queue'[i].cb \in Signal /\ queue'[j].cb \in Signal
          => Follows(queue'[i].cb, queue'[j].cb)
  <2> SUFFICES ASSUME NEW i \in DOMAIN queue', NEW j \in DOMAIN queue', i < j,
                      queue'[i].op = queue'[j].op, queue'[i].cb \in Signal, queue'[j].cb \in Signal
               PROVE  Follows(queue'[i].cb, queue'[j].cb)
    OBVIOUS
  <2>1. i + 1 \in DOMAIN queue /\ j + 1 \in DOMAIN queue /\ i + 1 < j + 1
        /\ queue'[i] = queue[i + 1] /\ queue'[j] = queue[j + 1]
    BY <1>2
  <2> QED
    BY <2>1 DEF Ordered
<1>4. ASSUME NEW j \in DOMAIN queue'
      PROVE  j + 1 \in DOMAIN queue /\ 1 < j + 1 /\ queue'[j] = queue[j + 1]
  BY <1>2, <1>4
<1>5. CASE UNCHANGED wire
  <2>1. \A o \in Op : \A i \in DOMAIN wire[o], j \in DOMAIN queue' :
          queue'[j].op = o /\ queue'[j].cb \in Signal => Follows(wire[o][i], queue'[j].cb)
    BY <1>4 DEF Ordered
  <2> QED
    BY <1>3, <1>5, <2>1 DEF Ordered, StreamWellFormed
<1>6. CASE RunEmit /\ c.op # NoOp
  <2> DEFINE o == c.op
  <2>1. o \in Op /\ c.cb \in Signal /\ wire' = [wire EXCEPT ![o] = Append(@, c.cb)]
    <3>1. c.op \in Op /\ c.cb # "startup"
      BY <1>2, <1>6 DEF Message, StartupNotice, Signal
    <3>2. c.cb \in Signal \cup {"startup"}
      BY <1>2, <1>6 DEF RunEmit, Pop
    <3> QED
      BY <1>2, <1>6, <3>1, <3>2 DEF RunEmit
  <2>2. wire[o] \in Seq(Signal) /\ DOMAIN wire[o] = 1 .. Len(wire[o]) /\ Len(wire[o]) \in Nat
    BY <2>1, LenProperties DEF TypeOK
  <2>3. /\ wire'[o] = Append(wire[o], c.cb) /\ DOMAIN wire'[o] = 1 .. (Len(wire[o]) + 1)
        /\ \A i \in 1 .. Len(wire[o]) : wire'[o][i] = wire[o][i]
        /\ wire'[o][Len(wire[o]) + 1] = c.cb
        /\ \A p \in Op \ {o} : wire'[p] = wire[p]
    <3>1. wire'[o] = Append(wire[o], c.cb) /\ \A p \in Op \ {o} : wire'[p] = wire[p]
      BY <2>1 DEF TypeOK
    <3>2. /\ DOMAIN Append(wire[o], c.cb) = 1 .. (Len(wire[o]) + 1)
          /\ \A i \in 1 .. Len(wire[o]) : Append(wire[o], c.cb)[i] = wire[o][i]
          /\ Append(wire[o], c.cb)[Len(wire[o]) + 1] = c.cb
      BY <2>1, <2>2
    <3> QED
      BY <3>1, <3>2
  <2>4. ASSUME NEW i \in 1 .. Len(wire[o])
        PROVE  Follows(wire[o][i], c.cb)
    <3>1. 1 \in DOMAIN queue /\ queue[1].op = o /\ queue[1].cb \in Signal /\ i \in DOMAIN wire[o]
      BY <1>2, <2>1, <2>2
    <3> QED
      BY <2>1, <3>1 DEF Ordered
  <2>5. StreamWellFormed'
    <3> SUFFICES ASSUME NEW p \in Op, NEW i \in DOMAIN wire'[p], NEW j \in DOMAIN wire'[p], i < j
                 PROVE  Follows(wire'[p][i], wire'[p][j])
      BY DEF StreamWellFormed, Follows
    <3>1. CASE p # o
      BY <2>3, <3>1 DEF Ordered, StreamWellFormed, Follows
    <3>2. CASE p = o /\ j \in 1 .. Len(wire[o])
      <4>1. i \in 1 .. Len(wire[o])
        BY <2>2, <2>3, <3>2
      <4> QED
        BY <2>1, <2>2, <2>3, <3>2, <4>1 DEF Ordered, StreamWellFormed, Follows
    <3>3. CASE p = o /\ j = Len(wire[o]) + 1
      <4>1. i \in 1 .. Len(wire[o])
        BY <2>2, <2>3, <3>3
      <4> QED
        BY <2>3, <2>4, <3>3, <4>1
    <3> QED
      BY <2>3, <3>1, <3>2, <3>3
  <2>6. ASSUME NEW p \in Op, NEW i \in DOMAIN wire'[p], NEW j \in DOMAIN queue',
               queue'[j].op = p, queue'[j].cb \in Signal
        PROVE  Follows(wire'[p][i], queue'[j].cb)
    <3>1. j + 1 \in DOMAIN queue /\ 1 < j + 1 /\ queue'[j] = queue[j + 1] /\ 1 \in DOMAIN queue
      BY <1>2, <1>4
    <3>2. CASE p # o
      BY <2>3, <2>6, <3>1, <3>2 DEF Ordered
    <3>3. CASE p = o /\ i \in 1 .. Len(wire[o])
      BY <2>1, <2>2, <2>3, <2>6, <3>1, <3>3 DEF Ordered
    <3>4. CASE p = o /\ i = Len(wire[o]) + 1
      BY <2>1, <2>3, <2>6, <3>1, <3>4 DEF Ordered
    <3> QED
      BY <2>3, <3>2, <3>3, <3>4
  <2> QED
    BY <1>3, <2>5, <2>6 DEF Ordered
<1>7. UNCHANGED wire \/ (RunEmit /\ c.op # NoOp)
  BY <1>2 DEF Callbacks, RunHold, RunEmit, RunRelease, machine
<1> QED
  BY <1>5, <1>6, <1>7

LEMMA OrderedStep == AnswerInv /\ [Next]_vars => Ordered'
<1> SUFFICES ASSUME AnswerInv, [Next]_vars PROVE Ordered'
  OBVIOUS
<1>0. TypeOK /\ Ordered /\ SlotInv
  BY DEF AnswerInv, SlotInv
<1>1. CASE UNCHANGED <<queue, wire>>
  BY <1>0, <1>1 DEF Ordered, StreamWellFormed
<1>2. CASE Callbacks
  BY <1>0, <1>2, PopOrdered
<1>3. ASSUME NEW o \in Op, Worker(o) \/ Progress(o), NEW cb \in Signal \cup {"hold", "release"}, Post(o, cb)
      PROVE  Ordered'
  <2>1. UNCHANGED wire /\ Account(o) /\ kind[o] \in Kind /\ result[o] \in Outcome \cup {"none"}
    BY <1>0, <1>3, WorkerFrame DEF AnswerInv, Accounts, TypeOK, Alive, WorkerStep
  <2>2. queue' = Append(queue, [cb |-> cb, op |-> o]) /\ queue' # queue
    <3>1. Len(queue') # Len(queue)
      BY <1>0, <1>3, PostQueue DEF Post, TypeOK
    <3> QED
      BY <1>3, <3>1 DEF Post
  <2>3. ASSUME cb \in Signal, NEW s \in Signal, Signalled(o, s)
        PROVE  Follows(s, cb)
    <3>1. CASE Progress(o)
      BY <2>1, <2>3, <3>1 DEF Progress, Account, Unreported, Undecided, Signal, Follows
    <3>2. CASE Report(o)
      BY <2>1, <2>3, <3>2 DEF Report, Account, Unreported, Signal, Follows
    <3>3. CASE Reboot(o)
      <4>1. cb = "reboot"
        <5>1. queue' = Append(queue, [cb |-> "reboot", op |-> o])
          BY <2>2, <3>3 DEF Reboot, Post
        <5>2. queue'[Len(queue) + 1] = [cb |-> "reboot", op |-> o] /\ queue'[Len(queue) + 1] = [cb |-> cb, op |-> o]
          BY <1>0, <2>2, <5>1 DEF TypeOK
        <5> QED
          BY <5>2
      <4> QED
        BY <2>1, <2>3, <3>3, <4>1 DEF Reboot, Account, Signal, Follows
    <3>4. Progress(o) \/ Report(o) \/ Reboot(o)
      <4>1. ~Hold(o) /\ ~PostRelease(o)
        <5>1. ASSUME NEW other \in {"hold", "release"} PROVE ~Post(o, other)
          <6> SUFFICES ASSUME Post(o, other) PROVE FALSE
            OBVIOUS
          <6>1. queue'[Len(queue) + 1] = [cb |-> other, op |-> o] /\ queue'[Len(queue) + 1] = [cb |-> cb, op |-> o]
            BY <1>0, <1>3 DEF TypeOK, Post
          <6> QED
            BY <2>3, <6>1, <5>1 DEF Signal
        <5> QED
          BY <5>1 DEF Hold, PostRelease
      <4> QED
        BY <1>3, <2>2, <4>1 DEF Worker, Start, Inhibit, Mark, Snapshot, Transact, RunSucceeds, RunFails,
             Unmark, Audit, Cleanup, Uninhibit
    <3> QED
      BY <3>1, <3>2, <3>3, <3>4
  <2> QED
    BY <1>0, <1>3, <2>1, <2>3, PostOrdered
<1>4. ASSUME NEW o \in Op, Worker(o) \/ Progress(o)
      PROVE  Ordered'
  BY <1>0, <1>1, <1>3, <1>4, WorkerFrame
<1>5. CASE Stop
  <2>1. queue' = <<>> /\ UNCHANGED wire
    BY <1>5 DEF Stop, machine
  <2> QED
    BY <1>0, <2>1 DEF Ordered, StreamWellFormed
<1>6. CASE Restart
  <2>1. queue = <<>> /\ UNCHANGED wire
    BY <1>0, <1>6 DEF Restart, SlotInv, Owner
  <2>2. queue' = <<>> \/ queue' = <<StartupNotice>>
    BY <1>6, <2>1 DEF Restart
  <2>3. \A i \in DOMAIN queue' : queue'[i].cb \notin Signal
    BY <2>2 DEF StartupNotice, Signal
  <2> QED
    BY <1>0, <2>1, <2>3 DEF Ordered, StreamWellFormed
<1>7. CASE \/ \E o \in Op, k \in Called : Accept(o, k)
           \/ Touch \/ BeginRevert \/ EndRevert \/ UNCHANGED vars
  BY <1>1, <1>7 DEF Accept, Touch, BeginRevert, EndRevert, vars, machine
<1> QED
  BY <1>2, <1>4, <1>5, <1>6, <1>7 DEF Next, IdleTimeout, Killed

LEMMA AnswerInit == Init => AnswerInv
<1> SUFFICES ASSUME Init PROVE AnswerInv
  OBVIOUS
<1>1. \A o \in Op : \A s : ~Signalled(o, s)
  BY DEF Init, Signalled, InWire, Queued
<1>2. Accounts
  BY <1>1 DEF Init, Accounts, Account, Undecided, Unreported, Decided, Reported
<1>3. Ordered
  BY DEF Init, Ordered, StreamWellFormed
<1> QED
  BY <1>2, <1>3, SlotInit DEF AnswerInv

LEMMA AnswerStep == AnswerInv /\ [Next]_vars => AnswerInv'
  BY SlotStep, AccountsStep, OrderedStep DEF AnswerInv

LEMMA AnswersCorrect == Spec => []AnswerInv
  BY AnswerInit, AnswerStep, PTL DEF Spec

(* Progress, one OperationComplete, then RebootRequired at most and only    *)
(* after a success (service.py:2033-2104), however the main loop and the    *)
(* worker interleave.                                                       *)
THEOREM StreamWellFormedCorrect == Spec => []StreamWellFormed
<1>1. AnswerInv => StreamWellFormed
  BY DEF AnswerInv, Ordered
<1> QED
  BY <1>1, AnswersCorrect, PTL

(* The audit log agrees with itself and with what the bus has carried.      *)
THEOREM AuditAgreesCorrect == Spec => []AuditAgrees
<1>1. AnswerInv => AuditAgrees
  <2> SUFFICES ASSUME AnswerInv, NEW o \in Op
               PROVE  /\ ~ ({"success", "failed"} \subseteq audit[o])
                      /\ "success" \in audit[o] => ~InWire(o, "failed")
                      /\ "failed" \in audit[o] => ~InWire(o, "ok")
    BY DEF AuditAgrees
  <2>1. Account(o)
    BY DEF AnswerInv, Accounts
  <2> QED
    BY <2>1 DEF Account, Signalled
<1> QED
  BY <1>1, AnswersCorrect, PTL

-----------------------------------------------------------------------------
(* The daemon implements OperationSlot: each step of the threads, the queue *)
(* and the process is a step of the slot or changes nothing that clients    *)
(* can tell.                                                                *)

Answers == [o \in Op |-> AnswerTo(o)]

(* An answer depends on the bus, on whether the operation is accepted, and  *)
(* on who owns the slot.                                                    *)
LEMMA SameAnswers ==
  ASSUME UNCHANGED <<wire, currentOp>>, \A o \in Op : At(o, "new") <=> At(o, "new")'
  PROVE  Answers' = Answers
<1>1. ASSUME NEW o \in Op PROVE AnswerTo(o)' = AnswerTo(o)
  BY DEF AnswerTo, Completed, InWire
<1> QED
  BY <1>1 DEF Answers

(* OperationComplete leaves the queue for the bus once, and while its       *)
(* operation is pending; the other signals answer nothing.                  *)
LEMMA EmitAnswers ==
  ASSUME AnswerInv, RunEmit
  PROVE  \/ Slot!SlotAnswer("ok") \/ Slot!SlotAnswer("failed")
         \/ UNCHANGED <<up, currentOp, Answers>>
<1>0. PICK c \in Message : c = queue[1] /\ c = Head(queue) /\ 1 \in DOMAIN queue /\ up
  <2>1. Pop(Signal \cup {"startup"}) /\ TypeOK
    BY DEF RunEmit, AnswerInv, SlotInv
  <2>2. /\ up /\ Len(queue) \in Nat \ {0} /\ DOMAIN queue = 1 .. Len(queue)
        /\ Head(queue) = queue[1] /\ Head(queue) \in Message
    BY <2>1, PopQueue
  <2> QED
    BY <2>2
<1>1. /\ 1 \in DOMAIN queue /\ up /\ c.cb \in Signal \cup {"startup"}
      /\ UNCHANGED <<up, currentOp, pc>>
      /\ wire' = IF c.op = NoOp THEN wire ELSE [wire EXCEPT ![c.op] = Append(@, c.cb)]
  BY <1>0 DEF RunEmit, Pop, process, workers
<1>2. CASE c.op = NoOp
  BY <1>1, <1>2, SameAnswers
<1>3. CASE c.op # NoOp
  <2>0. PICK o \in Op : o = c.op /\ c = [cb |-> c.cb, op |-> o] /\ c.cb \in Signal
    BY <1>1, <1>3 DEF Message, StartupNotice, Signal
  <2>1. /\ o \in Op /\ c.cb \in Signal /\ wire' = [wire EXCEPT ![o] = Append(@, c.cb)]
        /\ c = [cb |-> c.cb, op |-> o]
    BY <1>1, <1>3, <2>0
  <2>2. currentOp = o
    BY <1>0, <1>1, <1>3, <2>0 DEF AnswerInv, SlotInv, OwnersQueue
  <2>3. /\ \A p \in Op \ {o} : wire'[p] = wire[p]
        /\ \A s \in Signal : InWire(o, s)' <=> InWire(o, s) \/ s = c.cb
    <3>1. wire[o] \in Seq(Signal) /\ DOMAIN wire[o] = 1 .. Len(wire[o]) /\ Len(wire[o]) \in Nat
      BY <2>1, LenProperties DEF AnswerInv, SlotInv, TypeOK
    <3>2. wire'[o] = Append(wire[o], c.cb) /\ \A p \in Op \ {o} : wire'[p] = wire[p]
      BY <2>1 DEF AnswerInv, SlotInv, TypeOK
    <3>3. /\ DOMAIN wire'[o] = 1 .. (Len(wire[o]) + 1)
          /\ \A i \in 1 .. Len(wire[o]) : wire'[o][i] = wire[o][i]
          /\ wire'[o][Len(wire[o]) + 1] = c.cb
      BY <3>1, <3>2
    <3> QED
      BY <3>1, <3>2, <3>3 DEF InWire
  <2>4. ASSUME NEW p \in Op \ {o} PROVE AnswerTo(p)' = AnswerTo(p)
    <3>1. wire'[p] = wire[p] /\ pc'[p] = pc[p] /\ currentOp' = currentOp
      BY <1>1, <2>3
    <3>2. (InWire(p, "ok")' <=> InWire(p, "ok")) /\ (InWire(p, "failed")' <=> InWire(p, "failed"))
      BY <3>1 DEF InWire
    <3> QED
      BY <3>1, <3>2 DEF AnswerTo, Completed
  <2>5. CASE c.cb \in {"ok", "failed"}
    <3>1. ~Completed(o)
      <4>1. \A i \in DOMAIN wire[o] : wire[o][i] = "progress"
        BY <1>0, <2>0, <2>1, <2>5 DEF AnswerInv, Ordered, Follows
      <4> QED
        BY <4>1 DEF Completed, InWire
    <3>2. Signalled(o, c.cb)
      BY <1>0, <2>0, <2>1 DEF Signalled, Queued
    <3>3. ~At(o, "new")
      BY <2>1, <2>5, <3>2 DEF AnswerInv, Accounts, Account, Unreported, Undecided
    <3>4. AnswerTo(o) = "pending"
      BY <2>2, <3>1, <3>3 DEF AnswerTo, Completed
    <3>5. AnswerTo(o)' = c.cb
      BY <2>3, <2>5, <3>1 DEF AnswerTo, Completed, Signal
    <3>6. Answers' = [Answers EXCEPT ![o] = c.cb]
      BY <2>1, <2>4, <3>5 DEF Answers
    <3>7. Slot!SlotAnswer(c.cb)
      BY <1>1, <1>3, <2>0, <2>1, <2>2, <3>4, <3>6 DEF Slot!SlotAnswer, Answers
    <3> QED
      BY <2>5, <3>7
  <2>6. CASE c.cb \notin {"ok", "failed"}
    <3>1. AnswerTo(o)' = AnswerTo(o)
      BY <1>1, <2>3, <2>6 DEF AnswerTo, Completed, Signal
    <3> QED
      BY <1>1, <2>4, <3>1 DEF Answers
  <2> QED
    BY <2>5, <2>6
<1> QED
  BY <1>2, <1>3

LEMMA AcceptAnswers ==
  ASSUME AnswerInv, NEW o \in Op, NEW k \in Called, Accept(o, k)
  PROVE  Slot!SlotAccept(o)
<1>1. /\ up /\ currentOp = NoOp /\ o # NoOp /\ At(o, "new")
      /\ UNCHANGED <<up, wire>> /\ currentOp' = o /\ pc'[o] # "new"
      /\ \A p \in Op \ {o} : pc'[p] = pc[p]
  BY ConstantsOK DEF Accept, AnswerInv, SlotInv, Owner, TypeOK
<1>2. ~Completed(o)
  BY <1>1 DEF AnswerInv, Accounts, Account, Unreported, Undecided, Completed, Signalled
<1>3. AnswerTo(o) = "none" /\ AnswerTo(o)' = "pending"
  BY <1>1, <1>2 DEF AnswerTo, Completed, InWire
<1>4. \A p \in Op \ {o} : AnswerTo(p)' = AnswerTo(p)
  BY <1>1, ConstantsOK DEF AnswerTo, Completed, InWire
<1>5. Answers' = [Answers EXCEPT ![o] = "pending"]
  BY <1>3, <1>4 DEF Answers
<1> QED
  BY <1>1, <1>3, <1>5 DEF Slot!SlotAccept, Answers

LEMMA ReleaseAnswers == AnswerInv /\ RunRelease => Slot!SlotFree
<1> SUFFICES ASSUME AnswerInv, RunRelease PROVE Slot!SlotFree
  OBVIOUS
<1>1. /\ currentOp \in Op /\ Completed(currentOp) /\ currentOp # NoOp
      /\ up /\ currentOp' = NoOp /\ UNCHANGED <<up, wire, pc>>
  BY ReleaseIsLast, ConstantsOK DEF AnswerInv, RunRelease, Pop, workers, machine
<1>2. AnswerTo(currentOp) \in {"ok", "failed"}
  BY <1>1 DEF AnswerTo, Completed
<1>3. \A p \in Op : AnswerTo(p)' = AnswerTo(p)
  BY <1>1, ConstantsOK DEF AnswerTo, Completed, InWire
<1> QED
  BY <1>1, <1>2, <1>3 DEF Slot!SlotFree

LEMMA StopAnswers == AnswerInv /\ Stop => Slot!SlotStop
<1> SUFFICES ASSUME AnswerInv, Stop PROVE Slot!SlotStop
  OBVIOUS
<1>1. /\ up /\ ~up' /\ currentOp' = NoOp /\ UNCHANGED wire
      /\ \A p \in Op : At(p, "new") <=> At(p, "new")'
      /\ currentOp \in Op \cup {NoOp}
  BY DEF Stop, machine, AnswerInv, SlotInv, TypeOK, Alive, WorkerStep
<1>2. \A p \in Op : p # currentOp => AnswerTo(p)' = AnswerTo(p)
  BY <1>1, ConstantsOK DEF AnswerTo, Completed, InWire
<1>3. \A p \in Op : p = currentOp =>
        AnswerTo(p)' = IF AnswerTo(p) = "pending" THEN "lost" ELSE AnswerTo(p)
  BY <1>1, ConstantsOK DEF AnswerTo, Completed, InWire
<1>4. Answers' = IF currentOp # NoOp /\ Answers[currentOp] = "pending"
                 THEN [Answers EXCEPT ![currentOp] = "lost"] ELSE Answers
  <2>1. CASE currentOp = NoOp
    <3>1. \A p \in Op : AnswerTo(p)' = AnswerTo(p)
      BY <1>2, <2>1, ConstantsOK
    <3> QED
      BY <2>1, <3>1 DEF Answers
  <2>2. CASE currentOp \in Op /\ Answers[currentOp] = "pending"
    <3>1. \A p \in Op : AnswerTo(p)' = IF p = currentOp THEN "lost" ELSE AnswerTo(p)
      BY <1>2, <1>3, <2>2 DEF Answers
    <3> QED
      BY <2>2, <3>1, ConstantsOK DEF Answers
  <2>3. CASE currentOp \in Op /\ Answers[currentOp] # "pending"
    <3>1. \A p \in Op : AnswerTo(p)' = AnswerTo(p)
      BY <1>2, <1>3, <2>3 DEF Answers
    <3> QED
      BY <2>3, <3>1 DEF Answers
  <2> QED
    BY <1>1, <2>1, <2>2, <2>3
<1> QED
  BY <1>1, <1>4 DEF Slot!SlotStop, Answers

LEMMA SlotSteps == AnswerInv /\ [Next]_vars => [Slot!SlotNext]_(Slot!slotVars)
<1> SUFFICES ASSUME AnswerInv, [Next]_vars
             PROVE  Slot!SlotNext \/ UNCHANGED <<up, currentOp, Answers>>
  BY DEF Slot!slotVars, Answers
<1>1. ASSUME NEW o \in Op, NEW k \in Called, Accept(o, k)
      PROVE  Slot!SlotNext
  BY <1>1, AcceptAnswers DEF Slot!SlotNext
<1>2. CASE Callbacks
  <2>1. CASE RunHold
    BY <2>1, SameAnswers DEF RunHold, workers, machine
  <2>2. CASE RunEmit
    BY <2>2, EmitAnswers DEF Slot!SlotNext
  <2>3. CASE RunRelease
    BY <2>3, ReleaseAnswers DEF Slot!SlotNext
  <2> QED
    BY <1>2, <2>1, <2>2, <2>3 DEF Callbacks
<1>3. ASSUME NEW o \in Op, Worker(o) \/ Progress(o)
      PROVE  UNCHANGED <<up, currentOp, Answers>>
  <2>1. /\ UNCHANGED <<up, currentOp, wire>> /\ pc[o] # "new" /\ pc'[o] # "new"
        /\ \A p \in Op \ {o} : pc'[p] = pc[p]
    BY <1>3, WorkerFrame DEF AnswerInv, SlotInv, Alive, WorkerStep
  <2> QED
    BY <2>1, SameAnswers
<1>4. CASE Stop
  BY <1>4, StopAnswers DEF Slot!SlotNext
<1>5. CASE Restart
  <2>1. ~up /\ up' = TRUE /\ UNCHANGED <<currentOp, wire, pc>>
    BY <1>5 DEF Restart, workers
  <2>2. Answers' = Answers
    BY <2>1, SameAnswers
  <2> QED
    BY <2>1, <2>2 DEF Slot!SlotNext, Slot!SlotStart, Answers
<1>6. CASE Touch \/ BeginRevert \/ EndRevert \/ UNCHANGED vars
  <2>1. UNCHANGED <<up, currentOp, wire, pc>>
    BY <1>6 DEF Touch, BeginRevert, EndRevert, vars, process, workers, machine
  <2> QED
    BY <2>1, SameAnswers
<1> QED
  BY <1>1, <1>2, <1>3, <1>4, <1>5, <1>6 DEF Next, IdleTimeout, Killed

(* The daemon keeps its promise to its clients: one owner at a time, one    *)
(* answer for each operation, the slot free only after the answer, and no   *)
(* answer for an operation that was cut off (service.py:1924-1965 and       *)
(* 2096-2105).                                                              *)
THEOREM SlotImplemented == Spec => ImplementsSlot
<1>1. Init => Slot!SlotInit
  <2> SUFFICES ASSUME Init PROVE Slot!SlotInit
    OBVIOUS
  <2>1. \A o \in Op : pc[o] = "new" /\ ~Completed(o)
    <3>1. \A o \in Op : pc[o] = "new" /\ wire[o] = <<>>
      BY DEF Init
    <3>2. DOMAIN << >> = {}
      OBVIOUS
    <3> QED
      BY <3>1, <3>2 DEF Completed, InWire
  <2>2. \A o \in Op : AnswerTo(o) = "none"
    BY <2>1 DEF AnswerTo, Completed
  <2> QED
    BY <2>2 DEF Init, Slot!SlotInit
<1> QED
  BY <1>1, SlotSteps, AnswersCorrect, PTL DEF Spec, ImplementsSlot, Slot!SlotSpec

-----------------------------------------------------------------------------
(* What outlives a worker.                                                  *)

(* The worker holds the descriptor between two of its steps only; a repair, *)
(* which goes from its report straight to the release, never takes one.     *)
Locking == {"mark", "snapshot", "run", "unmark", "report", "reboot", "audit", "cleanup", "uninhibit"}

Descriptors ==
  /\ \A o \in inhibited : pc[o] \in Locking /\ kind[o] # "repair"
  /\ \A o \in Op : At(o, "inhibit") => kind[o] # "repair"

LEMMA DescriptorsStep == SlotInv /\ Descriptors /\ [Next]_vars => Descriptors'
<1> SUFFICES ASSUME SlotInv, Descriptors, [Next]_vars PROVE Descriptors'
  OBVIOUS
<1> USE DEF Locking
<1>0. TypeOK
  BY DEF SlotInv
<1>1. ASSUME NEW o \in Op, NEW k \in Called, Accept(o, k)
      PROVE  Descriptors'
  BY <1>0, <1>1 DEF Accept, Descriptors, TypeOK
<1>2. ASSUME NEW o \in Op, Worker(o) \/ Progress(o)
      PROVE  Descriptors'
  <2> USE DEF process, workers, machine, history, Descriptors, TypeOK
  <2>1. CASE Hold(o)
    BY <1>0, <2>1 DEF Hold, Fix
  <2>2. CASE Start(o)
    BY <1>0, <2>2 DEF Start
  <2>3. CASE Inhibit(o)
    BY <1>0, <2>3 DEF Inhibit
  <2>4. CASE Mark(o) \/ Snapshot(o)
    BY <1>0, <2>4 DEF Mark, Snapshot
  <2>5. CASE Progress(o) \/ Transact(o)
    BY <1>0, <2>5 DEF Progress, Transact
  <2>6. CASE RunSucceeds(o) \/ RunFails(o) \/ Unmark(o)
    BY <1>0, <2>6 DEF RunSucceeds, RunFails, Unmark
  <2>7. CASE Report(o) \/ Reboot(o)
    BY <1>0, <2>7 DEF Report, AfterReport, Reboot
  <2>8. CASE Audit(o)
    BY <1>0, <2>8 DEF Audit, AfterAudit, Marking
  <2>9. CASE Cleanup(o)
    BY <1>0, <2>9 DEF Cleanup
  <2>10. CASE Uninhibit(o) \/ PostRelease(o)
    BY <1>0, <2>10 DEF Uninhibit, PostRelease
  <2> QED
    BY <1>2, <2>1, <2>2, <2>3, <2>4, <2>5, <2>6, <2>7, <2>8, <2>9, <2>10 DEF Worker
<1>3. CASE Stop
  BY <1>0, <1>3 DEF Stop, Descriptors, TypeOK, Alive, WorkerStep
<1>4. CASE Callbacks \/ Restart \/ Touch \/ BeginRevert \/ EndRevert \/ UNCHANGED vars
  <2>1. UNCHANGED <<pc, kind, inhibited>>
    BY <1>4 DEF Callbacks, RunHold, RunEmit, RunRelease, Restart, Touch, BeginRevert, EndRevert, vars, workers
  <2> QED
    BY <2>1 DEF Descriptors
<1> QED
  BY <1>1, <1>2, <1>3, <1>4 DEF Next, IdleTimeout, Killed

(* Neither a failure nor a stop leaves shutdown and sleep blocked           *)
(* (service.py:2093-2095): the descriptor is closed by the worker that took *)
(* it, or by the kernel.                                                    *)
THEOREM NoInhibitorLeakCorrect == Spec => []NoInhibitorLeak
<1>1. Init => Descriptors
  BY DEF Init, Descriptors
<1>2. SlotInv /\ Descriptors => NoInhibitorLeak
  <2> SUFFICES ASSUME SlotInv, Descriptors, NEW o \in inhibited PROVE Alive(o) /\ up
    BY DEF NoInhibitorLeak
  <2>1. o \in Op /\ Alive(o)
    BY DEF SlotInv, TypeOK, Descriptors, Alive, WorkerStep, Locking
  <2>2. inProgress
    BY <2>1, ConstantsOK DEF SlotInv, Owner
  <2> QED
    BY <2>1, <2>2 DEF SlotInv, Owner
<1> QED
  BY <1>1, <1>2, DescriptorsStep, SlotCorrect, PTL DEF Spec

(* What a stop leaves behind.  A worker that may have dpkg half-configured  *)
(* has its marker on disk; the marker goes only with that worker, and with  *)
(* a start that finds dpkg clean.  The two assumptions are the two faults   *)
(* that the code cannot survive: a marker that was never written, and a     *)
(* dpkg --audit that does not answer.                                       *)
Beginning == {"new", "unstarted", "hold", "start", "inhibit", "mark", "snapshot"}

Owed(o) == lost = o /\ kind[o] \in Marking /\ result[o] = "none" /\ brokenBy = o

MarkedFor(o) ==
  /\ At(o, "snapshot") \/ (At(o, "run") /\ kind[o] \in Marking) => marker
  /\ pc[o] \in Beginning => brokenBy # o
  /\ At(o, "unmark") /\ kind[o] = "repair" => brokenBy = NoOp
  /\ lost = o => At(o, "killed")
  /\ Owed(o) => IF up THEN startupError ELSE marker

Marked == \A o \in Op : MarkedFor(o)

MarkInv == AnswerInv /\ Marked

(* What a worker may do to dpkg and to the startup error: break dpkg itself *)
(* or mend it, and clear the error when dpkg is mended.                     *)
LEMMA WorkerMends ==
  ASSUME TypeOK, NEW o \in Op, MarkedFor(o), Worker(o) \/ Progress(o)
  PROVE  /\ brokenBy' \in {brokenBy, NoOp, o}
         /\ startupError => startupError' \/ brokenBy' = NoOp
<1> USE DEF process, workers, machine, history
<1>1. CASE Unmark(o)
  BY <1>1 DEF Unmark, MarkedFor
<1>2. CASE Transact(o) \/ RunSucceeds(o)
  BY <1>2 DEF Transact, RunSucceeds
<1>3. CASE Hold(o) \/ Start(o) \/ Inhibit(o) \/ Mark(o) \/ Snapshot(o) \/ Progress(o) \/ RunFails(o)
  BY <1>3 DEF Hold, Start, Inhibit, Mark, Snapshot, Progress, RunFails
<1>4. CASE Report(o) \/ Reboot(o) \/ Audit(o) \/ Cleanup(o) \/ Uninhibit(o) \/ PostRelease(o)
  BY <1>4 DEF Report, Reboot, Audit, Cleanup, Uninhibit, PostRelease
<1> QED
  BY <1>1, <1>2, <1>3, <1>4 DEF Worker

LEMMA WorkerMarked ==
  ASSUME MarkInv, "mark" \notin MayFail, NEW o \in Op, Worker(o) \/ Progress(o)
  PROVE  Marked'
<1> USE DEF process, workers, machine, history
<1>0. TypeOK /\ SlotInv /\ MarkedFor(o) /\ o # NoOp
  BY ConstantsOK DEF MarkInv, AnswerInv, SlotInv, Marked
<1>1. /\ Alive(o) /\ up /\ up' /\ UNCHANGED <<kind, lost>> /\ kind[o] \in Kind
      /\ \A p \in Op \ {o} : ~Alive(p) /\ pc'[p] = pc[p] /\ result'[p] = result[p]
  BY <1>0, WorkerFrame DEF SlotInv, Owner, TypeOK, Alive, WorkerStep
<1>2. lost # o
  BY <1>0, <1>1 DEF MarkedFor, Alive, WorkerStep
<1>3. ASSUME NEW p \in Op \ {o}
      PROVE  MarkedFor(p)'
  <2>1. MarkedFor(p) /\ p # NoOp
    BY ConstantsOK DEF MarkInv, Marked
  <2>2. pc'[p] = pc[p] /\ result'[p] = result[p] /\ pc[p] \notin WorkerStep
    BY <1>1 DEF Alive
  <2>3. /\ brokenBy' = p => brokenBy = p
        /\ brokenBy' = p /\ startupError => startupError'
    BY <1>0, <2>1, WorkerMends
  <2>4. pc[p] \notin {"snapshot", "run", "unmark"}
    BY <2>2 DEF WorkerStep
  <2> QED
    BY <1>1, <2>1, <2>2, <2>3, <2>4 DEF MarkedFor, Owed
<1>4. ASSUME pc'[o] = "snapshot" \/ (pc'[o] = "run" /\ kind[o] \in Marking) => marker',
             pc'[o] \in Beginning => brokenBy' # o,
             pc'[o] = "unmark" /\ kind[o] = "repair" => brokenBy' = NoOp
      PROVE  MarkedFor(o)'
  BY <1>1, <1>2, <1>4 DEF MarkedFor, Owed
<1>5. MarkedFor(o)'
  <2>1. CASE Hold(o) \/ Start(o) \/ Inhibit(o)
    <3>1. pc[o] \in Beginning /\ UNCHANGED <<brokenBy, marker>>
      BY <2>1 DEF Hold, Start, Inhibit, Beginning
    <3>2. pc'[o] # "snapshot" /\ pc'[o] # "unmark" /\ (pc'[o] = "run" => kind[o] \notin Marking)
      BY <1>0, <1>1, <2>1 DEF Hold, Start, Inhibit, TypeOK, Fix, Marking
    <3> QED
      BY <1>0, <1>4, <3>1, <3>2 DEF MarkedFor
  <2>2. CASE Mark(o)
    <3>1. marker' = TRUE /\ pc[o] = "mark" /\ pc'[o] \in {"snapshot", "run"} /\ UNCHANGED brokenBy
      BY <1>0, <2>2 DEF Mark, TypeOK
    <3> QED
      BY <1>0, <1>4, <3>1 DEF MarkedFor, Beginning
  <2>3. CASE Snapshot(o)
    BY <1>0, <1>4, <2>3 DEF Snapshot, TypeOK, Beginning, MarkedFor
  <2>4. CASE Progress(o) \/ Transact(o)
    BY <1>0, <1>4, <2>4 DEF Progress, Transact, MarkedFor, Beginning
  <2>5. CASE RunSucceeds(o)
    BY <1>0, <1>4, <2>5 DEF RunSucceeds, TypeOK, Beginning
  <2>6. CASE RunFails(o) \/ Unmark(o) \/ Cleanup(o)
    BY <1>0, <1>4, <2>6 DEF RunFails, Unmark, Cleanup, TypeOK, Beginning
  <2>7. CASE Report(o) \/ Reboot(o) \/ Audit(o) \/ Uninhibit(o) \/ PostRelease(o)
    BY <1>0, <1>4, <2>7
       DEF Report, AfterReport, Reboot, Audit, AfterAudit, Uninhibit, PostRelease, TypeOK,
           Beginning
  <2> QED
    BY <2>1, <2>2, <2>3, <2>4, <2>5, <2>6, <2>7 DEF Worker
<1> QED
  BY <1>3, <1>5 DEF Marked

LEMMA StopMarked == MarkInv /\ Stop => Marked'
<1> SUFFICES ASSUME MarkInv, Stop, NEW o \in Op PROVE MarkedFor(o)'
  BY DEF Marked
<1>0. MarkedFor(o) /\ Account(o) /\ o # NoOp
  BY ConstantsOK DEF MarkInv, AnswerInv, Accounts, Marked
<1>1. /\ ~up' /\ UNCHANGED <<kind, result, marker, brokenBy>>
      /\ pc'[o] = IF Alive(o) \/ pc[o] = "unstarted" THEN "killed" ELSE pc[o]
      /\ lost' = o => Alive(o)
  BY <1>0 DEF Stop, machine
<1>2. ASSUME Owed(o)'
      PROVE  marker'
  <2>1. /\ Alive(o) /\ kind[o] \in Marking /\ result[o] = "none" /\ brokenBy = o
    BY <1>1, <1>2 DEF Owed
  <2>2. pc[o] \notin Decided /\ pc[o] \notin Beginning
    BY <1>0, <2>1 DEF Account, MarkedFor
  <2>3. At(o, "run")
    BY <2>1, <2>2 DEF Alive, WorkerStep, Decided, Reported, Beginning
  <2> QED
    BY <1>0, <1>1, <2>1, <2>3 DEF MarkedFor
<1>3. pc'[o] \notin WorkerStep /\ (lost' = o => pc'[o] = "killed")
      /\ (pc'[o] \in Beginning => pc[o] \in Beginning)
  BY <1>1 DEF Alive, WorkerStep, Beginning
<1> QED
  BY <1>0, <1>1, <1>2, <1>3 DEF MarkedFor, WorkerStep

LEMMA RestartMarked ==
  ASSUME MarkInv, "probe" \notin MayFail, Restart
  PROVE  Marked'
<1> SUFFICES ASSUME NEW o \in Op PROVE MarkedFor(o)'
  BY DEF Marked
<1>0. MarkedFor(o) /\ SlotInv /\ o # NoOp
  BY ConstantsOK DEF MarkInv, AnswerInv, Marked
<1>1. /\ ~up /\ up' /\ UNCHANGED <<pc, kind, result, brokenBy, lost>>
      /\ marker /\ brokenBy # NoOp => startupError'
  BY DEF Restart, workers, history
<1>2. pc[o] \notin WorkerStep
  BY <1>0, <1>1 DEF SlotInv, Owner, Alive
<1> QED
  BY <1>0, <1>1, <1>2 DEF MarkedFor, Owed, WorkerStep

LEMMA MarkedStep ==
  ASSUME "mark" \notin MayFail, "probe" \notin MayFail, MarkInv, [Next]_vars
  PROVE  Marked'
<1>0. TypeOK /\ Marked
  BY DEF MarkInv, AnswerInv, SlotInv
<1>1. ASSUME NEW o \in Op, NEW k \in Called, Accept(o, k), NEW p \in Op
      PROVE  MarkedFor(p)'
  <2>0. MarkedFor(p)
    BY <1>0 DEF Marked
  <2>1. /\ UNCHANGED <<up, startupError, marker, brokenBy, result, lost>> /\ pc[o] = "new"
        /\ pc'[o] \in {"hold", "unstarted"} /\ (p # o => pc'[p] = pc[p] /\ kind'[p] = kind[p])
    BY <1>0, <1>1 DEF Accept, TypeOK, history
  <2>2. CASE p # o
    BY <2>0, <2>1, <2>2 DEF MarkedFor, Owed
  <2>3. CASE p = o
    BY <2>0, <2>1, <2>3 DEF MarkedFor, Owed, Beginning
  <2> QED
    BY <2>2, <2>3
<1>2. CASE Callbacks \/ Touch \/ BeginRevert \/ EndRevert \/ UNCHANGED vars
  <2>1. UNCHANGED <<up, startupError, marker, brokenBy, pc, kind, result, lost>>
    BY <1>2 DEF Callbacks, RunHold, RunEmit, RunRelease, Touch, BeginRevert, EndRevert, vars,
                process, workers, machine, history
  <2> QED
    BY <1>0, <2>1 DEF Marked, MarkedFor, Owed
<1> QED
  BY <1>1, <1>2, WorkerMarked, StopMarked, RestartMarked DEF Next, IdleTimeout, Killed, Marked

(* An install or a rollback cut off with dpkg half-configured is known to   *)
(* the next daemon (main.py and service.py:2299-2312), whatever operation   *)
(* ran before it and whatever runs after: if the marker could be written    *)
(* and dpkg --audit answers.                                                *)
THEOREM InterruptionReportedCorrect ==
  ASSUME "mark" \notin MayFail, "probe" \notin MayFail
  PROVE  Spec => []InterruptionReported
<1>1. Init => Marked
  BY ConstantsOK DEF Init, Marked, MarkedFor, Owed
<1>2. MarkInv /\ [Next]_vars => MarkInv'
  BY AnswerStep, MarkedStep DEF MarkInv
<1>3. MarkInv => InterruptionReported
  BY DEF MarkInv, Marked, MarkedFor, Owed, InterruptionReported
<1> QED
  BY <1>1, <1>2, <1>3, AnswerInit, PTL DEF Spec, MarkInv

=============================================================================
