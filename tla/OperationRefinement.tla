------------------------ MODULE OperationRefinement ------------------------
(***************************************************************************)
(* The daemon implements OperationSlot: it is alive while its loop runs, the *)
(* owner is _current_op_id, and the answer to an operation is what the bus   *)
(* has carried of it.                                                        *)
(***************************************************************************)
EXTENDS OperationService

AnswerTo(o) ==
  CASE InWire(o, "ok")                                  -> "ok"
    [] InWire(o, "failed") /\ ~InWire(o, "ok")          -> "failed"
    [] ~Completed(o) /\ At(o, "new")                    -> "none"
    [] ~Completed(o) /\ ~At(o, "new") /\ currentOp = o  -> "pending"
    [] OTHER                                            -> "lost"

Slot == INSTANCE OperationSlot
          WITH alive <- up, owner <- currentOp, answer <- [o \in Op |-> AnswerTo(o)]

(* Whatever the worker, the idle queue and the stops do to each other, a     *)
(* client sees one owner at a time, one answer per operation, and a slot     *)
(* that is free only after the answer or after a stop.                       *)
ImplementsSlot == Slot!SlotSpec

=============================================================================
