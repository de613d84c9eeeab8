--------------------------- MODULE OperationSlot ---------------------------
(***************************************************************************)
(* What the daemon promises the clients that start operations, without     *)
(* threads, callbacks or files: one operation at a time owns the slot, it  *)
(* is answered once, the slot of a running daemon is free again only after *)
(* the answer, and an operation that the daemon did not live to answer is  *)
(* never answered.                                                         *)
(***************************************************************************)
CONSTANTS
  Op,    \* operation ids
  NoOp   \* nobody owns the slot

VARIABLES
  alive,   \* the daemon is on the bus
  owner,   \* the operation that owns the slot, or NoOp
  answer   \* per operation: "none" before it is accepted, "pending",
           \* "ok" or "failed" once OperationComplete is out, or "lost"

slotVars == <<alive, owner, answer>>

SlotInit ==
  /\ alive \in BOOLEAN
  /\ owner = NoOp
  /\ answer = [o \in Op |-> "none"]

SlotAccept(o) ==
  /\ alive /\ owner = NoOp /\ answer[o] = "none"
  /\ owner' = o
  /\ answer' = [answer EXCEPT ![o] = "pending"]
  /\ UNCHANGED alive

SlotAnswer(r) ==
  /\ alive /\ owner # NoOp /\ answer[owner] = "pending"
  /\ answer' = [answer EXCEPT ![owner] = r]
  /\ UNCHANGED <<alive, owner>>

SlotFree ==
  /\ alive /\ owner # NoOp /\ answer[owner] \in {"ok", "failed"}
  /\ owner' = NoOp
  /\ UNCHANGED <<alive, answer>>

(* The daemon stops: its clients see the name leave the bus.               *)
SlotStop ==
  /\ alive
  /\ alive' = FALSE
  /\ owner' = NoOp
  /\ answer' = IF owner # NoOp /\ answer[owner] = "pending"
               THEN [answer EXCEPT ![owner] = "lost"] ELSE answer

SlotStart ==
  /\ ~alive
  /\ alive' = TRUE
  /\ UNCHANGED <<owner, answer>>

SlotNext ==
  \/ \E o \in Op : SlotAccept(o)
  \/ \E r \in {"ok", "failed"} : SlotAnswer(r)
  \/ SlotFree \/ SlotStop \/ SlotStart

SlotSpec == SlotInit /\ [][SlotNext]_slotVars

=============================================================================
