---------------------------- MODULE TokenBucket ----------------------------
(***************************************************************************)
(* What the rate limiter promises: every caller has a bucket of reads and  *)
(* a bucket of writes that fill with time, up to a capacity, and that      *)
(* nothing else but the caller's own granted calls empties.  The units are *)
(* chosen so that every bucket gains one unit in a tick of the clock.      *)
(***************************************************************************)
EXTENDS Naturals

CONSTANTS
  Caller,     \* unique bus names
  Capacity,   \* [read |-> units a full bucket holds, write |-> ...]
  Cost        \* [read |-> units of a call, write |-> ...]

VARIABLES
  level,      \* per caller and bucket: the units in it
  verdict     \* the last answer: [caller, bucket, ok], or <<>> at the start

bucketVars == <<level, verdict>>

BucketKind == {"read", "write"}

BucketInit ==
  /\ level = [c \in Caller |-> Capacity]
  /\ verdict = <<>>

Fill ==
  /\ level' = [c \in Caller |-> [b \in BucketKind |->
                 IF level[c][b] < Capacity[b] THEN level[c][b] + 1 ELSE Capacity[b]]]
  /\ UNCHANGED verdict

Call(c, b) ==
  LET ok == level[c][b] >= Cost[b]
  IN  /\ level' = IF ok THEN [level EXCEPT ![c][b] = @ - Cost[b]] ELSE level
      /\ verdict' = [caller |-> c, bucket |-> b, ok |-> ok]

BucketNext == Fill \/ \E c \in Caller, b \in BucketKind : Call(c, b)

BucketSpec == BucketInit /\ [][BucketNext]_bucketVars

=============================================================================
