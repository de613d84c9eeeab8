---------------------------- MODULE RateLimiter ----------------------------
(***************************************************************************)
(* The daemon's rate limiter (rate_limiter.py): a table of callers, each    *)
(* with a read and a write token bucket that are topped up lazily, when a   *)
(* call comes, and a timer that forgets the callers that have been quiet.   *)
(*                                                                         *)
(* Time is counted in ticks and tokens in units of which a bucket gains one *)
(* per tick.  With a tick of 1/3 s the code's numbers are: reads 30 units,  *)
(* 1 a call (30 tokens, 3/s); writes 180 units, 36 a call (5 tokens, 1 in   *)
(* 12 s); stale after 900 ticks; cleanup every 180.  The code computes in    *)
(* floating point; its rounding is not modelled.                            *)
(***************************************************************************)
EXTENDS Naturals

CONSTANTS
  Caller,        \* D-Bus unique names
  Capacity,      \* units of a full bucket, by kind
  Cost,          \* units of one call, by kind
  StaleTicks,    \* _STALE_TIMEOUT
  CleanupTicks,  \* interval of _cleanup_rate_limiter
  Watched,       \* the callers over which an observer may open its window
  MaxNow         \* bound on the clock, for model checking

BucketKind == {"read", "write"}

ASSUME LimiterConstants ==
  /\ Capacity \in [BucketKind -> Nat]
  /\ Cost \in [BucketKind -> Nat \ {0}]
  /\ \A b \in BucketKind : Cost[b] <= Capacity[b] /\ Capacity[b] <= StaleTicks
  /\ Watched \subseteq Caller
  /\ StaleTicks \in Nat /\ CleanupTicks \in Nat /\ MaxNow \in Nat

VARIABLES
  now,        \* time.monotonic()
  callers,    \* _callers: a function on the callers that have an entry
  cleaned,    \* when the cleanup timer last fired
  verdict,    \* the last answer of check, as in TokenBucket
  watch       \* history: a window opened at an arbitrary moment over one
              \* bucket of one caller, and what was spent from it since

limiter     == <<callers, cleaned, verdict>>
limiterVars == <<now, limiter, watch>>

CallerState ==
  [tokens : [BucketKind -> Nat], refilled : [BucketKind -> Nat], active : Nat]

Watch == [caller : Caller, bucket : BucketKind, from : Nat, spent : Nat]

TypeOK ==
  /\ now \in Nat
  /\ DOMAIN callers \subseteq Caller
  /\ \A c \in DOMAIN callers :
       /\ callers[c] \in CallerState
       /\ callers[c].active <= now
       /\ \A b \in BucketKind : /\ callers[c].tokens[b] <= Capacity[b]
                                /\ callers[c].refilled[b] <= callers[c].active
  /\ cleaned \in Nat /\ cleaned <= now
  /\ verdict \in [caller : Caller, bucket : BucketKind, ok : BOOLEAN] \cup {<<>>}
  /\ watch \in Watch \cup {<<>>}
  /\ watch # <<>> => watch.from <= now

LimiterInit ==
  /\ now = 0 /\ cleaned = 0
  /\ callers = [c \in {} |-> 0]
  /\ verdict = <<>> /\ watch = <<>>

Least(m, n) == IF m <= n THEN m ELSE n

(* _get_or_create: a caller without an entry starts with full buckets       *)
Fresh == [tokens |-> Capacity, refilled |-> [b \in BucketKind |-> now], active |-> now]

EntryOf(c) == IF c \in DOMAIN callers THEN callers[c] ELSE Fresh

(* Mutant: no cap on what a quiet caller saves up.                          *)
RefillUncapped(e, b) == e.tokens[b] + (now - e.refilled[b])

(* min(capacity, tokens + elapsed * refill_rate)                            *)
Refill(e, b) == Least(Capacity[b], e.tokens[b] + (now - e.refilled[b]))

(* Mutant: both buckets share one refill time.                              *)
ChargedShared(e, b, left) ==
  [tokens   |-> [e.tokens EXCEPT ![b] = left],
   refilled |-> [k \in BucketKind |-> now],
   active   |-> now]

Charged(e, b, left) ==
  [tokens   |-> [e.tokens EXCEPT ![b] = left],
   refilled |-> [e.refilled EXCEPT ![b] = now],
   active   |-> now]

(* check(sender, method), for a method whose bucket is b: write for the     *)
(* members of WRITE_METHODS, read for every other method                    *)
Check(c, b) ==
  LET e  == EntryOf(c)
      n  == Refill(e, b)
      ok == n >= Cost[b]
  IN  /\ callers' = [x \in DOMAIN callers \cup {c} |->
                       IF x = c THEN Charged(e, b, IF ok THEN n - Cost[b] ELSE n)
                       ELSE callers[x]]
      /\ verdict' = [caller |-> c, bucket |-> b, ok |-> ok]
      /\ watch' = IF ok /\ watch # <<>> /\ watch.caller = c /\ watch.bucket = b
                  THEN [watch EXCEPT !.spent = @ + Cost[b]] ELSE watch
      /\ UNCHANGED <<now, cleaned>>

(* Mutant: staleness measured against the timer's own interval.             *)
StaleByInterval(c) == now - callers[c].active > CleanupTicks

Stale(c) == now - callers[c].active > StaleTicks

(* cleanup_stale, from the timer, which may fire late but never early       *)
Cleanup ==
  /\ now - cleaned >= CleanupTicks
  /\ callers' = [c \in {x \in DOMAIN callers : ~Stale(x)} |-> callers[c]]
  /\ cleaned' = now
  /\ UNCHANGED <<now, verdict, watch>>

Tick ==
  /\ now < MaxNow
  /\ now' = now + 1
  /\ UNCHANGED <<limiter, watch>>

(* The observer opens its window, once, whenever it likes.                  *)
Open(c, b) ==
  /\ watch = <<>> /\ c \in Watched
  /\ watch' = [caller |-> c, bucket |-> b, from |-> now, spent |-> 0]
  /\ UNCHANGED <<now, limiter>>

LimiterNext ==
  \/ \E c \in Caller, b \in BucketKind : Check(c, b) \/ Open(c, b)
  \/ Cleanup
  \/ Tick

LimiterSpec == LimiterInit /\ [][LimiterNext]_limiterVars

-----------------------------------------------------------------------------
(* Properties that hold.                                                    *)

(* In any window of time, wherever it starts, a caller is granted no more   *)
(* than a full bucket and what flows in meanwhile: neither forgetting and   *)
(* re-creating its entry nor topping up lazily gives it a call for free.    *)
WindowBound == watch # <<>> => watch.spent <= Capacity[watch.bucket] + (now - watch.from)

(* What a bucket holds, whether or not the table has been brought up to     *)
(* date, and whether or not the caller has been forgotten.                  *)
Level(c, b) == IF c \in DOMAIN callers THEN Refill(callers[c], b) ELSE Capacity[b]

Bucket == INSTANCE TokenBucket
            WITH level <- [c \in Caller |-> [b \in BucketKind |-> Level(c, b)]]

(* The table with its lazy refills and its cleanup is one full-time bucket  *)
(* per caller and kind: the cleanup is invisible, callers do not disturb    *)
(* each other, reads do not cost writes, and a refused call costs nothing.  *)
ImplementsBuckets == Bucket!BucketSpec

=============================================================================
