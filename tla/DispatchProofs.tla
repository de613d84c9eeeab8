--------------------------- MODULE DispatchProofs ---------------------------
(***************************************************************************)
(* Proofs about what every call on the bus passes: the rate limiter, for    *)
(* any callers, any bucket sizes and prices, and any stale time in which a  *)
(* bucket fills; and the dispatcher, for any number of calls and failures.  *)
(***************************************************************************)
EXTENDS Dispatch, RateLimiter, FiniteSetTheorems, TLAPS

-----------------------------------------------------------------------------
(* The rate limiter.                                                       *)

(* What a well-formed entry holds now.                                      *)
LEMMA RefillRange ==
  ASSUME TypeOK, NEW c \in DOMAIN callers, NEW b \in BucketKind
  PROVE  /\ Refill(callers[c], b) \in Nat
         /\ Refill(callers[c], b) <= Capacity[b]
         /\ Capacity[b] \in Nat /\ Cost[b] \in Nat \ {0}
<1>1. /\ callers[c].tokens[b] \in Nat /\ callers[c].refilled[b] \in Nat
      /\ callers[c].refilled[b] <= now /\ now \in Nat
  BY DEF TypeOK, CallerState
<1>2. Capacity[b] \in Nat /\ Cost[b] \in Nat \ {0}
  BY LimiterConstants
<1> QED
  BY <1>1, <1>2 DEF Refill, Least

(* An entry made on the spot is as full as one made long ago.               *)
LEMMA EntryLevel ==
  ASSUME TypeOK, NEW c \in Caller, NEW b \in BucketKind
  PROVE  /\ EntryOf(c) \in CallerState
         /\ EntryOf(c).refilled[b] <= now
         /\ EntryOf(c).tokens[b] <= Capacity[b]
         /\ Refill(EntryOf(c), b) = Level(c, b)
         /\ Level(c, b) \in Nat /\ Level(c, b) <= Capacity[b]
         /\ Capacity[b] \in Nat /\ Cost[b] \in Nat \ {0}
<1>0. Capacity \in [BucketKind -> Nat] /\ Capacity[b] \in Nat /\ Cost[b] \in Nat \ {0}
      /\ now \in Nat
  BY LimiterConstants DEF TypeOK
<1>1. CASE c \in DOMAIN callers
  <2>1. EntryOf(c) = callers[c] /\ Level(c, b) = Refill(callers[c], b)
    BY <1>1 DEF EntryOf, Level
  <2>2. /\ callers[c] \in CallerState /\ callers[c].refilled[b] <= callers[c].active
        /\ callers[c].active <= now /\ callers[c].tokens[b] <= Capacity[b]
    BY <1>1 DEF TypeOK
  <2>3. callers[c].refilled[b] \in Nat /\ callers[c].active \in Nat
    BY <2>2 DEF CallerState
  <2> QED
    BY <1>0, <1>1, <2>1, <2>2, <2>3, RefillRange
<1>2. CASE c \notin DOMAIN callers
  <2>1. EntryOf(c) = Fresh /\ Level(c, b) = Capacity[b]
    BY <1>2 DEF EntryOf, Level
  <2>2. Fresh \in CallerState /\ Fresh.tokens[b] = Capacity[b] /\ Fresh.refilled[b] = now
    BY <1>0 DEF Fresh, CallerState
  <2>3. Refill(Fresh, b) = Capacity[b]
    BY <1>0, <2>2 DEF Refill, Least
  <2> QED
    BY <1>0, <2>1, <2>2, <2>3
<1> QED
  BY <1>1, <1>2

(* What check does to the entry of the caller.                              *)
LEMMA CheckEntry ==
  ASSUME TypeOK, NEW c \in Caller, NEW b \in BucketKind, Check(c, b)
  PROVE  LET n  == Level(c, b)
             ok == n >= Cost[b]
         IN  /\ DOMAIN callers' = DOMAIN callers \cup {c}
             /\ callers'[c] = Charged(EntryOf(c), b, IF ok THEN n - Cost[b] ELSE n)
             /\ \A x \in DOMAIN callers \ {c} : callers'[x] = callers[x]
             /\ UNCHANGED <<now, cleaned>>
  BY EntryLevel DEF Check

LEMMA ChargedType ==
  ASSUME TypeOK, NEW c \in Caller, NEW b \in BucketKind, NEW left \in Nat,
         left <= Capacity[b]
  PROVE  LET e == Charged(EntryOf(c), b, left)
         IN  /\ e \in CallerState /\ e.active = now
             /\ e.tokens[b] = left /\ e.refilled[b] = now
             /\ \A k \in BucketKind : e.tokens[k] <= Capacity[k] /\ e.refilled[k] <= now
             /\ \A k \in BucketKind \ {b} : /\ e.tokens[k] = EntryOf(c).tokens[k]
                                            /\ e.refilled[k] = EntryOf(c).refilled[k]
<1>1. /\ EntryOf(c) \in CallerState /\ now \in Nat
      /\ \A k \in BucketKind : EntryOf(c).refilled[k] <= now
                               /\ EntryOf(c).tokens[k] <= Capacity[k]
  BY EntryLevel DEF TypeOK
<1> QED
  BY <1>1 DEF Charged, CallerState

LEMMA LimiterTypeInit == LimiterInit => TypeOK
  BY DEF LimiterInit, TypeOK

LEMMA LimiterTypeStep == TypeOK /\ [LimiterNext]_limiterVars => TypeOK'
<1> SUFFICES ASSUME TypeOK, [LimiterNext]_limiterVars PROVE TypeOK'
  OBVIOUS
<1>1. ASSUME NEW c \in Caller, NEW b \in BucketKind, Check(c, b)
      PROVE  TypeOK'
  <2> DEFINE n    == Level(c, b)
             left == IF n >= Cost[b] THEN n - Cost[b] ELSE n
  <2>1. n \in Nat /\ n <= Capacity[b] /\ Capacity[b] \in Nat /\ Cost[b] \in Nat \ {0}
    BY EntryLevel
  <2>2. left \in Nat /\ left <= Capacity[b]
    BY <2>1
  <2>3. /\ DOMAIN callers' = DOMAIN callers \cup {c}
        /\ callers'[c] = Charged(EntryOf(c), b, left)
        /\ \A x \in DOMAIN callers \ {c} : callers'[x] = callers[x]
        /\ UNCHANGED <<now, cleaned>>
    BY <1>1, CheckEntry
  <2> HIDE DEF left
  <2>4. \A x \in DOMAIN callers' :
          /\ callers'[x] \in CallerState /\ callers'[x].active <= now
          /\ \A k \in BucketKind : /\ callers'[x].tokens[k] <= Capacity[k]
                                   /\ callers'[x].refilled[k] <= callers'[x].active
    <3>1. now \in Nat
      BY DEF TypeOK
    <3> QED
      BY <2>2, <2>3, <3>1, ChargedType DEF TypeOK
  <2>5. watch' \in Watch \cup {<<>>} /\ (watch' # <<>> => watch'.from <= now)
    <3>1. watch' = watch \/ (watch # <<>> /\ watch' = [watch EXCEPT !.spent = @ + Cost[b]])
      BY <1>1 DEF Check
    <3>2. watch # <<>> => watch \in Watch /\ watch.from <= now
      BY DEF TypeOK
    <3>3. \A w \in Watch : /\ [w EXCEPT !.spent = @ + Cost[b]] \in Watch
                           /\ [w EXCEPT !.spent = @ + Cost[b]].from = w.from
      BY <2>1 DEF Watch
    <3> QED
      BY <3>1, <3>2, <3>3 DEF TypeOK
  <2>6. verdict' \in [caller : Caller, bucket : BucketKind, ok : BOOLEAN]
    BY <1>1 DEF Check
  <2> QED
    BY <2>3, <2>4, <2>5, <2>6 DEF TypeOK
<1>2. ASSUME NEW c \in Caller, NEW b \in BucketKind, Open(c, b)
      PROVE  TypeOK'
  BY <1>2 DEF Open, limiter, TypeOK, Watch
<1>3. CASE Cleanup
  BY <1>3 DEF Cleanup, TypeOK
<1>4. CASE Tick
  <2>1. now \in Nat /\ now' = now + 1 /\ UNCHANGED <<callers, cleaned, verdict, watch>>
    BY <1>4 DEF Tick, TypeOK, limiter
  <2>2. \A c \in DOMAIN callers : callers[c].active \in Nat
    BY DEF TypeOK, CallerState
  <2>3. watch # <<>> => watch.from \in Nat
    BY DEF TypeOK, Watch
  <2> QED
    BY <2>1, <2>2, <2>3 DEF TypeOK
<1>5. CASE UNCHANGED limiterVars
  BY <1>5 DEF limiterVars, limiter, TypeOK
<1> QED
  BY <1>1, <1>2, <1>3, <1>4, <1>5 DEF LimiterNext

(* Every variable keeps to its range, no bucket is over-full, and no entry  *)
(* is dated in the future.                                                 *)
THEOREM LimiterTypeCorrect == LimiterSpec => []TypeOK
  BY LimiterTypeInit, LimiterTypeStep, PTL DEF LimiterSpec

-----------------------------------------------------------------------------
(* How the steps move the level of a bucket.                               *)

LEMMA CheckLevel ==
  ASSUME TypeOK, TypeOK', NEW c \in Caller, NEW b \in BucketKind, Check(c, b),
         NEW x \in Caller, NEW k \in BucketKind
  PROVE  Level(x, k)' = IF x = c /\ k = b /\ Level(c, b) >= Cost[b]
                        THEN Level(c, b) - Cost[b] ELSE Level(x, k)
<1> DEFINE n    == Level(c, b)
           left == IF n >= Cost[b] THEN n - Cost[b] ELSE n
<1>1. n \in Nat /\ n <= Capacity[b] /\ Capacity[b] \in Nat /\ Cost[b] \in Nat \ {0}
      /\ now \in Nat
  BY EntryLevel DEF TypeOK
<1>2. left \in Nat /\ left <= Capacity[b]
  BY <1>1
<1>3. /\ DOMAIN callers' = DOMAIN callers \cup {c}
      /\ callers'[c] = Charged(EntryOf(c), b, left)
      /\ \A y \in DOMAIN callers \ {c} : callers'[y] = callers[y]
      /\ now' = now
  BY CheckEntry
<1> HIDE DEF left
<1>4. CASE x # c
  <2>1. Level(x, k)' = IF x \in DOMAIN callers THEN Refill(callers[x], k)' ELSE Capacity[k]
    BY <1>3, <1>4 DEF Level
  <2>2. x \in DOMAIN callers => Refill(callers[x], k)' = Refill(callers[x], k)
    BY <1>3, <1>4 DEF Refill
  <2> QED
    BY <1>4, <2>1, <2>2 DEF Level
<1>5. CASE x = c /\ k # b
  <2>1. Level(x, k)' = Refill(Charged(EntryOf(c), b, left), k)
    BY <1>3, <1>5 DEF Level, Refill
  <2>2. Refill(Charged(EntryOf(c), b, left), k) = Refill(EntryOf(c), k)
    BY <1>2, <1>5, ChargedType DEF Refill
  <2> QED
    BY <1>5, <2>1, <2>2, EntryLevel
<1>6. CASE x = c /\ k = b
  <2>1. Level(x, k)' = Refill(Charged(EntryOf(c), b, left), b)
    BY <1>3, <1>6 DEF Level, Refill
  <2>2. /\ Charged(EntryOf(c), b, left).tokens[b] = left
        /\ Charged(EntryOf(c), b, left).refilled[b] = now
    BY <1>2, ChargedType
  <2>3. Refill(Charged(EntryOf(c), b, left), b) = left
    BY <1>1, <1>2, <2>2 DEF Refill, Least
  <2> QED
    BY <1>6, <2>1, <2>3 DEF left
<1> QED
  BY <1>4, <1>5, <1>6

(* Forgetting a caller that has been quiet for as long as a bucket takes to *)
(* fill changes no level.                                                   *)
LEMMA CleanupLevel ==
  ASSUME TypeOK, Cleanup, NEW x \in Caller, NEW k \in BucketKind
  PROVE  Level(x, k)' = Level(x, k)
<1>1. /\ DOMAIN callers' = {c \in DOMAIN callers : ~Stale(c)}
      /\ \A c \in DOMAIN callers' : callers'[c] = callers[c]
      /\ now' = now
  BY DEF Cleanup
<1>2. CASE x \in DOMAIN callers'
  BY <1>1, <1>2 DEF Level, Refill
<1>3. CASE x \notin DOMAIN callers
  BY <1>1, <1>3 DEF Level
<1>4. CASE x \in DOMAIN callers /\ Stale(x)
  <2>1. /\ callers[x].tokens[k] \in Nat /\ callers[x].refilled[k] \in Nat
        /\ callers[x].active \in Nat /\ now \in Nat
        /\ callers[x].refilled[k] <= callers[x].active /\ callers[x].active <= now
    BY <1>4 DEF TypeOK, CallerState
  <2>2. Capacity[k] \in Nat /\ StaleTicks \in Nat /\ Capacity[k] <= StaleTicks
    BY LimiterConstants
  <2>3. Refill(callers[x], k) = Capacity[k]
    BY <1>4, <2>1, <2>2 DEF Refill, Least, Stale
  <2> QED
    BY <1>1, <1>4, <2>3 DEF Level
<1> QED
  BY <1>1, <1>2, <1>3, <1>4

LEMMA TickLevel ==
  ASSUME TypeOK, Tick, NEW x \in Caller, NEW k \in BucketKind
  PROVE  Level(x, k)' = IF Level(x, k) < Capacity[k] THEN Level(x, k) + 1 ELSE Capacity[k]
<1>1. now \in Nat /\ now' = now + 1 /\ callers' = callers /\ Capacity[k] \in Nat
  BY LimiterConstants DEF TypeOK, Tick, limiter
<1>2. CASE x \in DOMAIN callers
  <2>1. /\ callers[x].tokens[k] \in Nat /\ callers[x].refilled[k] \in Nat
        /\ callers[x].active \in Nat /\ callers[x].refilled[k] <= now
    BY <1>1, <1>2 DEF TypeOK, CallerState
  <2> QED
    BY <1>1, <1>2, <2>1 DEF Level, Refill, Least
<1>3. CASE x \notin DOMAIN callers
  BY <1>1, <1>3 DEF Level
<1> QED
  BY <1>2, <1>3

-----------------------------------------------------------------------------
(* WindowBound is not inductive: what is left in the bucket counts too.     *)
Budget ==
  \A x \in Caller, k \in BucketKind :
    watch # <<>> /\ watch.caller = x /\ watch.bucket = k
      => watch.spent + Level(x, k) <= Capacity[k] + (now - watch.from)

LEMMA BudgetStep == TypeOK /\ Budget /\ [LimiterNext]_limiterVars => Budget'
<1> SUFFICES ASSUME TypeOK, Budget, [LimiterNext]_limiterVars, NEW x \in Caller, NEW k \in BucketKind,
                    watch' # <<>>, watch'.caller = x, watch'.bucket = k
             PROVE  watch'.spent + Level(x, k)' <= Capacity[k] + (now' - watch'.from)
  BY DEF Budget
<1>1. TypeOK'
  BY LimiterTypeStep
<1>2. /\ now \in Nat /\ Level(x, k) \in Nat /\ Capacity[k] \in Nat
      /\ Level(x, k) <= Capacity[k] /\ Cost[k] \in Nat
  BY EntryLevel DEF TypeOK
<1>3. watch # <<>> => watch \in Watch /\ watch.spent \in Nat /\ watch.from \in Nat
  BY DEF TypeOK, Watch
<1>4. ASSUME watch # <<>>, watch.caller = x, watch.bucket = k
      PROVE  watch.spent + Level(x, k) <= Capacity[k] + (now - watch.from)
  BY <1>4 DEF Budget
<1>5. ASSUME NEW c \in Caller, NEW b \in BucketKind, Check(c, b)
      PROVE  watch'.spent + Level(x, k)' <= Capacity[k] + (now' - watch'.from)
  <2> DEFINE hit == Level(x, k) >= Cost[k] /\ x = c /\ k = b
  <2>1. /\ watch # <<>> /\ now' = now
        /\ watch' = IF Level(c, b) >= Cost[b] /\ watch.caller = c /\ watch.bucket = b
                    THEN [watch EXCEPT !.spent = @ + Cost[b]] ELSE watch
    BY <1>5, EntryLevel DEF Check
  <2>2. /\ watch.caller = x /\ watch.bucket = k /\ watch'.from = watch.from
        /\ watch'.spent = IF hit THEN watch.spent + Cost[k] ELSE watch.spent
    BY <1>3, <2>1 DEF Watch
  <2>3. Level(x, k)' = IF hit THEN Level(x, k) - Cost[k] ELSE Level(x, k)
    BY <1>1, <1>5, CheckLevel
  <2> QED
    BY <1>2, <1>3, <1>4, <2>1, <2>2, <2>3
<1>6. ASSUME NEW c \in Caller, NEW b \in BucketKind, Open(c, b)
      PROVE  watch'.spent + Level(x, k)' <= Capacity[k] + (now' - watch'.from)
  <2>1. watch'.from = now /\ watch'.spent = 0 /\ now' = now
    BY <1>6 DEF Open
  <2>2. Level(x, k)' = Level(x, k)
    BY <1>6 DEF Open, limiter, Level, Refill
  <2> QED
    BY <1>2, <2>1, <2>2
<1>7. CASE Cleanup
  BY <1>4, <1>7, CleanupLevel DEF Cleanup
<1>8. CASE Tick
  <2>1. watch' = watch /\ now' = now + 1
    BY <1>8 DEF Tick
  <2>2. Level(x, k)' = IF Level(x, k) < Capacity[k] THEN Level(x, k) + 1 ELSE Capacity[k]
    BY <1>8, TickLevel
  <2>3. Level(x, k)' \in Nat /\ Level(x, k)' <= Level(x, k) + 1
    BY <1>2, <2>2
  <2>4. /\ watch.spent \in Nat /\ watch.from \in Nat
        /\ watch.spent + Level(x, k) <= Capacity[k] + (now - watch.from)
    BY <1>3, <1>4, <2>1
  <2>5. watch.spent + Level(x, k)' <= Capacity[k] + ((now + 1) - watch.from)
    <3>1. \A s, f, l, m, n, cap \in Nat :
            m <= l + 1 /\ s + l <= cap + (n - f) => s + m <= cap + ((n + 1) - f)
      OBVIOUS
    <3> QED
      BY <1>2, <2>3, <2>4, <3>1
  <2> QED
    BY <2>1, <2>5
<1>9. CASE UNCHANGED limiterVars
  BY <1>4, <1>9 DEF limiterVars, limiter, Level, Refill
<1> QED
  BY <1>5, <1>6, <1>7, <1>8, <1>9 DEF LimiterNext

(* No window of time, wherever it starts, grants a caller more than a full  *)
(* bucket and what flows in meanwhile.                                      *)
THEOREM WindowBoundCorrect == LimiterSpec => []WindowBound
<1>1. LimiterInit => Budget
  BY DEF LimiterInit, Budget
<1>2. TypeOK /\ Budget => WindowBound
  <2> SUFFICES ASSUME TypeOK, Budget, watch # <<>>
               PROVE  watch.spent <= Capacity[watch.bucket] + (now - watch.from)
    BY DEF WindowBound
  <2> DEFINE x == watch.caller
             k == watch.bucket
  <2>1. x \in Caller /\ k \in BucketKind /\ watch.spent \in Nat /\ watch.from \in Nat
        /\ now \in Nat
    BY DEF TypeOK, Watch
  <2>2. watch.spent + Level(x, k) <= Capacity[k] + (now - watch.from)
    BY <2>1 DEF Budget
  <2>3. Level(x, k) \in Nat /\ Capacity[k] \in Nat
    BY <2>1, EntryLevel
  <2> QED
    BY <2>1, <2>2, <2>3
<1>3. LimiterSpec => []Budget
  BY <1>1, BudgetStep, LimiterTypeCorrect, PTL DEF LimiterSpec
<1> QED
  BY <1>2, <1>3, LimiterTypeCorrect, PTL

-----------------------------------------------------------------------------
(* The table with its lazy refills and its cleanup is one bucket per caller *)
(* and kind that is always there and always up to date.                     *)
THEOREM BucketsImplemented == LimiterSpec => ImplementsBuckets
<1> DEFINE levels == [x \in Caller |-> [k \in BucketKind |-> Level(x, k)]]
<1>1. LimiterInit => Bucket!BucketInit
  <2> SUFFICES ASSUME LimiterInit PROVE Bucket!BucketInit
    OBVIOUS
  <2>1. \A x \in Caller, k \in BucketKind : Level(x, k) = Capacity[k]
    BY DEF LimiterInit, Level
  <2>2. \A x \in Caller : [k \in BucketKind |-> Level(x, k)] = Capacity
    BY <2>1, LimiterConstants
  <2> QED
    BY <2>2 DEF Bucket!BucketInit, LimiterInit
<1>2. TypeOK /\ [LimiterNext]_limiterVars => [Bucket!BucketNext]_(Bucket!bucketVars)
  <2> SUFFICES ASSUME TypeOK, [LimiterNext]_limiterVars
               PROVE  Bucket!BucketNext \/ UNCHANGED <<levels, verdict>>
    BY DEF Bucket!bucketVars
  <2>0. TypeOK'
    BY LimiterTypeStep
  <2>1. ASSUME NEW c \in Caller, NEW b \in BucketKind, Check(c, b)
        PROVE  Bucket!Call(c, b)
    <3> DEFINE ok == levels[c][b] >= Cost[b]
    <3>1. verdict' = [caller |-> c, bucket |-> b, ok |-> ok]
      BY <2>1, EntryLevel DEF Check
    <3>2. \A x \in Caller, k \in BucketKind :
            Level(x, k)' = IF x = c /\ k = b /\ ok THEN Level(c, b) - Cost[b] ELSE Level(x, k)
      BY <2>0, <2>1, CheckLevel
    <3>3. levels' = IF ok THEN [levels EXCEPT ![c][b] = @ - Cost[b]] ELSE levels
      BY <3>2
    <3> QED
      BY <3>1, <3>3 DEF Bucket!Call
  <2>2. ASSUME NEW c \in Caller, NEW b \in BucketKind, Open(c, b)
        PROVE  UNCHANGED <<levels, verdict>>
    BY <2>2 DEF Open, limiter, Level, Refill
  <2>3. CASE Cleanup
    <3>1. \A x \in Caller, k \in BucketKind : Level(x, k)' = Level(x, k)
      BY <2>3, CleanupLevel
    <3> QED
      BY <2>3, <3>1 DEF Cleanup
  <2>4. CASE Tick
    <3>1. \A x \in Caller, k \in BucketKind :
            Level(x, k)' = IF Level(x, k) < Capacity[k] THEN Level(x, k) + 1 ELSE Capacity[k]
      BY <2>4, TickLevel
    <3>2. verdict' = verdict
      BY <2>4 DEF Tick, limiter
    <3> QED
      BY <3>1, <3>2 DEF Bucket!BucketNext, Bucket!Fill, Bucket!BucketKind, BucketKind
  <2>5. CASE UNCHANGED limiterVars
    BY <2>5 DEF limiterVars, limiter, Level, Refill
  <2> QED
    BY <2>1, <2>2, <2>3, <2>4, <2>5
       DEF LimiterNext, Bucket!BucketNext, Bucket!BucketKind, BucketKind
<1> QED
  BY <1>1, <1>2, LimiterTypeCorrect, PTL DEF LimiterSpec, ImplementsBuckets, Bucket!BucketSpec

-----------------------------------------------------------------------------
(* The dispatcher: one answer for each call.                               *)

Stages    == {"unsent", "queued", "polkit", "listing", "done", "dropped"}
Unguarded == {"GetPostRebootSummary", "RevertModification", "ListAvailableDrivers"}

\* Types as far as the argument needs them.
Shapes ==
  /\ what \in [Calls -> Requests \cup {[method |-> "Ping", arg |-> "good"]}]
  /\ stage \in [Calls -> Stages]
  /\ told \in [Calls -> Nat] /\ entries \in [Calls -> Nat]
  /\ queue \in Seq(Calls)

\* A call has had no answer and no entry before the step that ends it.
CallInv ==
  \A c \in Calls :
    /\ told[c] = IF stage[c] = "done" THEN 1 ELSE 0
    /\ entries[c] <= 1
    /\ stage[c] \notin {"done", "dropped"} => entries[c] = 0
    /\ stage[c] = "dropped" => M(c) \in Unguarded
    /\ stage[c] = "listing" => M(c) = "ListAvailableDrivers"

\* The queue has each call that waits in it, once.
QueueInv ==
  /\ \A i \in 1 .. Len(queue) : stage[queue[i]] = "queued"
  /\ \A c \in Calls : stage[c] = "queued" => \E i \in 1 .. Len(queue) : queue[i] = c
  /\ \A i, j \in 1 .. Len(queue) : queue[i] = queue[j] => i = j

PolkitInv == \A c, d \in Calls : stage[c] = "polkit" /\ stage[d] = "polkit" => c = d

IInv == Shapes /\ CallInv /\ QueueInv /\ PolkitInv
-----------------------------------------------------------------------------
\* What any step of the main loop or of the listing thread does to its call.
Outcome(c, s) ==
  /\ stage' = [stage EXCEPT ![c] = s] /\ what' = what
  /\ Unlogged \/ Logged(c)
  /\ \/ s = "done" /\ told' = [told EXCEPT ![c] = @ + 1]
     \/ s = "dropped" /\ told' = told /\ M(c) \in Unguarded
     \/ s = "polkit" /\ told' = told /\ Unlogged
     \/ s = "listing" /\ told' = told /\ Unlogged /\ M(c) = "ListAvailableDrivers"

\* Every branch of _handle_method_call up to the authorization.
LEMMA HandleOutcome ==
  ASSUME NEW c \in Calls, Handle(c)
  PROVE  Takes(c) /\ \E s \in Stages \ {"unsent", "queued"} : Outcome(c, s)
<1>1. CASE NotDeclared(c) \/ Ping(c) \/ RateLimited(c) \/ NoAction(c) \/ Invalid(c)
  <2>1. Takes(c) /\ Outcome(c, "done")
    BY <1>1 DEF NotDeclared, Ping, RateLimited, NoAction, Invalid, Refuse, Answer, Outcome, Takes
  <2> QED BY <2>1 DEF Stages
<1>2. CASE Recap(c)
  <2>1. Takes(c) /\ (Outcome(c, "done") \/ Outcome(c, "dropped"))
    BY <1>2 DEF Recap, Answer, Raise, Outcome, Takes, Unguarded
  <2> QED BY <2>1 DEF Stages
<1>3. CASE GpuDataCall(c)
  <2>1. Takes(c) /\ (Outcome(c, "done") \/ Outcome(c, "listing"))
    BY <1>3 DEF GpuDataCall, Guarded, Answer, Outcome, Takes
  <2> QED BY <2>1 DEF Stages
<1>4. CASE PlainRead(c) \/ Preflight(c)
  <2>1. Takes(c) /\ Outcome(c, "done")
    BY <1>4 DEF PlainRead, Preflight, Refuse, Guarded, Answer, Outcome, Takes
  <2> QED BY <2>1 DEF Stages
<1>5. CASE AskPolkit(c)
  <2>1. Takes(c) /\ Outcome(c, "polkit")
    BY <1>5 DEF AskPolkit, Outcome, Takes, Unlogged
  <2> QED BY <2>1 DEF Stages
<1> QED BY <1>1, <1>2, <1>3, <1>4, <1>5 DEF Handle

\* Every branch from the authorization on.
LEMMA FinishOutcome ==
  ASSUME NEW c \in Calls, Finish(c)
  PROVE  /\ stage[c] = "polkit" /\ queue' = queue
         /\ \E s \in {"done", "dropped"} : Outcome(c, s)
<1>1. CASE Denied(c) \/ TimesOut(c)
  BY <1>1 DEF Denied, TimesOut, Refuse, Answer, Outcome
<1>2. CASE Occupied(c) \/ Locked(c) \/ Accept(c)
  BY <1>2 DEF Occupied, Locked, Accept, Authorized, Refuse, Answer, Outcome
<1>3. CASE DeleteSnapshot(c)
  BY <1>3 DEF DeleteSnapshot, Authorized, Answer, Outcome
<1>4. CASE RevertModification(c)
  BY <1>4 DEF RevertModification, Authorized, Answer, Raise, Outcome, Unguarded
<1>5. CASE GenerateDiagnosticReport(c)
  BY <1>5 DEF GenerateDiagnosticReport, Authorized, Guarded, Answer, Outcome
<1> QED BY <1>1, <1>2, <1>3, <1>4, <1>5 DEF Finish

LEMMA ListOutcome ==
  ASSUME NEW c \in Calls, ListDone(c), CallInv
  PROVE  /\ stage[c] = "listing" /\ queue' = queue
         /\ Outcome(c, "done") \/ Outcome(c, "dropped")
<1>1. stage[c] = "listing" /\ M(c) \in Unguarded
  BY DEF ListDone, CallInv, Unguarded
<1> QED
  BY <1>1 DEF ListDone, ListError, Answer, Raise, Outcome, Unlogged
-----------------------------------------------------------------------------
\* A call that has not ended may end, or go on to Polkit or to the thread.
LEMMA OutcomeKeepsCalls ==
  ASSUME Shapes, CallInv, NEW c \in Calls, stage[c] \notin {"done", "dropped"},
         NEW s \in Stages \ {"unsent", "queued"}, Outcome(c, s)
  PROVE  /\ what' = what /\ stage' = [stage EXCEPT ![c] = s] /\ stage' \in [Calls -> Stages]
         /\ told' \in [Calls -> Nat] /\ entries' \in [Calls -> Nat] /\ CallInv'
<1>1. what' = what /\ stage' = [stage EXCEPT ![c] = s] /\ stage' \in [Calls -> Stages]
  BY DEF Shapes, Outcome
<1>2. told[c] = 0 /\ entries[c] = 0
  BY DEF CallInv
<1>3. /\ told' \in [Calls -> Nat]
      /\ told'[c] = IF s = "done" THEN 1 ELSE 0
      /\ \A d \in Calls \ {c} : told'[d] = told[d]
  <2>1. CASE s = "done" /\ told' = [told EXCEPT ![c] = @ + 1]
    BY <1>2, <2>1 DEF Shapes
  <2>2. CASE s # "done" /\ told' = told
    BY <1>2, <2>2 DEF Shapes
  <2> QED BY <2>1, <2>2 DEF Outcome
<1>4. /\ entries' \in [Calls -> Nat]
      /\ entries'[c] <= 1
      /\ s \notin {"done", "dropped"} => entries'[c] = 0
      /\ \A d \in Calls \ {c} : entries'[d] = entries[d]
  <2>1. CASE entries' = entries
    BY <1>2, <2>1 DEF Shapes
  <2>2. CASE s \in {"done", "dropped"} /\ entries' = [entries EXCEPT ![c] = @ + 1]
    BY <1>2, <2>2 DEF Shapes
  <2> QED BY <2>1, <2>2 DEF Outcome, Unlogged, Logged
<1>5. s = "dropped" => M(c) \in Unguarded
  BY DEF Outcome
<1>6. s = "listing" => M(c) = "ListAvailableDrivers"
  BY DEF Outcome
<1>7. CallInv'
  BY <1>1, <1>3, <1>4, <1>5, <1>6 DEF CallInv, Shapes, M
<1> QED BY <1>1, <1>3, <1>4, <1>7

\* Taking the first call out of the queue.
LEMMA TakeKeepsQueue ==
  ASSUME Shapes, QueueInv, NEW c \in Calls, Takes(c),
         NEW s \in Stages \ {"unsent", "queued"}, stage' = [stage EXCEPT ![c] = s]
  PROVE  queue' \in Seq(Calls) /\ QueueInv'
<1>1. /\ queue # <<>> /\ queue' = Tail(queue) /\ c = queue[1]
      /\ queue' \in Seq(Calls) /\ Len(queue) \in Nat \ {0} /\ Len(queue') = Len(queue) - 1
      /\ \A i \in 1 .. Len(queue') : queue'[i] = queue[i + 1] /\ i + 1 \in 2 .. Len(queue)
  BY DEF Takes, Shapes
<1>2. \A i \in 1 .. Len(queue') : queue'[i] \in Calls /\ queue'[i] # c
  BY <1>1 DEF QueueInv
<1>3. \A i \in 1 .. Len(queue') : stage'[queue'[i]] = "queued"
  BY <1>1, <1>2 DEF QueueInv, Shapes
<1>4. ASSUME NEW d \in Calls, stage'[d] = "queued"
      PROVE  \E i \in 1 .. Len(queue') : queue'[i] = d
  <2>1. d # c /\ stage[d] = "queued"
    BY <1>4 DEF Shapes
  <2>2. PICK j \in 1 .. Len(queue) : queue[j] = d
    BY <2>1 DEF QueueInv
  <2>3. j # 1 /\ j - 1 \in 1 .. Len(queue')
    BY <1>1, <2>1, <2>2
  <2>4. queue'[j - 1] = d
    BY <1>1, <2>2, <2>3
  <2> QED BY <2>3, <2>4
<1>5. \A i, j \in 1 .. Len(queue') : queue'[i] = queue'[j] => i = j
  <2> SUFFICES ASSUME NEW i \in 1 .. Len(queue'), NEW j \in 1 .. Len(queue'),
                      queue'[i] = queue'[j]
               PROVE  i = j
    OBVIOUS
  <2>1. queue[i + 1] = queue[j + 1] /\ i + 1 \in 1 .. Len(queue) /\ j + 1 \in 1 .. Len(queue)
    BY <1>1
  <2>2. i + 1 = j + 1
    BY <2>1 DEF QueueInv
  <2> QED BY <1>1, <2>2
<1> QED BY <1>1, <1>3, <1>4, <1>5 DEF QueueInv

\* A step of a call that is not in the queue.
LEMMA OutsideKeepsQueue ==
  ASSUME Shapes, QueueInv, NEW c \in Calls, stage[c] # "queued", queue' = queue,
         NEW s \in Stages \ {"unsent", "queued"}, stage' = [stage EXCEPT ![c] = s]
  PROVE  QueueInv'
<1>1. \A i \in 1 .. Len(queue) : queue[i] \in Calls
  BY DEF Shapes
<1> QED BY <1>1 DEF QueueInv, Shapes

\* A new call waits behind the others.
LEMMA SendKeeps ==
  ASSUME IInv, NEW c \in Calls, NEW r \in Requests, Send(c, r)
  PROVE  IInv'
<1>1. /\ stage[c] = "unsent" /\ stage' = [stage EXCEPT ![c] = "queued"]
      /\ told' = told /\ entries' = entries /\ what' = [what EXCEPT ![c] = r]
      /\ queue' = Append(queue, c)
  BY DEF Send
<1>2. Shapes'
  BY <1>1 DEF IInv, Shapes, Stages
<1>3. CallInv'
  BY <1>1 DEF IInv, Shapes, CallInv, M
<1>4. PolkitInv'
  BY <1>1 DEF IInv, Shapes, PolkitInv
<1>5. /\ Len(queue) \in Nat /\ Len(queue') = Len(queue) + 1 /\ queue'[Len(queue')] = c
      /\ \A i \in 1 .. Len(queue) : queue'[i] = queue[i] /\ queue[i] \in Calls /\ queue[i] # c
  BY <1>1 DEF IInv, Shapes, QueueInv
<1>6. \A i \in 1 .. Len(queue') : i \in 1 .. Len(queue) \/ i = Len(queue')
  BY <1>5
<1>7. \A i \in 1 .. Len(queue') : stage'[queue'[i]] = "queued"
  BY <1>1, <1>5, <1>6 DEF IInv, Shapes, QueueInv
<1>8. \A d \in Calls : stage'[d] = "queued" => \E i \in 1 .. Len(queue') : queue'[i] = d
  <2> SUFFICES ASSUME NEW d \in Calls, stage'[d] = "queued"
               PROVE  \E i \in 1 .. Len(queue') : queue'[i] = d
    OBVIOUS
  <2>1. CASE d = c
    BY <1>5, <2>1
  <2>2. CASE d # c
    <3>1. PICK i \in 1 .. Len(queue) : queue[i] = d
      BY <1>1, <2>2 DEF IInv, Shapes, QueueInv
    <3> QED BY <1>5, <3>1
  <2> QED BY <2>1, <2>2
<1>9. \A i, j \in 1 .. Len(queue') : queue'[i] = queue'[j] => i = j
  BY <1>5, <1>6 DEF IInv, QueueInv
<1> QED BY <1>2, <1>3, <1>4, <1>7, <1>8, <1>9 DEF IInv, QueueInv
-----------------------------------------------------------------------------
LEMMA HandleKeeps ==
  ASSUME IInv, NEW c \in Calls, Handle(c)
  PROVE  IInv'
<1>1. Takes(c)
  BY HandleOutcome
<1>2. PICK s \in Stages \ {"unsent", "queued"} : Outcome(c, s)
  BY HandleOutcome
<1>3. stage[c] = "queued" /\ \A d \in Calls : stage[d] # "polkit"
  BY <1>1 DEF Takes, Free
<1>4. /\ what' = what /\ stage' = [stage EXCEPT ![c] = s] /\ stage' \in [Calls -> Stages]
      /\ told' \in [Calls -> Nat] /\ entries' \in [Calls -> Nat] /\ CallInv'
  BY <1>2, <1>3, OutcomeKeepsCalls DEF IInv
<1>5. queue' \in Seq(Calls) /\ QueueInv'
  BY <1>1, <1>4, TakeKeepsQueue DEF IInv
<1>6. PolkitInv'
  BY <1>3, <1>4 DEF PolkitInv, IInv, Shapes
<1> QED BY <1>4, <1>5, <1>6 DEF IInv, Shapes

LEMMA EndKeeps ==
  ASSUME IInv, NEW c \in Calls, Finish(c) \/ ListDone(c)
  PROVE  IInv'
<1>1. stage[c] \in {"polkit", "listing"} /\ queue' = queue
      /\ \E s \in {"done", "dropped"} : Outcome(c, s)
  BY FinishOutcome, ListOutcome DEF IInv
<1>2. PICK s \in {"done", "dropped"} : Outcome(c, s)
  BY <1>1
<1>3. s \in Stages \ {"unsent", "queued"}
  BY DEF Stages
<1>4. /\ what' = what /\ stage' = [stage EXCEPT ![c] = s] /\ stage' \in [Calls -> Stages]
      /\ told' \in [Calls -> Nat] /\ entries' \in [Calls -> Nat] /\ CallInv'
  BY <1>1, <1>2, <1>3, OutcomeKeepsCalls DEF IInv
<1>5. QueueInv'
  BY <1>1, <1>3, <1>4, OutsideKeepsQueue DEF IInv
<1>6. PolkitInv'
  BY <1>4 DEF PolkitInv, IInv, Shapes
<1> QED BY <1>1, <1>4, <1>5, <1>6 DEF IInv, Shapes

LEMMA StepInv == IInv /\ [Next]_vars => IInv'
<1> SUFFICES ASSUME IInv, [Next]_vars PROVE IInv'
  OBVIOUS
<1>1. ASSUME NEW c \in Calls, NEW r \in Requests, Send(c, r) PROVE IInv'
  BY <1>1, SendKeeps
<1>2. ASSUME NEW c \in Calls, Handle(c) \/ Finish(c) \/ ListDone(c) PROVE IInv'
  BY <1>2, HandleKeeps, EndKeeps
<1>3. CASE WorkerDone
  BY <1>3 DEF WorkerDone, IInv, Shapes, CallInv, QueueInv, PolkitInv, M
<1>4. CASE UNCHANGED vars
  BY <1>4 DEF vars, IInv, Shapes, CallInv, QueueInv, PolkitInv, M
<1> QED BY <1>1, <1>2, <1>3, <1>4 DEF Next

LEMMA InitInv == Init => IInv
BY DEF Init, IInv, Shapes, CallInv, QueueInv, PolkitInv, Stages

\* At most one call at Polkit, as a number.
LEMMA AtMostOne ==
  ASSUME NEW S, \A x, y \in S : x = y
  PROVE  Cardinality(S) <= 1
<1>1. CASE S = {}
  BY <1>1, FS_EmptySet
<1>2. CASE S # {}
  <2>1. PICK x \in S : TRUE
    BY <1>2
  <2>2. S = {x}
    BY <2>1
  <2> QED BY <2>2, FS_Singleton
<1> QED BY <1>1, <1>2

LEMMA InvAnswer == IInv => OneAnswer
<1> SUFFICES ASSUME IInv PROVE OneAnswer
  OBVIOUS
<1>1. \A c \in Calls :
        /\ told[c] = IF stage[c] = "done" THEN 1 ELSE 0
        /\ entries[c] <= 1
        /\ stage[c] = "dropped" =>
             M(c) \in {"GetPostRebootSummary", "RevertModification", "ListAvailableDrivers"}
  BY DEF IInv, CallInv, Unguarded
<1>2. ToSet(queue) = {c \in Calls : stage[c] = "queued"}
  <2>1. queue \in Seq(Calls) /\ DOMAIN queue = 1 .. Len(queue)
    BY DEF IInv, Shapes
  <2>2. ToSet(queue) = {queue[i] : i \in 1 .. Len(queue)}
    BY <2>1 DEF ToSet
  <2> QED BY <2>1, <2>2 DEF IInv, QueueInv
<1>3. Cardinality({c \in Calls : stage[c] = "polkit"}) <= 1
  BY AtMostOne DEF IInv, PolkitInv
<1> QED BY <1>1, <1>2, <1>3 DEF OneAnswer

\* No call is answered or logged twice, none is lost but by the two handlers
\* without an except clause and the listing thread, and what waits in the main loop's queue waits there
\* once (VerdeService._handle_method_call and the handlers it calls).
THEOREM OneAnswerCorrect == Spec => []OneAnswer
BY InitInv, StepInv, InvAnswer, PTL DEF Spec
=============================================================================
