--------------------------- MODULE MCRateLimiter ---------------------------
(* RateLimiter for TLC: small buckets, with a write twice as dear as a read *)
(* and a stale time no longer than it takes a bucket to fill, so that the   *)
(* cleanup meets callers whose buckets have only just filled up again.      *)
EXTENDS RateLimiter

SmallCapacity == [read |-> 2, write |-> 3]
SmallCost     == [read |-> 1, write |-> 2]
=============================================================================
