---------------------------- MODULE RateLimiter ----------------------------
(***************************************************************************)
(* ratelimit.py: what the methods of a RateLimiter do to the bucket of one *)
(* key.  A bucket is the sequence of the times of its hits, in the order   *)
(* in which the lock was taken; every method reads its now before it takes *)
(* the lock, so the times need not be sorted.  Times are in ticks, Second  *)
(* of them to a second: retry_after truncates to whole seconds.            *)
(***************************************************************************)
EXTENDS Integers, SequencesExt

CONSTANTS Limit, WindowSeconds, Second

ASSUME LimiterAssumption ==
    Limit \in Nat \ {0} /\ WindowSeconds \in Nat \ {0} /\ Second \in Nat \ {0}

Window == WindowSeconds * Second

\* Hits of the last window, and the hits behind them.
_prune(bucket, now) ==
    LET first == SelectInSeq(bucket, LAMBDA at : at > now - Window)
    IN  IF first = 0 THEN <<>> ELSE SubSeq(bucket, first, Len(bucket))

\* One hit too many.
check_Wrong_OneMore(bucket, now) == Len(_prune(bucket, now)) <= Limit

check(bucket, now) == Len(_prune(bucket, now)) < Limit

hit(bucket, now) ==
    IF check(bucket, now) THEN Append(_prune(bucket, now), now) ELSE _prune(bucket, now)

\* The truncated second is not made up for.
retry_after_Wrong_Truncates(bucket, now) ==
    LET live == _prune(bucket, now)
    IN  IF live = <<>> THEN 0 ELSE Max({1, (Window - (now - live[1])) \div Second})

\* In whole seconds.
retry_after(bucket, now) ==
    LET live == _prune(bucket, now)
    IN  IF live = <<>> THEN 0 ELSE Max({1, (Window - (now - live[1])) \div Second + 1})

=============================================================================
