----------------------------- MODULE MCRequeue ------------------------------
(***************************************************************************)
(* Instances of Requeue: a watched request and that of a singleton.        *)
(***************************************************************************)
EXTENDS Requeue

\* ItemExponentialFailureRateLimiter(base, max): base doubled per failure.
Exponential(base, max) ==
    [n \in 0 .. 2 * MaxFailures |-> IF base * 2 ^ n > max THEN max ELSE base * 2 ^ n]

MCDelay == Exponential(1, 8)

\* A token bucket alone, such as rate.NewLimiter(10, 100): while it holds
\* tokens it answers zero.
BucketDelay == Exponential(0, 4)
=============================================================================
