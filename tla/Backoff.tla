------------------------------ MODULE Backoff ------------------------------
(***************************************************************************)
(* The retry delays of the publisher (retryDelay, worker.go) and of the    *)
(* consumer (consumerDelay, consumer.go): the same doubling loop, capped   *)
(* without ever computing a product above the cap, then jitter over the    *)
(* upper half.                                                             *)
(***************************************************************************)
EXTENDS Naturals

\* The delay before jitter: n - 1 rounds of the loop, each guarded against
\* a product that would pass max.
Backoff(base, max, attempt) ==
  LET delay[n \in Nat] ==
        IF n <= 1 THEN base
        ELSE IF delay[n - 1] >= max THEN delay[n - 1]
        ELSE IF delay[n - 1] > max \div 2 THEN max
        ELSE 2 * delay[n - 1]
  IN  IF delay[attempt] > max THEN max ELSE delay[attempt]

\* What the jitter may return: anything from half the delay to all of it.
Jittered(base, max, attempt) ==
  LET top == Backoff(base, max, attempt)
  IN  {d \in 0 .. max : top \div 2 <= d /\ d <= top}
=============================================================================
