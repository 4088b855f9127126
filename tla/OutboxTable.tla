---------------------------- MODULE OutboxTable ----------------------------
(***************************************************************************)
(* The rows of the outbox table and the SQL statements that change them    *)
(* (cool-next/outbox/store/sql.go, database.go).  A statement is an        *)
(* operator from the row it matches to the row it leaves; its WHERE clause *)
(* is a predicate of its own.                                              *)
(*                                                                         *)
(* Times are kept relative to the database clock, the only clock the       *)
(* statements read: `wait' is availableAt - now, `lease' is                *)
(* leaseExpiresAt - now, both clipped at 0 (the statements only ask        *)
(* whether a time has been reached), and `age' is now - sentAt, clipped at *)
(* Retention.  Payload, headers, topic, leaseOwner and lastError are data  *)
(* no statement's condition reads.                                         *)
(***************************************************************************)
EXTENDS Naturals

CONSTANTS
  Messages,       \* message ids (UUIDv7, never generated twice)
  Tokens,         \* claim tokens (16 random bytes)
  NoToken,        \* NULL in the claimToken column
  LeaseDuration,  \* WorkerConfig.LeaseDuration
  Retention       \* WorkerConfig.Retention

ASSUME TableAssumption ==
  /\ NoToken \notin Tokens
  /\ LeaseDuration \in Nat \ {0}
  /\ Retention \in Nat \ {0}

Statuses == {"pending", "retry", "leased", "sent", "dead"}

\* A row; status "absent" stands for no row with that primary key.
Row == [status   : Statuses \cup {"absent"},
        attempts : Nat,
        wait     : Nat,
        token    : Tokens \cup {NoToken},
        lease    : Nat,
        age      : Nat]

Absent == [status |-> "absent", attempts |-> 0, wait |-> 0,
           token |-> NoToken, lease |-> 0, age |-> 0]

\* INSERT ... VALUES (..., 'pending', 0, now, now, now)
Enqueued == [Absent EXCEPT !.status = "pending"]

----------------------------------------------------------------------------
(* Claiming.                                                               *)

Available(r) == r.status \in {"pending", "retry"} /\ r.wait = 0

\* Mutant of Expired: the lease is not looked at.
ExpiredAnyLease(r) == r.status = "leased"

Expired(r) == r.status = "leased" /\ r.lease = 0

\* A claim of an available row counts an attempt, a claim of a row whose
\* lease ran out does not.
Claimed(r, t) ==
  [r EXCEPT !.status   = "leased",
            !.attempts = IF r.status = "leased" THEN @ ELSE @ + 1,
            !.token    = t,
            !.lease    = LeaseDuration]

\* Mutant of HoldsClaim: the token is not compared.
HoldsAnyClaim(r, t) == r.status = "leased"

\* WHERE messageId = ? AND status = 'leased' AND claimToken = ?
HoldsClaim(r, t) == r.status = "leased" /\ r.token = t

\* GREATEST(leaseExpiresAt, now) + LeaseDuration
Renewed(r) == [r EXCEPT !.lease = @ + LeaseDuration]

----------------------------------------------------------------------------
(* Settling a claim, retention and replay.                                 *)

Released(r, s) == [r EXCEPT !.status = s, !.token = NoToken, !.lease = 0]

MarkedSent(r) == [Released(r, "sent") EXCEPT !.age = 0]

MarkedRetry(r, delay) == [Released(r, "retry") EXCEPT !.wait = delay]

\* Mutant of MarkedDead: the claim columns are not cleared.
MarkedDeadOnly(r) == [r EXCEPT !.status = "dead"]

MarkedDead(r) == Released(r, "dead")

\* Mutant of Cleanable: the retention is not looked at.
CleanableAtOnce(r) == r.status = "sent"

Cleanable(r) == r.status = "sent" /\ r.age >= Retention

Replayed(r) == [Released(r, "retry") EXCEPT !.attempts = 0, !.wait = 0]

----------------------------------------------------------------------------
(* The database clock moves on by one unit.                                *)

Less(n) == IF n = 0 THEN 0 ELSE n - 1

Older(r) ==
  [r EXCEPT !.wait  = Less(@),
            !.lease = Less(@),
            !.age   = IF r.status = "sent" /\ @ < Retention THEN @ + 1 ELSE @]

\* A row whose claim columns agree with its status: they are set exactly
\* while it is leased, and only a row in retry waits.
ColumnsMatch(r) ==
  /\ (r.status = "leased") <=> (r.token # NoToken)
  /\ r.lease > 0 => r.status = "leased"
  /\ r.wait > 0 => r.status = "retry"

=============================================================================
