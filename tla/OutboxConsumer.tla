--------------------------- MODULE OutboxConsumer ---------------------------
(***************************************************************************)
(* The consuming side of the reliable messages: BrokerConsumerAdapter      *)
(* (consumer_adapter.go) takes deliveries from a broker that redelivers,   *)
(* Deliverer (consumer.go) runs the handler in one transaction with the    *)
(* inbox row of the message, and the adapter tells the broker the outcome. *)
(*                                                                         *)
(* One consumer, several deliveries at once.  The broker is external and   *)
(* modelled by the BrokerConsumerBackend contract: a delivered copy stays  *)
(* hidden until it is acknowledged or its visibility ends, then it is      *)
(* delivered again; attempts, delayed copies and dead letters persist.     *)
(***************************************************************************)
EXTENDS Naturals, FiniteSets

CONSTANTS
  Messages,             \* message ids
  Slots,                \* goroutines that run receive()
  ConsumerMaxAttempts,  \* ConsumerConfig.ConsumerMaxAttempts
  MaxPublishes,         \* bound: copies the publisher makes of one message
  MaxReplays,           \* bound: replays of one dead letter
  MaxFaults             \* bound: failed calls, cancellations, crashes

ASSUME ConsumerAssumption ==
  /\ Messages # {}
  /\ IsFiniteSet(Slots)
  /\ ConsumerMaxAttempts \in Nat \ {0}
  /\ MaxPublishes \in Nat
  /\ MaxReplays \in Nat
  /\ MaxFaults \in Nat

VARIABLES
  published,  \* published[m]: copies published so far
  defect,     \* defect[m]: which step of the consumer refuses the message
  queue,      \* queue[m]: copies waiting at the broker, delayed ones too
  attempts,   \* attempts[m]: the counter AdvanceAttempt persists
  dlq,        \* messages with a dead letter
  inbox,      \* messages with a committed inbox row
  effects,    \* effects[m]: committed runs of the handler
  runs,       \* runs[m]: invocations of the handler
  replays,    \* replays[m]: ReplayDeadLetter calls
  delivery,   \* delivery[s]: what goroutine s works on
  accepting,  \* BrokerConsumerAdapter.isAccepting
  faults      \* faults so far

broker == <<published, defect, queue, attempts, dlq, replays>>
database == <<inbox, effects, runs>>
vars == <<broker, database, delivery, accepting, faults>>

\* restore: restoreDelivery fails; decode: checkEnvelope or decode does.
Defects == {"none", "restore", "decode"}

\* idle: no delivery; received: in handleDelivery; counted: attempt known;
\* inserted: transaction open, inbox row written; ack, retry, dead: decided;
\* settled: outcome recorded at the broker, Ack to come; left: the goroutine
\* ended without an Ack.
Stages == {"idle", "received", "counted", "inserted", "ack", "retry", "dead",
           "settled", "left"}

Delivery == [msg       : Messages,
             stage     : Stages,
             attempt   : Nat,
             cancelled : BOOLEAN,  \* ctx of the delivery is done
             owned     : BOOLEAN]  \* the broker still hides the copy

Free == [msg |-> CHOOSE m \in Messages : TRUE, stage |-> "idle", attempt |-> 0,
         cancelled |-> FALSE, owned |-> FALSE]

TypeOK ==
  /\ published \in [Messages -> 0 .. MaxPublishes]
  /\ defect \in [Messages -> Defects]
  /\ queue \in [Messages -> Nat]
  /\ attempts \in [Messages -> Nat]
  /\ dlq \in SUBSET Messages
  /\ inbox \in SUBSET Messages
  /\ effects \in [Messages -> Nat]
  /\ runs \in [Messages -> Nat]
  /\ replays \in [Messages -> 0 .. MaxReplays]
  /\ delivery \in [Slots -> Delivery]
  /\ accepting \in BOOLEAN
  /\ faults \in 0 .. MaxFaults

Init ==
  /\ published = [m \in Messages |-> 0]
  /\ defect = [m \in Messages |-> "none"]
  /\ queue = [m \in Messages |-> 0]
  /\ attempts = [m \in Messages |-> 0]
  /\ dlq = {}
  /\ inbox = {}
  /\ effects = [m \in Messages |-> 0]
  /\ runs = [m \in Messages |-> 0]
  /\ replays = [m \in Messages |-> 0]
  /\ delivery = [s \in Slots |-> Free]
  /\ accepting = FALSE
  /\ faults = 0

Fault == faults < MaxFaults /\ faults' = faults + 1

At(s, stage) == delivery[s].stage = stage

MoveTo(s, stage) == delivery' = [delivery EXCEPT ![s].stage = stage]

\* The goroutine returns without an Ack: the copy stays hidden for a while.
Leave(s) ==
  delivery' = [delivery EXCEPT ![s] = IF @.owned THEN [@ EXCEPT !.stage = "left"] ELSE Free]

----------------------------------------------------------------------------
(* The broker (external).                                                  *)

\* All copies of a message carry the same bytes, which the consumer can
\* restore and decode or not.
Publish(m, d) ==
  /\ published[m] < MaxPublishes
  /\ published[m] > 0 => d = defect[m]
  /\ defect' = [defect EXCEPT ![m] = d]
  /\ published' = [published EXCEPT ![m] = @ + 1]
  /\ queue' = [queue EXCEPT ![m] = @ + 1]
  /\ UNCHANGED <<attempts, dlq, replays, database, delivery, accepting, faults>>

\* A copy whose visibility ended is delivered again.  While the goroutine
\* is at work renewVisibility prevents this unless it stalls.
VisibilityEnds(s) ==
  /\ delivery[s].owned
  /\ IF At(s, "left") THEN UNCHANGED faults ELSE Fault
  /\ queue' = [queue EXCEPT ![delivery[s].msg] = @ + 1]
  /\ delivery' = [delivery EXCEPT ![s] = IF At(s, "left") THEN Free ELSE [@ EXCEPT !.owned = FALSE]]
  /\ UNCHANGED <<published, defect, attempts, dlq, replays, database, accepting>>

\* An operator sends a dead letter back with a new attempt budget.
ReplayDeadLetter(m) ==
  /\ m \in dlq
  /\ replays[m] < MaxReplays
  /\ replays' = [replays EXCEPT ![m] = @ + 1]
  /\ dlq' = dlq \ {m}
  /\ queue' = [queue EXCEPT ![m] = @ + 1]
  /\ attempts' = [attempts EXCEPT ![m] = 0]
  /\ UNCHANGED <<published, defect, database, delivery, accepting, faults>>

\* A copy the broker no longer hides for this goroutine is not removed.
Acked(s) == delivery' = [delivery EXCEPT ![s] = Free]

----------------------------------------------------------------------------
(* Lifecycle of the adapter.                                               *)

Start ==
  /\ ~accepting
  /\ accepting' = TRUE
  /\ UNCHANGED <<broker, database, delivery, faults>>

\* Stop takes no more deliveries; its deadline cancels those in flight, and
\* afterwards the adapter may be prepared and started again around them.
Stop ==
  /\ accepting
  /\ Fault
  /\ accepting' = FALSE
  /\ UNCHANGED <<broker, database, delivery>>

StopDeadline ==
  /\ ~accepting
  /\ \E s \in Slots : delivery[s].stage \notin {"idle", "left"} /\ ~delivery[s].cancelled
  /\ delivery' = [s \in Slots |->
       IF delivery[s].stage \in {"idle", "left"} THEN delivery[s]
       ELSE [delivery[s] EXCEPT !.cancelled = TRUE]]
  /\ UNCHANGED <<broker, database, accepting, faults>>

\* renewVisibility fails: the delivery's context is cancelled.
RenewFails(s) ==
  /\ delivery[s].stage \notin {"idle", "left"}
  /\ ~delivery[s].cancelled
  /\ Fault
  /\ delivery' = [delivery EXCEPT ![s].cancelled = TRUE]
  /\ UNCHANGED <<broker, database, accepting>>

\* The process dies: open transactions are rolled back.
Crash ==
  /\ accepting
  /\ Fault
  /\ accepting' = FALSE
  /\ delivery' = [s \in Slots |->
       IF delivery[s].owned THEN [delivery[s] EXCEPT !.stage = "left"] ELSE Free]
  /\ UNCHANGED <<broker, database>>

----------------------------------------------------------------------------
(* receive, handleDelivery and Deliver.                                    *)

\* A delivery that arrives after Stop is left to the broker.
Receive(s, m) ==
  /\ At(s, "idle")
  /\ queue[m] > 0
  /\ accepting
  /\ queue' = [queue EXCEPT ![m] = @ - 1]
  /\ delivery' = [delivery EXCEPT ![s] = [msg |-> m, stage |-> "received", attempt |-> 0,
                                          cancelled |-> FALSE, owned |-> TRUE]]
  /\ UNCHANGED <<published, defect, attempts, dlq, replays, database, accepting, faults>>

\* A message that cannot be restored is dead without counting an attempt.
RestoreFails(s) ==
  /\ At(s, "received")
  /\ defect[delivery[s].msg] = "restore"
  /\ MoveTo(s, "dead")
  /\ UNCHANGED <<broker, database, accepting, faults>>

AdvanceAttempt(s) ==
  LET m == delivery[s].msg IN
  /\ At(s, "received")
  /\ ~delivery[s].cancelled
  /\ defect[m] # "restore"
  /\ attempts' = [attempts EXCEPT ![m] = @ + 1]
  /\ delivery' = [delivery EXCEPT ![s].stage = "counted", ![s].attempt = attempts[m] + 1]
  /\ UNCHANGED <<published, defect, queue, dlq, replays, database, accepting, faults>>

\* The call fails, before or after the counter moved.
AdvanceAttemptFails(s) ==
  LET m == delivery[s].msg IN
  /\ At(s, "received")
  /\ defect[m] # "restore"
  /\ IF delivery[s].cancelled THEN UNCHANGED faults ELSE Fault
  /\ attempts' \in {attempts, [attempts EXCEPT ![m] = @ + 1]}
  /\ Leave(s)
  /\ UNCHANGED <<published, defect, queue, dlq, replays, database, accepting>>

\* Mutant of TooManyAttempts: the limit is off by one.
TooManyAttemptsLate(s) ==
  /\ At(s, "counted")
  /\ delivery[s].attempt > ConsumerMaxAttempts + 1
  /\ MoveTo(s, "dead")
  /\ UNCHANGED <<broker, database, accepting, faults>>

TooManyAttempts(s) ==
  /\ At(s, "counted")
  /\ delivery[s].attempt > ConsumerMaxAttempts
  /\ MoveTo(s, "dead")
  /\ UNCHANGED <<broker, database, accepting, faults>>

\* A message that is restored but fits neither the subscription nor the
\* handler's type is dead after its attempt was counted.
DecodeFails(s) ==
  /\ At(s, "counted")
  /\ delivery[s].attempt <= ConsumerMaxAttempts
  /\ defect[delivery[s].msg] = "decode"
  /\ MoveTo(s, "dead")
  /\ UNCHANGED <<broker, database, accepting, faults>>

\* Mutant of InsertBlocked: the inbox has no unique key.
InsertNeverBlocked(s) == FALSE

\* Another transaction that has inserted the same inbox row, committed or
\* not, decides this insert: it waits for the one that is open.
InsertBlocked(s) ==
  \E other \in Slots \ {s} : At(other, "inserted") /\ delivery[other].msg = delivery[s].msg

\* Mutant of CanDeliver: the limit is off by one.
CanDeliverLate(s) ==
  /\ At(s, "counted")
  /\ delivery[s].attempt <= ConsumerMaxAttempts + 1
  /\ defect[delivery[s].msg] # "decode"

CanDeliver(s) ==
  /\ At(s, "counted")
  /\ delivery[s].attempt <= ConsumerMaxAttempts
  /\ defect[delivery[s].msg] # "decode"

InsertInbox(s) ==
  /\ CanDeliver(s)
  /\ ~delivery[s].cancelled
  /\ ~InsertBlocked(s)
  /\ delivery[s].msg \notin inbox
  /\ runs' = [runs EXCEPT ![delivery[s].msg] = @ + 1]
  /\ MoveTo(s, "inserted")
  /\ UNCHANGED <<broker, inbox, effects, accepting, faults>>

AlreadyProcessed(s) ==
  /\ CanDeliver(s)
  /\ ~InsertBlocked(s)
  /\ delivery[s].msg \in inbox
  /\ MoveTo(s, "ack")
  /\ UNCHANGED <<broker, database, accepting, faults>>

\* The decision after the transaction returned an error.
Failed(s, permanent) ==
  IF permanent \/ delivery[s].attempt >= ConsumerMaxAttempts THEN "dead" ELSE "retry"

\* The transaction or the insert fails before the handler runs.
InsertFails(s) ==
  /\ CanDeliver(s)
  /\ IF delivery[s].cancelled THEN UNCHANGED faults ELSE Fault
  /\ MoveTo(s, Failed(s, FALSE))
  /\ UNCHANGED <<broker, database, accepting>>

\* The handler succeeded and the context is still good: commit.
Commit(s) ==
  LET m == delivery[s].msg IN
  /\ At(s, "inserted")
  /\ ~delivery[s].cancelled
  /\ inbox' = inbox \cup {m}
  /\ effects' = [effects EXCEPT ![m] = @ + 1]
  /\ MoveTo(s, "ack")
  /\ UNCHANGED <<broker, runs, accepting, faults>>

\* The commit took effect but its reply did not arrive.
CommitUnknown(s) ==
  LET m == delivery[s].msg IN
  /\ At(s, "inserted")
  /\ Fault
  /\ inbox' = inbox \cup {m}
  /\ effects' = [effects EXCEPT ![m] = @ + 1]
  /\ MoveTo(s, Failed(s, FALSE))
  /\ UNCHANGED <<broker, runs, accepting>>

\* The handler fails, times out or its context is cancelled: roll back.
Rollback(s) ==
  /\ At(s, "inserted")
  /\ \E permanent \in BOOLEAN : MoveTo(s, Failed(s, permanent))
  /\ UNCHANGED <<broker, database, accepting, faults>>

----------------------------------------------------------------------------
(* The outcome at the broker.                                              *)

Decided == {"ack", "retry", "dead", "settled"}

\* With the delivery's context done nothing is told to the broker.
GiveUp(s) ==
  /\ delivery[s].stage \in Decided
  /\ delivery[s].cancelled
  /\ Leave(s)
  /\ UNCHANGED <<broker, database, accepting, faults>>

ScheduleRetry(s) ==
  /\ At(s, "retry")
  /\ ~delivery[s].cancelled
  /\ queue' = [queue EXCEPT ![delivery[s].msg] = @ + 1]
  /\ MoveTo(s, "settled")
  /\ UNCHANGED <<published, defect, attempts, dlq, replays, database, accepting, faults>>

WriteDeadLetter(s) ==
  /\ At(s, "dead")
  /\ ~delivery[s].cancelled
  /\ dlq' = dlq \cup {delivery[s].msg}
  /\ MoveTo(s, "settled")
  /\ UNCHANGED <<published, defect, queue, attempts, replays, database, accepting, faults>>

\* Mutant of Ack: a delivery is acknowledged before its retry is scheduled.
AckEarly(s) ==
  /\ delivery[s].stage \in {"ack", "retry", "settled"}
  /\ ~delivery[s].cancelled
  /\ Acked(s)
  /\ UNCHANGED <<broker, database, accepting, faults>>

Ack(s) ==
  /\ delivery[s].stage \in {"ack", "settled"}
  /\ ~delivery[s].cancelled
  /\ Acked(s)
  /\ UNCHANGED <<broker, database, accepting, faults>>

\* ScheduleRetry, WriteDeadLetter or Ack fails; the first two may have had
\* their effect.
OutcomeFails(s) ==
  LET m == delivery[s].msg IN
  /\ delivery[s].stage \in Decided
  /\ ~delivery[s].cancelled
  /\ Fault
  /\ queue' \in {queue, IF At(s, "retry") THEN [queue EXCEPT ![m] = @ + 1] ELSE queue}
  /\ dlq' \in {dlq, IF At(s, "dead") THEN dlq \cup {m} ELSE dlq}
  /\ Leave(s)
  /\ UNCHANGED <<published, defect, attempts, replays, database, accepting>>

----------------------------------------------------------------------------

SlotSteps(s) ==
  \/ \E m \in Messages : Receive(s, m)
  \/ RestoreFails(s) \/ AdvanceAttempt(s) \/ TooManyAttempts(s) \/ DecodeFails(s)
  \/ InsertInbox(s) \/ AlreadyProcessed(s) \/ Commit(s) \/ Rollback(s)
  \/ GiveUp(s) \/ ScheduleRetry(s) \/ WriteDeadLetter(s) \/ Ack(s)

SlotFaults(s) ==
  \/ VisibilityEnds(s) \/ RenewFails(s) \/ AdvanceAttemptFails(s) \/ InsertFails(s)
  \/ CommitUnknown(s) \/ OutcomeFails(s)

Next ==
  \/ \E m \in Messages : \E d \in Defects : Publish(m, d)
  \/ \E m \in Messages : ReplayDeadLetter(m)
  \/ \E s \in Slots : SlotSteps(s) \/ SlotFaults(s)
  \/ Start \/ Stop \/ StopDeadline \/ Crash

Spec == Init /\ [][Next]_vars

(* Fairness: deliveries in flight go on, a cancelled call returns, the     *)
(* broker ends the visibility of what was left and delivers what it has,   *)
(* and the adapter is started again.                                       *)
Returns(s) ==
  \/ SlotSteps(s)
  \/ delivery[s].cancelled /\ (AdvanceAttemptFails(s) \/ InsertFails(s))
  \/ At(s, "left") /\ VisibilityEnds(s)

FairSpec ==
  /\ Spec
  /\ WF_vars(Start)
  /\ \A s \in Slots : WF_vars(Returns(s))

----------------------------------------------------------------------------
(* Properties.                                                             *)

\* The handler's changes are committed exactly once, together with the
\* inbox row, however often the broker delivers the message and however
\* many deliveries of it run at the same time.
EffectOnce ==
  \A m \in Messages :
    /\ effects[m] <= 1
    /\ effects[m] = 1 <=> m \in inbox

Live(m) ==
  \/ queue[m] > 0
  \/ \E s \in Slots : delivery[s].owned /\ delivery[s].msg = m

\* No message disappears: until the handler's changes are committed or a
\* dead letter is kept, the broker has a copy to deliver again.
NothingDropped ==
  \A m \in Messages :
    published[m] > 0 => Live(m) \/ m \in inbox \/ m \in dlq

\* The handler runs at most ConsumerMaxAttempts times per budget, although
\* several deliveries of the message may be in flight.
RunsWithinBudget ==
  \A m \in Messages : runs[m] <= ConsumerMaxAttempts * (1 + replays[m])

\* Every published message is processed or ends as a dead letter.
EventuallyDecided ==
  \A m \in Messages : published[m] > 0 ~> (m \in inbox \/ m \in dlq)
=============================================================================
