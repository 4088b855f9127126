------------------------- MODULE OutboxConsumerProofs -------------------------
(***************************************************************************)
(* Proofs about OutboxConsumer, for any number of messages, goroutines,    *)
(* redeliveries, replays and faults.                                       *)
(***************************************************************************)
EXTENDS OutboxConsumer, FiniteSetTheorems, TLAPS

(* The inductive invariant.  EffectOnce rests on the inbox row being       *)
(* exclusive while its transaction is open, NothingDropped on which stage  *)
(* of a delivery still stands for the message, RunsWithinBudget on what    *)
(* the deliveries that counted an attempt may still do with it.            *)

EffectsMatchInbox ==
  \A m \in Messages : effects[m] = IF m \in inbox THEN 1 ELSE 0

InsertExclusive ==
  \A s \in Slots : delivery[s].stage = "inserted" =>
    /\ delivery[s].msg \notin inbox
    /\ \A o \in Slots : (delivery[o].stage = "inserted" /\ delivery[o].msg = delivery[s].msg)
                          => o = s

AcksAreProcessed ==
  \A s \in Slots : delivery[s].stage = "ack" => delivery[s].msg \in inbox

\* The broker's copy of this delivery comes back unless it is acknowledged,
\* and what it stands for has not been recorded elsewhere yet.
Pledged(s) == delivery[s].owned /\ delivery[s].stage \notin {"idle", "settled"}

Kept(m) ==
  \/ queue[m] > 0
  \/ m \in inbox
  \/ m \in dlq
  \/ \E s \in Slots : Pledged(s) /\ delivery[s].msg = m

Retained == \A m \in Messages : published[m] > 0 => Kept(m)

\* Deliveries that counted an attempt the handler may still use.
Pending(m) ==
  {s \in Slots : /\ delivery[s].stage = "counted"
                 /\ delivery[s].msg = m
                 /\ delivery[s].attempt <= ConsumerMaxAttempts}

Spent(m) == IF attempts[m] <= ConsumerMaxAttempts THEN attempts[m] ELSE ConsumerMaxAttempts

Budget ==
  \A m \in Messages :
    runs[m] + Cardinality(Pending(m)) <= ConsumerMaxAttempts * replays[m] + Spent(m)

Inv ==
  /\ TypeOK
  /\ EffectsMatchInbox
  /\ InsertExclusive
  /\ AcksAreProcessed
  /\ Retained
  /\ Budget

-----------------------------------------------------------------------------
(* Lemmas about the operators of the model.                                *)

LEMMA FreeFacts ==
  Free \in Delivery /\ Free.stage = "idle" /\ ~Free.owned
  BY ConsumerAssumption DEF ConsumerAssumption, Free, Delivery, Stages

LEMMA FaultFacts ==
  ASSUME TypeOK, Fault \/ UNCHANGED faults
  PROVE  faults' \in 0 .. MaxFaults
  BY ConsumerAssumption DEF TypeOK, Fault, ConsumerAssumption

\* A goroutine goes on with its delivery.
LEMMA Moved ==
  ASSUME TypeOK, NEW s \in Slots, NEW st \in Stages, MoveTo(s, st)
  PROVE  /\ delivery' \in [Slots -> Delivery]
         /\ \A o \in Slots \ {s} : delivery'[o] = delivery[o]
         /\ delivery'[s].stage = st
         /\ delivery'[s].msg = delivery[s].msg
         /\ delivery'[s].attempt = delivery[s].attempt
         /\ delivery'[s].owned = delivery[s].owned
  BY DEF TypeOK, MoveTo, Delivery

\* A goroutine returns without an Ack.
LEMMA Left ==
  ASSUME TypeOK, NEW s \in Slots, Leave(s)
  PROVE  /\ delivery' \in [Slots -> Delivery]
         /\ \A o \in Slots \ {s} : delivery'[o] = delivery[o]
         /\ delivery'[s].stage \in {"left", "idle"}
         /\ delivery[s].owned => /\ delivery'[s].owned /\ delivery'[s].stage = "left"
                                 /\ delivery'[s].msg = delivery[s].msg
<1>1. delivery[s] \in Delivery
  BY DEF TypeOK
<1>2. CASE delivery[s].owned
  <2>1. delivery' = [delivery EXCEPT ![s] = [delivery[s] EXCEPT !.stage = "left"]]
    BY <1>2 DEF Leave, TypeOK
  <2> QED
    BY <1>1, <1>2, <2>1 DEF TypeOK, Delivery, Stages
<1>3. CASE ~delivery[s].owned
  <2>1. delivery' = [delivery EXCEPT ![s] = Free]
    BY <1>3 DEF Leave, TypeOK
  <2> QED
    BY <1>1, <1>3, <2>1, FreeFacts DEF TypeOK
<1> QED
  BY <1>2, <1>3

\* The decision after an error.
LEMMA FailedFacts ==
  ASSUME NEW s \in Slots, NEW permanent \in BOOLEAN
  PROVE  Failed(s, permanent) \in {"dead", "retry"}
  BY DEF Failed

LEMMA PendingFinite ==
  ASSUME NEW m \in Messages
  PROVE  /\ IsFiniteSet(Pending(m)) /\ Cardinality(Pending(m)) \in Nat
         /\ IsFiniteSet(Pending(m)') /\ Cardinality(Pending(m)') \in Nat
<1>1. Pending(m) \subseteq Slots /\ Pending(m)' \subseteq Slots
  BY DEF Pending
<1> QED
  BY <1>1, ConsumerAssumption, FS_Subset, FS_CardinalityType DEF ConsumerAssumption
-----------------------------------------------------------------------------
(* The steps keep the types.                                               *)

LEMMA StepKeepsTypes ==
  ASSUME TypeOK, [Next]_vars
  PROVE  TypeOK'
<1> USE DEF TypeOK, broker, database
<1>d. \A s \in Slots : /\ delivery[s] \in Delivery
                       /\ delivery[s].msg \in Messages /\ delivery[s].attempt \in Nat
  BY DEF Delivery
<1>1. ASSUME NEW m \in Messages, NEW d \in Defects, Publish(m, d) PROVE TypeOK'
  BY <1>1, ConsumerAssumption DEF Publish, ConsumerAssumption
<1>2. ASSUME NEW m \in Messages, ReplayDeadLetter(m) PROVE TypeOK'
  BY <1>2, ConsumerAssumption DEF ReplayDeadLetter, ConsumerAssumption
<1>3. ASSUME NEW s \in Slots, SlotSteps(s) PROVE TypeOK'
  <2>1. ASSUME NEW m \in Messages, Receive(s, m) PROVE TypeOK'
    <3>1. [msg |-> m, stage |-> "received", attempt |-> 0,
           cancelled |-> FALSE, owned |-> TRUE] \in Delivery
      BY DEF Delivery, Stages
    <3> QED
      BY <2>1, <3>1 DEF Receive
  <2>2. CASE RestoreFails(s)
    BY <2>2, Moved DEF RestoreFails, Stages
  <2>3. CASE AdvanceAttempt(s)
    <3>1. attempts[delivery[s].msg] + 1 \in Nat
      BY <1>d
    <3>2. delivery' \in [Slots -> Delivery]
      BY <2>3, <3>1, <1>d, ZenonT(40) DEF AdvanceAttempt, Delivery, Stages
    <3> QED
      BY <2>3, <3>1, <3>2, <1>d DEF AdvanceAttempt
  <2>4. CASE TooManyAttempts(s)
    BY <2>4, Moved DEF TooManyAttempts, Stages
  <2>5. CASE InsertInbox(s)
    BY <2>5, <1>d, Moved DEF InsertInbox, Stages
  <2>6. CASE AlreadyProcessed(s)
    BY <2>6, Moved DEF AlreadyProcessed, Stages
  <2>7. CASE Commit(s)
    BY <2>7, <1>d, Moved DEF Commit, Stages
  <2>8. CASE Rollback(s)
    BY <2>8, Moved, FailedFacts DEF Rollback, Stages
  <2>9. CASE GiveUp(s)
    BY <2>9, Left DEF GiveUp
  <2>10. CASE ScheduleRetry(s)
    BY <2>10, <1>d, Moved DEF ScheduleRetry, Stages
  <2>11. CASE WriteDeadLetter(s)
    BY <2>11, <1>d, Moved DEF WriteDeadLetter, Stages
  <2>12. CASE Ack(s)
    BY <2>12, FreeFacts DEF Ack, Acked
  <2>13. CASE DecodeFails(s)
    BY <2>13, Moved DEF DecodeFails, Stages
  <2> QED
    BY <1>3, <2>1, <2>2, <2>3, <2>4, <2>5, <2>6, <2>7, <2>8, <2>9, <2>10, <2>11, <2>12, <2>13
       DEF SlotSteps
<1>4. ASSUME NEW s \in Slots, SlotFaults(s) PROVE TypeOK'
  <2>f. Fault \/ UNCHANGED faults
    BY <1>4 DEF SlotFaults, VisibilityEnds, RenewFails, AdvanceAttemptFails, InsertFails,
                CommitUnknown, OutcomeFails
  <2>1. CASE VisibilityEnds(s)
    <3>1. delivery' \in [Slots -> Delivery]
      BY <2>1, <1>d, FreeFacts DEF VisibilityEnds, Delivery
    <3> QED
      BY <2>1, <2>f, FaultFacts, <3>1, <1>d DEF VisibilityEnds
  <2>2. CASE RenewFails(s)
    BY <2>2, <2>f, FaultFacts, <1>d DEF RenewFails, Delivery
  <2>3. CASE AdvanceAttemptFails(s)
    BY <2>3, <2>f, FaultFacts, <1>d, Left DEF AdvanceAttemptFails
  <2>4. CASE InsertFails(s)
    BY <2>4, <2>f, FaultFacts, Moved, FailedFacts DEF InsertFails, Stages
  <2>5. CASE CommitUnknown(s)
    <3>1. Failed(s, FALSE) \in Stages
      BY FailedFacts DEF Stages
    <3>2. delivery' \in [Slots -> Delivery]
      BY <2>5, <3>1, Moved DEF CommitUnknown
    <3>3. inbox' \in SUBSET Messages /\ effects' \in [Messages -> Nat]
      BY <2>5, <1>d DEF CommitUnknown
    <3> QED
      BY <2>5, <2>f, FaultFacts, <3>2, <3>3 DEF CommitUnknown
  <2>6. CASE OutcomeFails(s)
    <3>1. queue' \in [Messages -> Nat] /\ dlq' \in SUBSET Messages
      BY <2>6, <1>d DEF OutcomeFails
    <3>2. delivery' \in [Slots -> Delivery]
      BY <2>6, Left DEF OutcomeFails
    <3> QED
      BY <2>6, <2>f, FaultFacts, <3>1, <3>2 DEF OutcomeFails
  <2> QED
    BY <1>4, <2>1, <2>2, <2>3, <2>4, <2>5, <2>6 DEF SlotFaults
<1>5. CASE Start
  BY <1>5 DEF Start
<1>6. CASE Stop
  BY <1>6, FaultFacts DEF Stop
<1>7. CASE StopDeadline
  <2>1. \A s \in Slots : [delivery[s] EXCEPT !.cancelled = TRUE] \in Delivery
    BY <1>d DEF Delivery
  <2>2. delivery' \in [Slots -> Delivery]
    BY <1>7, <1>d, <2>1 DEF StopDeadline
  <2> QED
    BY <1>7, <2>2 DEF StopDeadline
<1>8. CASE Crash
  <2>1. \A s \in Slots : [delivery[s] EXCEPT !.stage = "left"] \in Delivery
    BY <1>d DEF Delivery, Stages
  <2>2. delivery' \in [Slots -> Delivery]
    BY <1>8, <1>d, <2>1, FreeFacts DEF Crash
  <2> QED
    BY <1>8, <2>2, FaultFacts DEF Crash
<1>9. CASE UNCHANGED vars
  BY <1>9 DEF vars
<1> QED
  BY <1>1, <1>2, <1>3, <1>4, <1>5, <1>6, <1>7, <1>8, <1>9 DEF Next

-----------------------------------------------------------------------------
(* What keeps the invariant, by what a step does to the deliveries.        *)

\* No inbox row is written.
LEMMA InboxKept ==
  ASSUME TypeOK, TypeOK', EffectsMatchInbox, InsertExclusive, AcksAreProcessed,
         UNCHANGED <<inbox, effects>>,
         \A s \in Slots :
           /\ delivery'[s].stage = "inserted" =>
                delivery[s].stage = "inserted" /\ delivery'[s].msg = delivery[s].msg
           /\ delivery'[s].stage = "ack" =>
                \/ delivery[s].stage = "ack" /\ delivery'[s].msg = delivery[s].msg
                \/ delivery'[s].msg \in inbox
  PROVE  EffectsMatchInbox' /\ InsertExclusive' /\ AcksAreProcessed'
  BY DEF EffectsMatchInbox, InsertExclusive, AcksAreProcessed

\* The transaction of a delivery commits.
LEMMA InboxWritten ==
  ASSUME TypeOK, TypeOK', EffectsMatchInbox, InsertExclusive, AcksAreProcessed,
         NEW s \in Slots, delivery[s].stage = "inserted",
         inbox' = inbox \cup {delivery[s].msg},
         effects' = [effects EXCEPT ![delivery[s].msg] = @ + 1],
         \A o \in Slots \ {s} : delivery'[o] = delivery[o],
         delivery'[s].stage \in {"ack", "retry", "dead"},
         delivery'[s].msg = delivery[s].msg
  PROVE  EffectsMatchInbox' /\ InsertExclusive' /\ AcksAreProcessed'
<1>1. delivery[s].msg \in Messages \ inbox
  BY DEF TypeOK, Delivery, InsertExclusive
<1>2. EffectsMatchInbox'
  BY <1>1 DEF TypeOK, EffectsMatchInbox
<1>3. InsertExclusive'
  BY DEF InsertExclusive
<1>4. AcksAreProcessed'
  BY DEF AcksAreProcessed
<1> QED
  BY <1>2, <1>3, <1>4

\* A transaction inserts the inbox row of its message.
LEMMA InboxInserted ==
  ASSUME TypeOK, TypeOK', EffectsMatchInbox, InsertExclusive, AcksAreProcessed,
         NEW s \in Slots, ~InsertBlocked(s), delivery[s].msg \notin inbox,
         UNCHANGED <<inbox, effects>>,
         \A o \in Slots \ {s} : delivery'[o] = delivery[o],
         delivery'[s].stage = "inserted", delivery'[s].msg = delivery[s].msg
  PROVE  EffectsMatchInbox' /\ InsertExclusive' /\ AcksAreProcessed'
  BY DEF EffectsMatchInbox, InsertExclusive, AcksAreProcessed, InsertBlocked, At

\* Every copy and every record of a message survives the step, or what it
\* stands for is recorded elsewhere.
LEMMA RetainedKept ==
  ASSUME TypeOK, TypeOK', Retained, UNCHANGED published,
         \A m \in Messages : /\ queue[m] > 0 => Kept(m)'
                             /\ m \in inbox => Kept(m)'
                             /\ m \in dlq => Kept(m)'
                             /\ \A s \in Slots :
                                  (Pledged(s) /\ delivery[s].msg = m) => Kept(m)'
  PROVE  Retained'
<1> SUFFICES ASSUME NEW m \in Messages, published'[m] > 0 PROVE Kept(m)'
  BY DEF Retained
<1>1. Kept(m)
  BY DEF Retained
<1> QED
  BY <1>1 DEF Kept

\* No attempt is counted or used.
LEMMA BudgetKept ==
  ASSUME TypeOK, TypeOK', Budget, UNCHANGED <<runs, replays>>,
         \A m \in Messages : attempts'[m] >= attempts[m],
         \A s \in Slots : delivery'[s].stage = "counted" =>
           /\ delivery[s].stage = "counted" /\ delivery'[s].msg = delivery[s].msg
           /\ delivery'[s].attempt = delivery[s].attempt
  PROVE  Budget'
<1> SUFFICES ASSUME NEW m \in Messages
             PROVE  runs'[m] + Cardinality(Pending(m)')
                      <= ConsumerMaxAttempts * replays'[m] + Spent(m)'
  BY DEF Budget
<1>1. Pending(m)' \subseteq Pending(m)
  BY DEF Pending
<1>2. /\ Cardinality(Pending(m)') <= Cardinality(Pending(m))
      /\ Cardinality(Pending(m)) \in Nat /\ Cardinality(Pending(m)') \in Nat
  BY <1>1, PendingFinite, FS_Subset
<1>3. /\ attempts[m] \in Nat /\ attempts'[m] \in Nat /\ attempts'[m] >= attempts[m]
      /\ runs'[m] = runs[m] /\ runs[m] \in Nat
      /\ replays'[m] = replays[m]
  BY DEF TypeOK
<1>4. Spent(m)' >= Spent(m) /\ Spent(m) \in Nat /\ Spent(m)' \in Nat
  BY <1>3, ConsumerAssumption DEF Spent, ConsumerAssumption
<1>5. replays[m] \in Nat /\ ConsumerMaxAttempts * replays[m] \in Nat
  BY ConsumerAssumption DEF TypeOK, ConsumerAssumption
<1>6. runs[m] + Cardinality(Pending(m)) <= ConsumerMaxAttempts * replays[m] + Spent(m)
  BY DEF Budget
<1> DEFINE base == ConsumerMaxAttempts * replays[m]
<1>7. ConsumerMaxAttempts * replays'[m] = base
  BY <1>3
<1> HIDE DEF base
<1> QED
  BY <1>2, <1>3, <1>4, <1>5, <1>6, <1>7 DEF base

\* An attempt is counted: within the limit it is added to both sides.
LEMMA BudgetCounted ==
  ASSUME TypeOK, TypeOK', Budget, NEW s \in Slots, AdvanceAttempt(s)
  PROVE  Budget'
<1> SUFFICES ASSUME NEW m \in Messages
             PROVE  runs'[m] + Cardinality(Pending(m)')
                      <= ConsumerMaxAttempts * replays'[m] + Spent(m)'
  BY DEF Budget
<1>a. delivery[s].msg \in Messages /\ delivery[s].stage = "received"
  BY DEF TypeOK, Delivery, AdvanceAttempt, At
<1>b. /\ runs'[m] = runs[m] /\ runs[m] \in Nat /\ replays'[m] = replays[m]
      /\ attempts[m] \in Nat
  BY DEF AdvanceAttempt, database, TypeOK
<1>d. /\ \A o \in Slots \ {s} : delivery'[o] = delivery[o]
      /\ delivery'[s].stage = "counted" /\ delivery'[s].msg = delivery[s].msg
      /\ delivery'[s].attempt = attempts[delivery[s].msg] + 1
  BY <1>a DEF AdvanceAttempt, TypeOK, Delivery
<1>c. /\ replays[m] \in Nat /\ ConsumerMaxAttempts * replays[m] \in Nat
      /\ ConsumerMaxAttempts \in Nat
  BY ConsumerAssumption DEF TypeOK, ConsumerAssumption
<1>e. runs[m] + Cardinality(Pending(m)) <= ConsumerMaxAttempts * replays[m] + Spent(m)
  BY DEF Budget
<1>f. IsFiniteSet(Pending(m)) /\ Cardinality(Pending(m)) \in Nat /\ Cardinality(Pending(m)') \in Nat
  BY PendingFinite
<1> DEFINE base == ConsumerMaxAttempts * replays[m]
<1>7. ConsumerMaxAttempts * replays'[m] = base
  BY <1>b
<1>g. base \in Nat /\ runs[m] + Cardinality(Pending(m)) <= base + Spent(m)
  BY <1>c, <1>e
<1> HIDE DEF base
<1>1. CASE m = delivery[s].msg /\ attempts[m] < ConsumerMaxAttempts
  <2>1. attempts'[m] = attempts[m] + 1
    BY <1>1 DEF AdvanceAttempt, TypeOK
  <2>2. Pending(m)' \subseteq Pending(m) \cup {s}
    BY <1>d DEF Pending
  <2>3. Cardinality(Pending(m)') <= Cardinality(Pending(m)) + 1
    <3>1. /\ IsFiniteSet(Pending(m) \cup {s})
          /\ Cardinality(Pending(m) \cup {s}) <= Cardinality(Pending(m)) + 1
          /\ Cardinality(Pending(m) \cup {s}) \in Nat
      BY <1>f, FS_AddElement, FS_CardinalityType, SMTT(40)
    <3>2. Cardinality(Pending(m)') <= Cardinality(Pending(m) \cup {s})
      BY <2>2, <3>1, FS_Subset
    <3> QED
      BY <3>1, <3>2, <1>f
  <2>4. Spent(m)' = Spent(m) + 1 /\ Spent(m) \in Nat
    BY <1>1, <1>b, <1>c, <2>1 DEF Spent
  <2> QED
    BY <1>7, <1>g, <1>b, <1>f, <2>3, <2>4
<1>2. CASE ~(m = delivery[s].msg /\ attempts[m] < ConsumerMaxAttempts)
  <2>1. attempts'[m] \in Nat /\ attempts'[m] >= attempts[m]
    BY <1>b DEF AdvanceAttempt, TypeOK
  <2>2. Pending(m)' \subseteq Pending(m)
    BY <1>2, <1>a, <1>b, <1>c, <1>d DEF Pending
  <2>3. Cardinality(Pending(m)') <= Cardinality(Pending(m))
    BY <2>2, <1>f, FS_Subset
  <2>4. Spent(m)' >= Spent(m) /\ Spent(m) \in Nat /\ Spent(m)' \in Nat
    BY <1>b, <1>c, <2>1 DEF Spent
  <2> QED
    BY <1>7, <1>g, <1>b, <1>f, <2>3, <2>4
<1> QED
  BY <1>1, <1>2

\* The handler runs: the attempt counted for it is used.
LEMMA BudgetUsed ==
  ASSUME TypeOK, TypeOK', Budget, NEW s \in Slots, InsertInbox(s)
  PROVE  Budget'
<1> SUFFICES ASSUME NEW m \in Messages
             PROVE  runs'[m] + Cardinality(Pending(m)')
                      <= ConsumerMaxAttempts * replays'[m] + Spent(m)'
  BY DEF Budget
<1>a. /\ delivery[s].msg \in Messages /\ delivery[s].stage = "counted"
      /\ delivery[s].attempt <= ConsumerMaxAttempts
  BY DEF TypeOK, Delivery, InsertInbox, CanDeliver, At
<1>b. /\ UNCHANGED <<attempts, replays>>
      /\ runs' = [runs EXCEPT ![delivery[s].msg] = @ + 1]
      /\ runs[m] \in Nat
  BY DEF InsertInbox, broker, TypeOK
<1>d. /\ \A o \in Slots \ {s} : delivery'[o] = delivery[o]
      /\ delivery'[s].stage = "inserted"
  BY Moved DEF InsertInbox, Stages
<1>c. /\ ConsumerMaxAttempts * replays[m] \in Nat /\ Spent(m) \in Nat
      /\ Spent(m)' = Spent(m)
  BY <1>b, ConsumerAssumption DEF TypeOK, ConsumerAssumption, Spent
<1>e. runs[m] + Cardinality(Pending(m)) <= ConsumerMaxAttempts * replays[m] + Spent(m)
  BY DEF Budget
<1>f. IsFiniteSet(Pending(m)) /\ Cardinality(Pending(m)) \in Nat /\ Cardinality(Pending(m)') \in Nat
  BY PendingFinite
<1>1. Pending(m)' = Pending(m) \ {s}
  BY <1>d DEF Pending
<1>2. s \in Pending(m) <=> m = delivery[s].msg
  BY <1>a DEF Pending
<1>3. Cardinality(Pending(m)')
        = IF m = delivery[s].msg THEN Cardinality(Pending(m)) - 1 ELSE Cardinality(Pending(m))
  BY <1>1, <1>2, <1>f, FS_RemoveElement
<1>4. runs'[m] = IF m = delivery[s].msg THEN runs[m] + 1 ELSE runs[m]
  BY <1>b DEF TypeOK
<1> DEFINE base == ConsumerMaxAttempts * replays[m]
<1>7. ConsumerMaxAttempts * replays'[m] = base
  BY <1>b
<1>g. base \in Nat /\ runs[m] + Cardinality(Pending(m)) <= base + Spent(m)
  BY <1>c, <1>e
<1> HIDE DEF base
<1> QED
  BY <1>7, <1>g, <1>b, <1>c, <1>f, <1>3, <1>4

\* A replay opens a new budget.
LEMMA BudgetReplayed ==
  ASSUME TypeOK, TypeOK', Budget, NEW d \in Messages, ReplayDeadLetter(d)
  PROVE  Budget'
<1> SUFFICES ASSUME NEW m \in Messages
             PROVE  runs'[m] + Cardinality(Pending(m)')
                      <= ConsumerMaxAttempts * replays'[m] + Spent(m)'
  BY DEF Budget
<1>1. /\ Pending(m)' = Pending(m) /\ runs'[m] = runs[m]
      /\ replays'[m] = (IF m = d THEN replays[m] + 1 ELSE replays[m])
      /\ attempts'[m] = (IF m = d THEN 0 ELSE attempts[m])
  BY DEF ReplayDeadLetter, database, TypeOK, Pending
<1>2. /\ runs[m] \in Nat /\ replays[m] \in Nat /\ attempts[m] \in Nat
      /\ ConsumerMaxAttempts \in Nat
  BY ConsumerAssumption DEF TypeOK, ConsumerAssumption
<1>3. /\ Spent(m) \in Nat /\ Spent(m) <= ConsumerMaxAttempts
      /\ Spent(m)' = (IF m = d THEN 0 ELSE Spent(m))
  BY <1>1, <1>2 DEF Spent
<1>4. ConsumerMaxAttempts * (replays[m] + 1) = ConsumerMaxAttempts * replays[m] + ConsumerMaxAttempts
  BY <1>2
<1>5. ConsumerMaxAttempts * replays[m] \in Nat
  BY <1>2
<1>e. runs[m] + Cardinality(Pending(m)) <= ConsumerMaxAttempts * replays[m] + Spent(m)
  BY DEF Budget
<1>f. Cardinality(Pending(m)) \in Nat
  BY PendingFinite
<1> DEFINE base == ConsumerMaxAttempts * replays[m]
<1>6. ConsumerMaxAttempts * replays'[m] = (IF m = d THEN base + ConsumerMaxAttempts ELSE base)
  BY <1>1, <1>4
<1>g. base \in Nat /\ runs[m] + Cardinality(Pending(m)) <= base + Spent(m)
  BY <1>5, <1>e
<1> HIDE DEF base
<1> QED
  BY <1>1, <1>2, <1>3, <1>6, <1>g, <1>f

\* Deliveries go on without a transaction: none becomes an open insert or a
\* counted attempt, and the message of one that gives its copy up is kept
\* elsewhere.
LEMMA DeliveriesGoOn ==
  ASSUME Inv, TypeOK',
         UNCHANGED <<published, inbox, effects, runs, replays>>,
         \A m \in Messages : queue'[m] >= queue[m] /\ attempts'[m] >= attempts[m],
         dlq \subseteq dlq',
         \A s \in Slots :
           \/ delivery'[s] = delivery[s]
           \/ /\ delivery'[s].stage \in {"inserted", "counted"} =>
                   /\ delivery'[s].stage = delivery[s].stage
                   /\ delivery'[s].msg = delivery[s].msg
                   /\ delivery'[s].attempt = delivery[s].attempt
              /\ delivery'[s].stage = "ack" => delivery'[s].msg \in inbox
              /\ Pledged(s) => \/ Pledged(s)' /\ delivery'[s].msg = delivery[s].msg
                               \/ queue'[delivery[s].msg] > 0
                               \/ delivery[s].msg \in inbox \cup dlq'
  PROVE  Inv'
<1>t. /\ TypeOK /\ EffectsMatchInbox /\ InsertExclusive /\ AcksAreProcessed
      /\ Retained /\ Budget
  BY DEF Inv
<1>1. EffectsMatchInbox' /\ InsertExclusive' /\ AcksAreProcessed'
  <2>1. \A s \in Slots :
          /\ delivery'[s].stage = "inserted" =>
               delivery[s].stage = "inserted" /\ delivery'[s].msg = delivery[s].msg
          /\ delivery'[s].stage = "ack" =>
               \/ delivery[s].stage = "ack" /\ delivery'[s].msg = delivery[s].msg
               \/ delivery'[s].msg \in inbox
    OBVIOUS
  <2> QED
    BY <1>t, <2>1, InboxKept
<1>2. Retained'
  <2>1. \A m \in Messages : /\ queue[m] > 0 => Kept(m)'
                            /\ m \in inbox => Kept(m)'
                            /\ m \in dlq => Kept(m)'
    <3> TAKE m \in Messages
    <3>1. queue'[m] \in Nat /\ queue[m] \in Nat /\ queue'[m] >= queue[m]
      BY <1>t DEF TypeOK
    <3> QED
      BY <3>1 DEF Kept
  <2>2. \A m \in Messages : \A s \in Slots :
          (Pledged(s) /\ delivery[s].msg = m) => Kept(m)'
    BY DEF Kept, Pledged
  <2> QED
    BY <1>t, <2>1, <2>2, RetainedKept
<1>3. Budget'
  <2>1. \A s \in Slots : delivery'[s].stage = "counted" =>
          /\ delivery[s].stage = "counted" /\ delivery'[s].msg = delivery[s].msg
          /\ delivery'[s].attempt = delivery[s].attempt
    OBVIOUS
  <2> QED
    BY <1>t, <2>1, BudgetKept
<1> QED
  BY <1>1, <1>2, <1>3 DEF Inv

\* The transaction of a delivery commits, its reply may be lost.
LEMMA Committed ==
  ASSUME Inv, TypeOK', NEW s \in Slots, delivery[s].stage = "inserted",
         inbox' = inbox \cup {delivery[s].msg},
         effects' = [effects EXCEPT ![delivery[s].msg] = @ + 1],
         UNCHANGED <<broker, runs>>,
         \E st \in {"ack", "retry", "dead"} : MoveTo(s, st)
  PROVE  Inv'
<1>t. /\ TypeOK /\ EffectsMatchInbox /\ InsertExclusive /\ AcksAreProcessed
      /\ Retained /\ Budget
  BY DEF Inv
<1>1. /\ \A o \in Slots \ {s} : delivery'[o] = delivery[o]
      /\ delivery'[s].stage \in {"ack", "retry", "dead"}
      /\ delivery'[s].msg = delivery[s].msg
      /\ delivery'[s].owned = delivery[s].owned
  BY <1>t, Moved DEF Stages
<1>2. UNCHANGED <<published, queue, attempts, dlq, replays, runs>>
  BY DEF broker
<1>3. EffectsMatchInbox' /\ InsertExclusive' /\ AcksAreProcessed'
  BY <1>t, <1>1, InboxWritten
<1>4. \A n \in Messages : Kept(n) => Kept(n)'
  BY <1>1, <1>2 DEF Kept, Pledged
<1>5. Retained'
  BY <1>2, <1>4, <1>t DEF Retained
<1>6. Budget'
  <2>1. \A n \in Messages : attempts'[n] >= attempts[n]
    BY <1>2, <1>t DEF TypeOK
  <2> QED
    BY <1>t, <1>1, <1>2, <2>1, BudgetKept
<1> QED
  BY <1>3, <1>5, <1>6 DEF Inv

-----------------------------------------------------------------------------
(* The steps keep the invariant.                                           *)

\* The steps of a goroutine that goes on.
LEMMA SlotStepKeepsInv ==
  ASSUME Inv, TypeOK', NEW s \in Slots, SlotSteps(s)
  PROVE  Inv'
<1> USE DEF broker, database
<1>t. /\ TypeOK /\ EffectsMatchInbox /\ InsertExclusive /\ AcksAreProcessed
      /\ Retained /\ Budget
  BY DEF Inv
<1>d. /\ delivery[s] \in Delivery /\ delivery[s].msg \in Messages
      /\ queue \in [Messages -> Nat] /\ attempts \in [Messages -> Nat]
  BY <1>t DEF TypeOK, Delivery
<1>1. ASSUME NEW m \in Messages, Receive(s, m) PROVE Inv'
  <2>1. /\ \A o \in Slots \ {s} : delivery'[o] = delivery[o]
        /\ delivery'[s].stage = "received" /\ delivery'[s].msg = m /\ delivery'[s].owned
        /\ delivery[s].stage = "idle"
    BY <1>1, <1>t DEF Receive, TypeOK, At
  <2>2. /\ \A n \in Messages \ {m} : queue'[n] = queue[n]
        /\ UNCHANGED <<published, attempts, dlq, replays, inbox, effects, runs>>
    BY <1>1, <1>d DEF Receive
  <2>3. EffectsMatchInbox' /\ InsertExclusive' /\ AcksAreProcessed'
    BY <1>t, <2>1, <2>2, InboxKept
  <2>4. \A n \in Messages : /\ queue[n] > 0 => Kept(n)'
                            /\ n \in inbox => Kept(n)'
                            /\ n \in dlq => Kept(n)'
                            /\ \A o \in Slots :
                                 (Pledged(o) /\ delivery[o].msg = n) => Kept(n)'
    BY <2>1, <2>2 DEF Kept, Pledged
  <2>5. Retained'
    BY <1>t, <2>2, <2>4, RetainedKept
  <2>6. \A n \in Messages : attempts'[n] >= attempts[n]
    BY <1>d, <2>2
  <2>7. Budget'
    BY <1>t, <2>1, <2>2, <2>6, BudgetKept
  <2> QED
    BY <2>3, <2>5, <2>7 DEF Inv
<1>2. CASE RestoreFails(s)
  BY <1>2, <1>t, <1>d, Moved, DeliveriesGoOn DEF RestoreFails, Stages, Pledged, At
<1>3. CASE AdvanceAttempt(s)
  <2>1. /\ \A o \in Slots \ {s} : delivery'[o] = delivery[o]
        /\ delivery'[s].stage = "counted" /\ delivery'[s].msg = delivery[s].msg
        /\ delivery'[s].owned = delivery[s].owned
        /\ UNCHANGED <<published, queue, dlq, replays, inbox, effects, runs>>
    BY <1>3, <1>t DEF AdvanceAttempt, TypeOK, Delivery
  <2>2. EffectsMatchInbox' /\ InsertExclusive' /\ AcksAreProcessed'
    BY <1>t, <2>1, InboxKept
  <2>3. \A n \in Messages : Kept(n) => Kept(n)'
    BY <2>1 DEF Kept, Pledged
  <2>4. Retained'
    BY <2>1, <2>3, <1>t DEF Retained
  <2> QED
    BY <1>3, <1>t, <2>2, <2>4, BudgetCounted DEF Inv
<1>4. CASE TooManyAttempts(s)
  BY <1>4, <1>t, <1>d, Moved, DeliveriesGoOn DEF TooManyAttempts, Stages, Pledged, At
<1>5. CASE InsertInbox(s)
  <2>1. /\ \A o \in Slots \ {s} : delivery'[o] = delivery[o]
        /\ delivery'[s].stage = "inserted" /\ delivery'[s].msg = delivery[s].msg
        /\ delivery'[s].owned = delivery[s].owned
        /\ UNCHANGED <<published, queue, dlq, attempts, replays, inbox, effects>>
        /\ delivery[s].stage = "counted"
    BY <1>5, <1>t, Moved DEF InsertInbox, Stages, CanDeliver, At
  <2>2. EffectsMatchInbox' /\ InsertExclusive' /\ AcksAreProcessed'
    BY <1>5, <1>t, <2>1, InboxInserted DEF InsertInbox
  <2>3. \A n \in Messages : Kept(n) => Kept(n)'
    BY <2>1 DEF Kept, Pledged
  <2>4. Retained'
    BY <2>1, <2>3, <1>t DEF Retained
  <2> QED
    BY <1>5, <1>t, <2>2, <2>4, BudgetUsed DEF Inv
<1>6. CASE AlreadyProcessed(s)
  BY <1>6, <1>t, <1>d, Moved, DeliveriesGoOn DEF AlreadyProcessed, Stages, Pledged, At
<1>7. CASE Commit(s)
  BY <1>7, Moved, Committed, <1>t DEF Commit, At, Stages
<1>8. CASE Rollback(s)
  BY <1>8, <1>t, <1>d, Moved, FailedFacts, DeliveriesGoOn DEF Rollback, Stages, Pledged, At
<1>9. CASE GiveUp(s)
  BY <1>9, <1>t, <1>d, Left, DeliveriesGoOn DEF GiveUp, Pledged
<1>10. CASE ScheduleRetry(s)
  <2>1. \A n \in Messages : queue'[n] >= queue[n]
    BY <1>10, <1>d DEF ScheduleRetry
  <2>2. queue'[delivery[s].msg] > 0
    BY <1>10, <1>d DEF ScheduleRetry
  <2> QED
    BY <1>10, <1>t, <1>d, <2>1, <2>2, Moved, DeliveriesGoOn DEF ScheduleRetry, Stages
<1>11. CASE WriteDeadLetter(s)
  BY <1>11, <1>t, <1>d, Moved, DeliveriesGoOn DEF WriteDeadLetter, Stages
<1>12. CASE Ack(s)
  <2>1. /\ \A o \in Slots \ {s} : delivery'[o] = delivery[o]
        /\ delivery'[s] = Free
        /\ UNCHANGED <<published, queue, dlq, attempts, replays, inbox, effects, runs>>
        /\ delivery[s].stage \in {"ack", "settled"}
    BY <1>12, <1>t DEF Ack, Acked, TypeOK
  <2> QED
    BY <2>1, <1>t, <1>d, FreeFacts, DeliveriesGoOn DEF Pledged, AcksAreProcessed
<1>13. CASE DecodeFails(s)
  BY <1>13, <1>t, <1>d, Moved, DeliveriesGoOn DEF DecodeFails, Stages, Pledged, At
<1> QED
  BY <1>1, <1>2, <1>3, <1>4, <1>5, <1>6, <1>7, <1>8, <1>9, <1>10, <1>11, <1>12, <1>13
     DEF SlotSteps

\* The steps of a goroutine that a fault cuts short.
LEMMA SlotFaultKeepsInv ==
  ASSUME Inv, TypeOK', NEW s \in Slots, SlotFaults(s)
  PROVE  Inv'
<1> USE DEF broker, database
<1>t. TypeOK /\ AcksAreProcessed
  BY DEF Inv
<1>d. /\ delivery[s] \in Delivery /\ delivery[s].msg \in Messages
      /\ queue \in [Messages -> Nat] /\ attempts \in [Messages -> Nat]
  BY <1>t DEF TypeOK, Delivery
<1>1. CASE VisibilityEnds(s)
  <2>1. /\ \A n \in Messages : queue'[n] >= queue[n]
        /\ queue'[delivery[s].msg] > 0
    BY <1>1, <1>d DEF VisibilityEnds
  <2>2. /\ \A o \in Slots \ {s} : delivery'[o] = delivery[o]
        /\ \/ delivery'[s].stage = "idle"
           \/ /\ delivery'[s].stage = delivery[s].stage
              /\ delivery'[s].msg = delivery[s].msg
              /\ delivery'[s].attempt = delivery[s].attempt
    BY <1>1, <1>t, <1>d, FreeFacts DEF VisibilityEnds, TypeOK, Delivery
  <2>3. delivery'[s].stage = "ack" => delivery'[s].msg \in inbox
    BY <2>2, <1>t DEF AcksAreProcessed
  <2> QED
    BY <1>1, <1>d, <2>1, <2>2, <2>3, DeliveriesGoOn DEF VisibilityEnds
<1>2. CASE RenewFails(s)
  <2>1. /\ \A o \in Slots \ {s} : delivery'[o] = delivery[o]
        /\ delivery'[s].stage = delivery[s].stage
        /\ delivery'[s].msg = delivery[s].msg
        /\ delivery'[s].attempt = delivery[s].attempt
        /\ delivery'[s].owned = delivery[s].owned
    BY <1>2, <1>t, <1>d DEF RenewFails, TypeOK, Delivery
  <2> QED
    BY <1>2, <1>t, <1>d, <2>1, DeliveriesGoOn DEF RenewFails, AcksAreProcessed, Pledged
<1>3. CASE AdvanceAttemptFails(s)
  <2>1. \A n \in Messages : attempts'[n] >= attempts[n]
    BY <1>3, <1>d DEF AdvanceAttemptFails
  <2> QED
    BY <1>3, <1>t, <1>d, <2>1, Left, DeliveriesGoOn DEF AdvanceAttemptFails, Pledged
<1>4. CASE InsertFails(s)
  <2>1. PICK st \in {"dead", "retry"} : MoveTo(s, st)
    BY <1>4, FailedFacts DEF InsertFails
  <2> QED
    BY <1>4, <1>t, <1>d, <2>1, Moved, DeliveriesGoOn
       DEF InsertFails, Stages, Pledged, CanDeliver, At
<1>5. CASE CommitUnknown(s)
  BY <1>5, FailedFacts, Committed DEF CommitUnknown, At
<1>6. CASE OutcomeFails(s)
  <2>1. \A n \in Messages : queue'[n] >= queue[n]
    BY <1>6, <1>d DEF OutcomeFails
  <2>2. dlq \subseteq dlq'
    BY <1>6 DEF OutcomeFails
  <2> QED
    BY <1>6, <1>t, <1>d, <2>1, <2>2, Left, DeliveriesGoOn DEF OutcomeFails, Pledged
<1> QED
  BY <1>1, <1>2, <1>3, <1>4, <1>5, <1>6 DEF SlotFaults

LEMMA StepKeepsInv == Inv /\ [Next]_vars => Inv'
<1> SUFFICES ASSUME Inv, [Next]_vars PROVE Inv'
  OBVIOUS
<1> USE DEF broker, database
<1>t. TypeOK /\ TypeOK' /\ AcksAreProcessed
  BY StepKeepsTypes DEF Inv
<1>q. /\ queue \in [Messages -> Nat] /\ attempts \in [Messages -> Nat]
      /\ delivery \in [Slots -> Delivery]
  BY <1>t DEF TypeOK
<1>1. ASSUME NEW m \in Messages, NEW d \in Defects, Publish(m, d) PROVE Inv'
  <2>0. EffectsMatchInbox /\ InsertExclusive /\ Retained /\ Budget
    BY DEF Inv
  <2>1. /\ UNCHANGED <<attempts, dlq, replays, inbox, effects, runs, delivery>>
        /\ queue' = [queue EXCEPT ![m] = @ + 1]
        /\ published' = [published EXCEPT ![m] = @ + 1]
    BY <1>1 DEF Publish
  <2>2. EffectsMatchInbox' /\ InsertExclusive' /\ AcksAreProcessed'
    BY <1>t, <2>0, <2>1, InboxKept
  <2>3. /\ \A n \in Messages : queue'[n] >= queue[n] /\ queue[n] \in Nat /\ queue'[n] \in Nat
        /\ queue'[m] > 0
    BY <1>q, <2>1
  <2>4. Retained'
    <3> SUFFICES ASSUME NEW n \in Messages, published'[n] > 0 PROVE Kept(n)'
      BY DEF Retained
    <3>1. CASE n = m
      BY <3>1, <2>3 DEF Kept
    <3>2. CASE n # m
      <4>1. published[n] > 0
        BY <3>2, <2>1, <1>t DEF TypeOK
      <4>2. Kept(n)
        BY <4>1, <2>0 DEF Retained
      <4> QED
        BY <4>2, <2>1, <2>3 DEF Kept, Pledged
    <3> QED
      BY <3>1, <3>2
  <2>5. Budget'
    BY <2>0, <2>1, <1>t, <1>q, BudgetKept
  <2> QED
    BY <1>t, <2>2, <2>4, <2>5 DEF Inv
<1>2. ASSUME NEW m \in Messages, ReplayDeadLetter(m) PROVE Inv'
  <2>0. EffectsMatchInbox /\ InsertExclusive /\ Retained /\ Budget
    BY DEF Inv
  <2>1. /\ UNCHANGED <<published, inbox, effects, runs, delivery>>
        /\ queue' = [queue EXCEPT ![m] = @ + 1] /\ dlq' = dlq \ {m}
    BY <1>2 DEF ReplayDeadLetter
  <2>2. EffectsMatchInbox' /\ InsertExclusive' /\ AcksAreProcessed'
    BY <1>t, <2>0, <2>1, InboxKept
  <2>3. /\ \A n \in Messages : queue'[n] >= queue[n] /\ queue[n] \in Nat /\ queue'[n] \in Nat
        /\ queue'[m] > 0
    BY <1>q, <2>1
  <2>4. \A n \in Messages : Kept(n) => Kept(n)'
    BY <2>1, <2>3 DEF Kept, Pledged
  <2>5. Retained'
    BY <2>0, <2>1, <2>4 DEF Retained
  <2> QED
    BY <1>2, <1>t, <2>0, <2>2, <2>5, BudgetReplayed DEF Inv
<1>3. ASSUME NEW s \in Slots, SlotSteps(s) PROVE Inv'
  BY <1>3, <1>t, SlotStepKeepsInv
<1>4. ASSUME NEW s \in Slots, SlotFaults(s) PROVE Inv'
  BY <1>4, <1>t, SlotFaultKeepsInv
<1>5. CASE Start \/ Stop \/ UNCHANGED vars
  <2>1. UNCHANGED <<published, queue, attempts, dlq, replays, inbox, effects, runs, delivery>>
    BY <1>5 DEF Start, Stop, vars
  <2> QED
    BY <1>t, <1>q, <2>1, DeliveriesGoOn
<1>6. CASE StopDeadline
  <2>1. \A s \in Slots : /\ delivery'[s].stage = delivery[s].stage
                         /\ delivery'[s].msg = delivery[s].msg
                         /\ delivery'[s].attempt = delivery[s].attempt
                         /\ delivery'[s].owned = delivery[s].owned
    BY <1>6, <1>q DEF StopDeadline, Delivery
  <2>2. UNCHANGED <<published, queue, attempts, dlq, replays, inbox, effects, runs>>
    BY <1>6 DEF StopDeadline
  <2> QED
    BY <1>t, <1>q, <2>1, <2>2, DeliveriesGoOn DEF AcksAreProcessed, Pledged
<1>7. CASE Crash
  <2>1. \A s \in Slots : /\ delivery'[s].stage \in {"left", "idle"}
                         /\ delivery[s].owned => /\ delivery'[s].stage = "left"
                                                 /\ delivery'[s].owned
                                                 /\ delivery'[s].msg = delivery[s].msg
    BY <1>7, <1>q, FreeFacts DEF Crash, Delivery
  <2>2. UNCHANGED <<published, queue, attempts, dlq, replays, inbox, effects, runs>>
    BY <1>7 DEF Crash
  <2> QED
    BY <1>t, <1>q, <2>1, <2>2, DeliveriesGoOn DEF Pledged
<1> QED
  BY <1>1, <1>2, <1>3, <1>4, <1>5, <1>6, <1>7 DEF Next

LEMMA InvHolds == Spec => []Inv
<1>1. Init => Inv
  <2> SUFFICES ASSUME Init PROVE Inv
    OBVIOUS
  <2>1. \A s \in Slots : delivery[s] = Free
    BY DEF Init
  <2>2. TypeOK
    <3>1. /\ 0 \in 0 .. MaxPublishes /\ 0 \in 0 .. MaxReplays /\ 0 \in 0 .. MaxFaults
          /\ "none" \in Defects
      BY ConsumerAssumption DEF ConsumerAssumption, Defects
    <3>2. delivery \in [Slots -> Delivery]
      BY FreeFacts DEF Init
    <3> QED
      BY <3>1, <3>2 DEF Init, TypeOK
  <2>3. EffectsMatchInbox /\ InsertExclusive /\ AcksAreProcessed /\ Retained
    BY <2>1, FreeFacts
       DEF Init, EffectsMatchInbox, InsertExclusive, AcksAreProcessed, Retained
  <2>4. Budget
    <3>1. \A m \in Messages : Pending(m) = {}
      BY <2>1, FreeFacts DEF Pending
    <3> QED
      BY <3>1, FS_EmptySet, ConsumerAssumption
         DEF Budget, Init, Spent, ConsumerAssumption
  <2> QED
    BY <2>2, <2>3, <2>4 DEF Inv
<1> QED
  BY <1>1, StepKeepsInv, PTL DEF Spec

\* Type correctness of the consumer.
THEOREM TypeCorrect == Spec => []TypeOK
  BY InvHolds, PTL DEF Inv

\* The handler's changes are committed once, together with the inbox row,
\* however many deliveries of the message run at the same time.
THEOREM ExactlyOnce == Spec => []EffectOnce
<1>1. Inv => EffectOnce
  BY DEF Inv, EffectsMatchInbox, EffectOnce
<1> QED
  BY <1>1, InvHolds, PTL

\* Until a message is processed or a dead letter, the broker has a copy.
THEOREM NeverDropped == Spec => []NothingDropped
<1>1. Inv => NothingDropped
  BY DEF Inv, Retained, Kept, Pledged, NothingDropped, Live
<1> QED
  BY <1>1, InvHolds, PTL

\* The handler runs at most ConsumerMaxAttempts times per budget.
THEOREM BudgetRespected == Spec => []RunsWithinBudget
<1>1. Inv => RunsWithinBudget
  <2> SUFFICES ASSUME Inv, NEW m \in Messages
               PROVE  runs[m] <= ConsumerMaxAttempts * (1 + replays[m])
    BY DEF RunsWithinBudget
  <2>1. /\ runs[m] \in Nat /\ replays[m] \in Nat /\ attempts[m] \in Nat
        /\ ConsumerMaxAttempts \in Nat
    BY ConsumerAssumption DEF Inv, TypeOK, ConsumerAssumption
  <2>2. Spent(m) \in Nat /\ Spent(m) <= ConsumerMaxAttempts
    BY <2>1 DEF Spent
  <2>3. ConsumerMaxAttempts * (1 + replays[m])
          = ConsumerMaxAttempts * replays[m] + ConsumerMaxAttempts
    BY <2>1
  <2>4. ConsumerMaxAttempts * replays[m] \in Nat
    BY <2>1
  <2>5. runs[m] + Cardinality(Pending(m)) <= ConsumerMaxAttempts * replays[m] + Spent(m)
    BY DEF Inv, Budget
  <2>6. Cardinality(Pending(m)) \in Nat
    BY PendingFinite
  <2> DEFINE base == ConsumerMaxAttempts * replays[m]
  <2>7. /\ ConsumerMaxAttempts * (1 + replays[m]) = base + ConsumerMaxAttempts
        /\ base \in Nat
        /\ runs[m] + Cardinality(Pending(m)) <= base + Spent(m)
    BY <2>3, <2>4, <2>5
  <2> HIDE DEF base
  <2> QED
    BY <2>1, <2>2, <2>6, <2>7
<1> QED
  BY <1>1, InvHolds, PTL
=============================================================================
