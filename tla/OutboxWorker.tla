---------------------------- MODULE OutboxWorker ----------------------------
(***************************************************************************)
(* The publishing side of the reliable messages (cool-next/outbox/         *)
(* enqueuer.go, worker.go, store/database.go): business transactions       *)
(* enqueue messages, several Worker instances claim them in batches, call  *)
(* the Publisher in one goroutine per message, renew the lease meanwhile   *)
(* and settle the row; an operator replays dead messages.                  *)
(*                                                                         *)
(* A task is one claimedRecord with the goroutine of publish() that works  *)
(* on it.  Workers crash, database calls fail with or without effect, the  *)
(* Publisher fails before or after the broker took the message.            *)
(***************************************************************************)
EXTENDS OutboxTable, Backoff, FiniteSets

CONSTANTS
  Workers,             \* Worker instances, one per process
  BatchSize,           \* WorkerConfig.BatchSize
  PublishTimeout,      \* WorkerConfig.PublishTimeout
  PublishMaxAttempts,  \* WorkerConfig.PublishMaxAttempts
  PublishRetryBase,    \* WorkerConfig.PublishRetryBase
  PublishRetryMax,     \* WorkerConfig.PublishRetryMax
  LeaseBound,          \* bound: no renewal takes a lease beyond this length
  MaxFaults            \* bound: crashes, stops and failed database calls

\* checkWorker() refuses any other configuration.
ASSUME WorkerAssumption ==
  /\ BatchSize \in Nat \ {0}
  /\ PublishMaxAttempts \in Nat \ {0}
  /\ PublishTimeout \in Nat \ {0}
  /\ PublishTimeout < LeaseDuration
  /\ PublishRetryBase \in Nat \ {0}
  /\ PublishRetryMax \in Nat
  /\ PublishRetryBase <= PublishRetryMax
  /\ LeaseBound \in Nat
  /\ MaxFaults \in Nat

VARIABLES
  table,        \* the outbox table
  business,     \* business[m]: the transaction that enqueues m
  malformed,    \* messages NewRecord stored and envelope() rejects
  brokered,     \* messages the broker accepted at least once
  tasks,        \* the claimed records in the workers' hands
  pc,           \* pc[w]: where the goroutine of run() is
  nextExpired,  \* nextExpired[w]: Worker.nextExpired
  stopping,     \* stopping[w]: the claim context is cancelled
  killed,       \* killed[w]: the publish context is cancelled
  timely,       \* TRUE: in this behaviour workers keep up with the clock
  faults        \* faults so far

producer == <<business, malformed>>
vars == <<table, producer, brokered, tasks, pc, nextExpired, stopping, killed, timely, faults>>
control == <<pc, nextExpired, stopping, killed>>

ClaimStages == {"claim1", "claim2", "claim3"}

Task == [worker   : Workers,
         msg      : Messages,
         token    : Tokens,
         attempts : Nat,
         stage    : {"claimed", "publishing", "mark", "fail"},
         accepted : BOOLEAN,   \* the broker took this publication
         lost     : BOOLEAN,   \* the ownership channel holds an error
         left     : Nat]       \* time left to Publish

TypeOK ==
  /\ table \in [Messages -> Row]
  /\ business \in [Messages -> {"open", "committed", "rolledBack"}]
  /\ malformed \in SUBSET Messages
  /\ brokered \in SUBSET Messages
  /\ tasks \in SUBSET Task
  /\ pc \in [Workers -> ClaimStages \cup {"stopped", "publish", "cleanup", "wait"}]
  /\ nextExpired \in [Workers -> BOOLEAN]
  /\ stopping \in [Workers -> BOOLEAN]
  /\ killed \in [Workers -> BOOLEAN]
  /\ timely \in BOOLEAN
  /\ faults \in Nat

Init ==
  /\ table = [m \in Messages |-> Absent]
  /\ business = [m \in Messages |-> "open"]
  /\ malformed = {}
  /\ brokered = {}
  /\ tasks = {}
  /\ pc = [w \in Workers |-> "stopped"]
  /\ nextExpired = [w \in Workers |-> FALSE]
  /\ stopping = [w \in Workers |-> FALSE]
  /\ killed = [w \in Workers |-> FALSE]
  /\ timely \in BOOLEAN
  /\ faults = 0

TasksOf(w) == {k \in tasks : k.worker = w}

Fault == faults < MaxFaults /\ faults' = faults + 1

----------------------------------------------------------------------------
(* Business transactions: the message is inserted by the transaction that  *)
(* changes the business data, so both become visible together or not.      *)

\* `bad': the record passes toRecord and NewRecord, but the worker will not
\* be able to restore its envelope.
EnqueueCommit(m, bad) ==
  /\ business[m] = "open"
  /\ business' = [business EXCEPT ![m] = "committed"]
  /\ malformed' = IF bad THEN malformed \cup {m} ELSE malformed
  /\ table' = [table EXCEPT ![m] = Enqueued]
  /\ UNCHANGED <<brokered, tasks, control, faults, timely>>

EnqueueRollback(m) ==
  /\ business[m] = "open"
  /\ business' = [business EXCEPT ![m] = "rolledBack"]
  /\ UNCHANGED <<table, malformed, brokered, tasks, control, faults, timely>>

----------------------------------------------------------------------------
(* Lifecycle of a worker.                                                  *)

OnStart(w) ==
  /\ pc[w] = "stopped"
  /\ pc' = [pc EXCEPT ![w] = "claim1"]
  /\ stopping' = [stopping EXCEPT ![w] = FALSE]
  /\ killed' = [killed EXCEPT ![w] = FALSE]
  /\ UNCHANGED <<table, producer, brokered, tasks, nextExpired, faults, timely>>

\* OnStop cancels the claims; publications in flight may finish ...
OnStop(w) ==
  /\ pc[w] # "stopped"
  /\ ~stopping[w]
  /\ Fault
  /\ stopping' = [stopping EXCEPT ![w] = TRUE]
  /\ UNCHANGED <<table, producer, brokered, tasks, pc, nextExpired, killed, timely>>

\* ... until the stop deadline cancels them too.
StopDeadline(w) ==
  /\ pc[w] # "stopped"
  /\ stopping[w]
  /\ ~killed[w]
  /\ killed' = [killed EXCEPT ![w] = TRUE]
  /\ UNCHANGED <<table, producer, brokered, tasks, pc, nextExpired, stopping, faults, timely>>

\* The process dies; a restarted process builds a new Worker.
Crash(w) ==
  /\ pc[w] # "stopped"
  /\ Fault
  /\ pc' = [pc EXCEPT ![w] = "stopped"]
  /\ tasks' = tasks \ TasksOf(w)
  /\ nextExpired' = [nextExpired EXCEPT ![w] = FALSE]
  /\ UNCHANGED <<table, producer, brokered, stopping, killed, timely>>

\* The select at the end of an iteration: the poll timer fires ...
PollAgain(w) ==
  /\ pc[w] = "wait"
  /\ pc' = [pc EXCEPT ![w] = "claim1"]
  /\ UNCHANGED <<table, producer, brokered, tasks, nextExpired, stopping, killed, faults, timely>>

\* Mutant of Exit: the loop waits for the publish context instead.
ExitWhenKilled(w) ==
  /\ pc[w] = "wait"
  /\ killed[w]
  /\ pc' = [pc EXCEPT ![w] = "stopped"]
  /\ UNCHANGED <<table, producer, brokered, tasks, nextExpired, stopping, killed, faults, timely>>

\* ... or the claim context is done, and run() returns.
Exit(w) ==
  /\ pc[w] = "wait"
  /\ stopping[w]
  /\ pc' = [pc EXCEPT ![w] = "stopped"]
  /\ UNCHANGED <<table, producer, brokered, tasks, nextExpired, stopping, killed, faults, timely>>

----------------------------------------------------------------------------
(* claimBatch: up to three claim transactions, alternating between         *)
(* available rows and rows with an expired lease.  Which of the candidates *)
(* LIMIT leaves out is not modelled: any choice of the right size.         *)

Batch(w) == {k \in TasksOf(w) : k.stage = "claimed"}

FirstLimit == (BatchSize + 1) \div 2

Limit(w) ==
  LET room == IF Cardinality(Batch(w)) < BatchSize
                THEN BatchSize - Cardinality(Batch(w)) ELSE 0
  IN  CASE pc[w] = "claim1" -> FirstLimit
        [] pc[w] = "claim2" -> room
        [] OTHER            -> IF FirstLimit < BatchSize THEN room ELSE 0

\* Mutant of ClaimsExpired: a worker only ever claims available rows.
ClaimsAvailableOnly(w) == FALSE

\* nextExpired is flipped when the batch begins, before the second claim.
ClaimsExpired(w) == IF pc[w] = "claim3" THEN ~nextExpired[w] ELSE nextExpired[w]

Candidates(w) ==
  {m \in Messages : IF ClaimsExpired(w) THEN Expired(table[m]) ELSE Available(table[m])}

InUse(m) == {k.token : k \in {j \in tasks : j.msg = m}} \cup {table[m].token}

\* Mutant of NewToken: the token is not random.
SameToken(m) == CHOOSE t \in Tokens : TRUE

NewToken(m) == CHOOSE t \in Tokens : t \notin InUse(m)

Selections(w) ==
  {S \in SUBSET Candidates(w) :
     /\ Cardinality(S) <= Limit(w)
     /\ Cardinality(S) < Limit(w) => S = Candidates(w)
     /\ \A m \in S : ~(Tokens \subseteq InUse(m))}

ClaimedTable(S) ==
  [m \in Messages |-> IF m \in S THEN Claimed(table[m], NewToken(m)) ELSE table[m]]

NewTask(w, m) ==
  [worker |-> w, msg |-> m, token |-> NewToken(m),
   attempts |-> Claimed(table[m], NewToken(m)).attempts,
   stage |-> "claimed", accepted |-> FALSE, lost |-> FALSE, left |-> PublishTimeout]

AfterClaim(w) ==
  CASE pc[w] = "claim1" -> "claim2"
    [] pc[w] = "claim2" -> "claim3"
    [] OTHER            -> "publish"

FlipExpired(w) ==
  nextExpired' = [nextExpired EXCEPT ![w] = IF pc[w] = "claim1" THEN ~@ ELSE @]

Claim(w) ==
  /\ pc[w] \in ClaimStages
  /\ Limit(w) > 0 => ~stopping[w]
  /\ \E S \in Selections(w) :
       /\ table' = ClaimedTable(S)
       /\ tasks' = tasks \cup {NewTask(w, m) : m \in S}
  /\ pc' = [pc EXCEPT ![w] = AfterClaim(w)]
  /\ FlipExpired(w)
  /\ UNCHANGED <<producer, brokered, stopping, killed, faults, timely>>

\* A claim transaction fails, before or after its commit took effect.  The
\* whole batch is given up: rows claimed so far stay leased.  The worker
\* terminates unless it is being stopped.
ClaimFails(w) ==
  /\ pc[w] \in ClaimStages
  /\ Limit(w) > 0
  /\ IF stopping[w] THEN UNCHANGED faults ELSE Fault
  /\ \E S \in Selections(w) : table' \in {table, ClaimedTable(S)}
  /\ tasks' = tasks \ TasksOf(w)
  /\ pc' = [pc EXCEPT ![w] = IF stopping[w] THEN "wait" ELSE "stopped"]
  /\ FlipExpired(w)
  /\ UNCHANGED <<producer, brokered, stopping, killed, timely>>

----------------------------------------------------------------------------
(* publish: one goroutine per claimed record.                              *)

Advance(k, stage) == tasks' = (tasks \ {k}) \cup {[k EXCEPT !.stage = stage]}

Drop(k) == tasks' = tasks \ {k}

\* Mutant of StartPublish: the error of envelope() is swallowed.
StartPublishSwallows(k) ==
  /\ pc[k.worker] = "publish"
  /\ k.stage = "claimed"
  /\ Advance(k, IF k.msg \in malformed THEN "mark" ELSE "publishing")
  /\ UNCHANGED <<table, producer, brokered, control, faults, timely>>

\* A record envelope() cannot restore never reaches the Publisher.
StartPublish(k) ==
  /\ pc[k.worker] = "publish"
  /\ k.stage = "claimed"
  /\ Advance(k, IF k.msg \in malformed THEN "fail" ELSE "publishing")
  /\ UNCHANGED <<table, producer, brokered, control, faults, timely>>

BrokerAccepts(k) ==
  /\ k.stage = "publishing"
  /\ ~k.accepted
  /\ brokered' = brokered \cup {k.msg}
  /\ tasks' = (tasks \ {k}) \cup {[k EXCEPT !.accepted = TRUE]}
  /\ UNCHANGED <<table, producer, control, faults, timely>>

Renew(k) ==
  /\ k.stage = "publishing"
  /\ ~k.lost
  /\ ~killed[k.worker]
  /\ HoldsClaim(table[k.msg], k.token)
  /\ table[k.msg].lease + LeaseDuration <= LeaseBound
  /\ table' = [table EXCEPT ![k.msg] = Renewed(@)]
  /\ UNCHANGED <<producer, brokered, tasks, control, faults, timely>>

\* The renewal finds the claim gone, or cannot be executed.
RenewFails(k) ==
  /\ k.stage = "publishing"
  /\ ~k.lost
  /\ IF HoldsClaim(table[k.msg], k.token) /\ ~killed[k.worker]
        THEN Fault ELSE UNCHANGED faults
  /\ tasks' = (tasks \ {k}) \cup {[k EXCEPT !.lost = TRUE]}
  /\ UNCHANGED <<table, producer, brokered, control, timely>>

\* Publish returns nil, which the Publisher does only once the broker took
\* the message, or an error, which says nothing about the broker.
PublishReturns(k, ok) ==
  /\ k.stage = "publishing"
  /\ ok => k.accepted
  /\ IF killed[k.worker] \/ k.lost THEN Drop(k)
     ELSE Advance(k, IF ok THEN "mark" ELSE "fail")
  /\ UNCHANGED <<table, producer, brokered, control, faults, timely>>

\* Mutant of Settle: the statement matches the message id only.
SettleAnyClaim(k, new) ==
  /\ table' = IF ~killed[k.worker] THEN [table EXCEPT ![k.msg] = new] ELSE table
  /\ Drop(k)
  /\ UNCHANGED <<producer, brokered, control, faults, timely>>

\* The statement that settles a claim does nothing when the claim is lost
\* or the publish context is cancelled; the goroutine ends all the same.
Settle(k, new) ==
  /\ table' = IF HoldsClaim(table[k.msg], k.token) /\ ~killed[k.worker]
                 THEN [table EXCEPT ![k.msg] = new] ELSE table
  /\ Drop(k)
  /\ UNCHANGED <<producer, brokered, control, faults, timely>>

MarkSent(k) ==
  /\ k.stage = "mark"
  /\ Settle(k, MarkedSent(table[k.msg]))

RetryDelay(k) ==
  Jittered(PublishRetryBase, PublishRetryMax, k.attempts) \cup {PublishRetryMax}

\* Mutant of FinishFailure: the limit is off by one.
FinishFailureLate(k) ==
  /\ k.stage = "fail"
  /\ IF k.attempts > PublishMaxAttempts
       THEN Settle(k, MarkedDead(table[k.msg]))
       ELSE \E delay \in RetryDelay(k) : Settle(k, MarkedRetry(table[k.msg], delay))

FinishFailure(k) ==
  /\ k.stage = "fail"
  /\ IF k.attempts >= PublishMaxAttempts
       THEN Settle(k, MarkedDead(table[k.msg]))
       ELSE \E delay \in RetryDelay(k) : Settle(k, MarkedRetry(table[k.msg], delay))

\* The settling statement is not executed; the row stays leased.
SettleFails(k) ==
  /\ k.stage \in {"mark", "fail"}
  /\ Fault
  /\ Drop(k)
  /\ UNCHANGED <<table, producer, brokered, control, timely>>

BatchDone(w) ==
  /\ pc[w] = "publish"
  /\ TasksOf(w) = {}
  /\ pc' = [pc EXCEPT ![w] = "cleanup"]
  /\ UNCHANGED <<table, producer, brokered, tasks, nextExpired, stopping, killed, faults, timely>>

----------------------------------------------------------------------------
(* Retention, replay and time.                                             *)

CleanupSelections ==
  LET old == {m \in Messages : Cleanable(table[m])}
  IN  {S \in SUBSET old : /\ Cardinality(S) <= BatchSize
                          /\ Cardinality(S) < BatchSize => S = old}

\* The cleanup is due, or not yet; a cancelled claim context makes it a
\* no-op.
Cleanup(w) ==
  /\ pc[w] = "cleanup"
  /\ \/ UNCHANGED table
     \/ /\ ~stopping[w]
        /\ \E S \in CleanupSelections :
             table' = [m \in Messages |-> IF m \in S THEN Absent ELSE table[m]]
  /\ pc' = [pc EXCEPT ![w] = "wait"]
  /\ UNCHANGED <<producer, brokered, tasks, nextExpired, stopping, killed, faults, timely>>

\* The cleanup or the status snapshot fails: the worker terminates.
CleanupFails(w) ==
  /\ pc[w] = "cleanup"
  /\ ~stopping[w]
  /\ Fault
  /\ pc' = [pc EXCEPT ![w] = "stopped"]
  /\ UNCHANGED <<table, producer, brokered, tasks, nextExpired, stopping, killed, timely>>

ReplayDead(m) ==
  /\ table[m].status = "dead"
  /\ table' = [table EXCEPT ![m] = Replayed(@)]
  /\ UNCHANGED <<producer, brokered, tasks, control, faults, timely>>

\* A worker that keeps up takes no noticeable time between a claim and the
\* settling of its row besides Publish, and leaves Publish when its timeout
\* fires.
KeepsUp == \A k \in tasks : k.stage = "publishing" /\ k.left > 0

Tick ==
  /\ timely => KeepsUp
  /\ table' = [m \in Messages |-> Older(table[m])]
  /\ tasks' = IF timely THEN {[k EXCEPT !.left = Less(@)] : k \in tasks} ELSE tasks
  /\ UNCHANGED <<producer, brokered, control, faults, timely>>

----------------------------------------------------------------------------

WorkerNext(w) ==
  \/ OnStart(w) \/ OnStop(w) \/ StopDeadline(w) \/ Crash(w)
  \/ PollAgain(w) \/ Exit(w)
  \/ Claim(w) \/ ClaimFails(w) \/ BatchDone(w) \/ Cleanup(w) \/ CleanupFails(w)

TaskNext(k) ==
  \/ StartPublish(k) \/ BrokerAccepts(k)
  \/ Renew(k) \/ RenewFails(k)
  \/ \E ok \in BOOLEAN : PublishReturns(k, ok)
  \/ MarkSent(k) \/ FinishFailure(k) \/ SettleFails(k)

Next ==
  \/ \E m \in Messages : \E bad \in BOOLEAN : EnqueueCommit(m, bad)
  \/ \E m \in Messages : EnqueueRollback(m) \/ ReplayDead(m)
  \/ \E w \in Workers : WorkerNext(w)
  \/ \E k \in tasks : TaskNext(k)
  \/ Tick

Spec == Init /\ [][Next]_vars

(* Fairness.  Every goroutine is scheduled, a supervisor restarts a worker *)
(* that ended, Publish returns (its context times out) and the database    *)
(* clock runs, workers keeping up with it.  Faults, stops, replays and     *)
(* successful publications need never happen.                              *)
Settles(k) ==
  \/ StartPublish(k) \/ MarkSent(k) \/ FinishFailure(k)
  \/ \E ok \in BOOLEAN : PublishReturns(k, ok)

Runs(w) ==
  \/ OnStart(w) \/ PollAgain(w) \/ Claim(w) \/ (stopping[w] /\ ClaimFails(w))
  \/ BatchDone(w) \/ Cleanup(w)

TimelyInit == Init /\ timely = TRUE

FairSpec ==
  /\ TimelyInit
  /\ [][Next]_vars
  /\ \A w \in Workers : /\ WF_vars(Runs(w))
                        /\ SF_vars(Exit(w))
                        /\ WF_vars(\E k \in TasksOf(w) : Settles(k))
  /\ SF_vars(Tick)

----------------------------------------------------------------------------
(* Properties.                                                             *)

\* A message of a committed business transaction is never lost on the way
\* to the broker, and one of a rolled back transaction never gets there: a
\* row is only marked sent, and only removed, once the broker has taken the
\* message, whichever workers crashed, stalled or were replaced meanwhile.
NoLossBeforeBroker ==
  \A m \in Messages :
    /\ table[m].status = "sent" => m \in brokered
    /\ (business[m] = "committed" /\ table[m].status = "absent") => m \in brokered
    /\ (business[m] # "committed") => (table[m].status = "absent" /\ m \notin brokered)

\* The attempt counter decides retry or dead, although the worker compares
\* the value it read with its claim: a row that waits has attempts left, a
\* dead row has used them all, and no row ever counts beyond the limit.
AttemptsWithinLimit ==
  \A m \in Messages :
    /\ table[m].attempts <= PublishMaxAttempts
    /\ table[m].status \in {"pending", "retry"} => table[m].attempts < PublishMaxAttempts
    /\ table[m].status = "dead" => table[m].attempts = PublishMaxAttempts

\* A claim token identifies one task: two goroutines never settle the same
\* message under the same claim, and the one whose token the row carries
\* has the row's attempt count.
ClaimsAreExclusive ==
  /\ \A j, k \in tasks : (j.msg = k.msg /\ j.token = k.token) => j = k
  /\ \A k \in tasks :
       HoldsClaim(table[k.msg], k.token) => table[k.msg].attempts = k.attempts

\* PublishTimeout < LeaseDuration (checkWorker) is what keeps publishers
\* apart: workers that keep up with the clock never publish one message at
\* the same time, and the task at work still owns its row when it settles.
OnePublisherAtATime ==
  timely =>
    /\ \A j, k \in tasks : j.msg = k.msg => j = k
    /\ \A k \in tasks : HoldsClaim(table[k.msg], k.token)

\* Every committed message is settled again and again, whatever happened to
\* the workers: it is sent or dead, and a replayed one gets there too.
EventuallySettled ==
  \A m \in Messages :
    business[m] = "committed" ~> table[m].status \in {"sent", "dead", "absent"}

\* A stop ends: once OnStop cancelled the claims, the worker's loop returns.
StopTerminates ==
  \A w \in Workers : stopping[w] ~> pc[w] = "stopped"

----------------------------------------------------------------------------
(* The workers only use the store the way OutboxStore allows: every step   *)
(* here is a step of the store with the tokens in the workers' hands.      *)

HeldTokens == [m \in Messages |-> {k.token : k \in {j \in tasks : j.msg = m}}]

Store == INSTANCE OutboxStore WITH
           held         <- HeldTokens,
           DelayBound   <- PublishRetryMax,
           AttemptBound <- PublishMaxAttempts

\* Every worker step is a step some caller of the store may take, so all
\* promises of OutboxStore hold of the table the workers share.
ImplementsStore == Store!Spec

\* The claim columns are set exactly while the row is leased, and only a
\* waiting row has its availability postponed, whichever worker wrote it last.
ClaimColumnsMatchStatus == Store!ClaimColumnsMatchStatus

\* As long as its lease runs, a claim is only ended by the worker whose task
\* holds its token: no other worker, no late task of the same message, no
\* replay and no cleanup touches the row of a live claim.
LiveClaimEndedByHolderOnly == Store!LiveClaimEndedByHolderOnly

\* A row marked sent is never published again by way of the table, whatever a
\* late task still tries: its only change is its removal after the retention.
SentIsFinal == Store!SentIsFinal
=============================================================================
