-------------------------- MODULE OutboxWorkerProofs --------------------------
(***************************************************************************)
(* Proofs about OutboxWorker, for any number of workers, messages, faults  *)
(* and retries: what the runs check on two workers and one message.        *)
(***************************************************************************)
EXTENDS OutboxWorker, TLAPS

-----------------------------------------------------------------------------
(* Each statement on the outbox table, applied where its WHERE clause      *)
(* allows it, takes a well-formed row to a well-formed row.                *)

\* A missing row and a new one are well-formed.
LEMMA AbsentRows ==
  /\ Absent \in Row /\ ColumnsMatch(Absent)
  /\ Enqueued \in Row /\ ColumnsMatch(Enqueued)
  BY TableAssumption DEF TableAssumption, Row, Statuses, Absent, Enqueued, ColumnsMatch

\* A claim of a row that is available or whose lease ran out.
LEMMA ClaimedRow ==
  ASSUME NEW r \in Row, ColumnsMatch(r), NEW t \in Tokens, Available(r) \/ Expired(r)
  PROVE  Claimed(r, t) \in Row /\ ColumnsMatch(Claimed(r, t))
<1> DEFINE n == IF r.status = "leased" THEN r.attempts ELSE r.attempts + 1
<1>1. n \in Nat
  BY DEF Row
<1>2. Claimed(r, t) = [r EXCEPT !.status = "leased", !.attempts = n,
                                !.token = t, !.lease = LeaseDuration]
  BY DEF Claimed
<1>3. r.wait = 0
  BY DEF Available, Expired, ColumnsMatch, Row
<1> HIDE DEF n
<1>4. Claimed(r, t) \in Row
  BY <1>1, <1>2, TableAssumption DEF TableAssumption, Row, Statuses
<1>5. /\ Claimed(r, t).status = "leased"
      /\ Claimed(r, t).token = t
      /\ Claimed(r, t).wait = r.wait
  BY <1>2 DEF Row
<1> QED
  BY <1>3, <1>4, <1>5, TableAssumption DEF TableAssumption, ColumnsMatch

\* A renewal, the three ways to settle a claim, and a replay.
LEMMA SettledRows ==
  ASSUME NEW r \in Row, ColumnsMatch(r)
  PROVE  /\ Renewed(r) \in Row
         /\ r.status = "leased" => ColumnsMatch(Renewed(r))
         /\ MarkedSent(r) \in Row
         /\ r.status = "leased" => ColumnsMatch(MarkedSent(r))
         /\ \A delay \in Nat :
              /\ MarkedRetry(r, delay) \in Row
              /\ ColumnsMatch(MarkedRetry(r, delay))
         /\ MarkedDead(r) \in Row
         /\ r.status = "leased" => ColumnsMatch(MarkedDead(r))
         /\ Replayed(r) \in Row
         /\ ColumnsMatch(Replayed(r))
<1> USE DEF Row, Statuses
<1>0. \A s \in Statuses : Released(r, s) \in Row
  BY DEF Released
<1>1. /\ Renewed(r) \in Row
      /\ Renewed(r).status = r.status
      /\ Renewed(r).token = r.token
      /\ Renewed(r).wait = r.wait
  BY TableAssumption DEF TableAssumption, Renewed
<1>2. MarkedSent(r) \in Row
  BY <1>0 DEF MarkedSent
<1>3. /\ MarkedSent(r).status = "sent"
      /\ MarkedSent(r).token = NoToken
      /\ MarkedSent(r).lease = 0
      /\ MarkedSent(r).wait = r.wait
  BY DEF MarkedSent, Released
<1>4. ASSUME NEW delay \in Nat
      PROVE  MarkedRetry(r, delay) \in Row
  BY <1>0 DEF MarkedRetry
<1>5. ASSUME NEW delay \in Nat
      PROVE  /\ MarkedRetry(r, delay).status = "retry"
             /\ MarkedRetry(r, delay).token = NoToken
             /\ MarkedRetry(r, delay).lease = 0
  BY DEF MarkedRetry, Released
<1>6. MarkedDead(r) \in Row
  BY <1>0 DEF MarkedDead
<1>7. /\ MarkedDead(r).status = "dead"
      /\ MarkedDead(r).token = NoToken
      /\ MarkedDead(r).lease = 0
      /\ MarkedDead(r).wait = r.wait
  BY DEF MarkedDead, Released
<1>8. Replayed(r) \in Row
  BY <1>0 DEF Replayed
<1>9. /\ Replayed(r).status = "retry"
      /\ Replayed(r).token = NoToken
      /\ Replayed(r).lease = 0
  BY DEF Replayed, Released
<1> HIDE DEF Row, Statuses
<1>10. r.wait \in Nat /\ (r.status = "leased" => ~(r.wait > 0))
  BY DEF Row, ColumnsMatch
<1>11. r.status = "leased" => ColumnsMatch(Renewed(r))
  BY <1>1 DEF ColumnsMatch
<1>12. r.status = "leased" => ColumnsMatch(MarkedSent(r))
  BY <1>3, <1>10 DEF ColumnsMatch
<1>13. \A delay \in Nat : ColumnsMatch(MarkedRetry(r, delay))
  BY <1>5 DEF ColumnsMatch
<1>14. r.status = "leased" => ColumnsMatch(MarkedDead(r))
  BY <1>7, <1>10 DEF ColumnsMatch
<1>15. ColumnsMatch(Replayed(r))
  BY <1>9 DEF ColumnsMatch
<1> QED
  BY <1>1, <1>2, <1>4, <1>6, <1>8, <1>11, <1>12, <1>13, <1>14, <1>15

\* The passing of time.
LEMMA OlderRow ==
  ASSUME NEW r \in Row, ColumnsMatch(r)
  PROVE  /\ Older(r) \in Row
         /\ ColumnsMatch(Older(r))
         /\ Older(r).status = r.status
         /\ Older(r).attempts = r.attempts
         /\ Older(r).token = r.token
<1> DEFINE a == IF r.status = "sent" /\ r.age < Retention THEN r.age + 1 ELSE r.age
<1>1. /\ a \in Nat
      /\ Less(r.wait) \in Nat /\ (Less(r.wait) > 0 => r.wait > 0)
      /\ Less(r.lease) \in Nat /\ (Less(r.lease) > 0 => r.lease > 0)
  BY DEF Less, Row
<1>2. Older(r) = [r EXCEPT !.wait = Less(r.wait), !.lease = Less(r.lease), !.age = a]
  BY DEF Older
<1> HIDE DEF a
<1> QED
  BY <1>1, <1>2 DEF Row, ColumnsMatch

-----------------------------------------------------------------------------
(* The inductive invariant.  NoLossBeforeBroker needs to know what a task  *)
(* in flight has achieved, AttemptsWithinLimit that a task's counter is    *)
(* the row's while it holds the claim, OnePublisherAtATime that the lease  *)
(* outlives the publication it covers.                                     *)

RowsMatch ==
  \A m \in Messages : /\ ColumnsMatch(table[m])
                      /\ table[m].status = "absent" => table[m] = Absent

TasksTruthful ==
  \A k \in tasks : /\ business[k.msg] = "committed"
                   /\ k.accepted => k.msg \in brokered
                   /\ k.stage = "mark" => k.accepted

LeaseOutlivesTask ==
  timely => \A k \in tasks : /\ HoldsClaim(table[k.msg], k.token)
                             /\ k.left < table[k.msg].lease

Inv ==
  /\ TypeOK
  /\ RowsMatch
  /\ TasksTruthful
  /\ NoLossBeforeBroker
  /\ AttemptsWithinLimit
  /\ ClaimsAreExclusive
  /\ LeaseOutlivesTask

-----------------------------------------------------------------------------
(* Lemmas about the operators of the model.                                *)

\* The rows a claim transaction may take, and the tokens it gives them.
LEMMA SelectionFacts ==
  ASSUME NEW w \in Workers, NEW S \in Selections(w)
  PROVE  /\ S \subseteq Messages
         /\ \A m \in S : /\ Available(table[m]) \/ Expired(table[m])
                         /\ NewToken(m) \in Tokens
                         /\ NewToken(m) \notin InUse(m)
<1>1. S \subseteq Candidates(w) /\ \A m \in S : \E t \in Tokens : t \notin InUse(m)
  BY DEF Selections
<1>2. \A m \in S : NewToken(m) \in Tokens /\ NewToken(m) \notin InUse(m)
  BY <1>1 DEF NewToken
<1> QED
  BY <1>1, <1>2 DEF Candidates

\* A claimed row is well-formed, and counts one attempt more unless it was
\* taken over.
LEMMA ClaimedFacts ==
  ASSUME NEW r \in Row, NEW t \in Tokens, ColumnsMatch(r), Available(r) \/ Expired(r)
  PROVE  /\ Claimed(r, t) \in Row
         /\ ColumnsMatch(Claimed(r, t))
         /\ Claimed(r, t).status = "leased"
         /\ Claimed(r, t).token = t
         /\ Claimed(r, t).lease = LeaseDuration
         /\ Claimed(r, t).attempts = IF Expired(r) THEN r.attempts ELSE r.attempts + 1
<1>1. Claimed(r, t) \in Row /\ ColumnsMatch(Claimed(r, t))
  BY ClaimedRow
<1>2. Expired(r) <=> r.status = "leased"
  BY DEF Available, Expired
<1> QED
  BY <1>1, <1>2 DEF Claimed, Row

\* The rows the settling statements, a renewal and a replay leave.
LEMMA SettledFacts ==
  ASSUME NEW r \in Row
  PROVE  /\ /\ Renewed(r).status = r.status /\ Renewed(r).token = r.token
            /\ Renewed(r).attempts = r.attempts
            /\ Renewed(r).lease = r.lease + LeaseDuration
         /\ /\ MarkedSent(r).status = "sent" /\ MarkedSent(r).token = NoToken
            /\ MarkedSent(r).attempts = r.attempts
         /\ /\ MarkedDead(r).status = "dead" /\ MarkedDead(r).token = NoToken
            /\ MarkedDead(r).attempts = r.attempts
         /\ /\ Replayed(r).status = "retry" /\ Replayed(r).token = NoToken
            /\ Replayed(r).attempts = 0
         /\ \A delay \in Nat : /\ MarkedRetry(r, delay).status = "retry"
                               /\ MarkedRetry(r, delay).token = NoToken
                               /\ MarkedRetry(r, delay).attempts = r.attempts
  BY DEF Row, Renewed, MarkedSent, MarkedDead, Replayed, MarkedRetry, Released

\* The delays retryDelay can return are lengths of time.
LEMMA RetryDelays == \A k \in Task : RetryDelay(k) \subseteq 0 .. PublishRetryMax
  BY WorkerAssumption DEF WorkerAssumption, RetryDelay, Jittered

-----------------------------------------------------------------------------
(* What keeps the invariant, by the shape of a step.                       *)

\* Goroutines end and nothing else changes.
LEMMA TasksEnd ==
  ASSUME Inv, TypeOK', tasks' \subseteq tasks,
         UNCHANGED <<table, business, brokered, timely>>
  PROVE  Inv'
  BY DEF Inv, RowsMatch, TasksTruthful, NoLossBeforeBroker, AttemptsWithinLimit,
         ClaimsAreExclusive, LeaseOutlivesTask, HoldsClaim

\* A goroutine moves on with its claim, and the broker may take its message.
LEMMA TaskMoves ==
  ASSUME Inv, TypeOK', NEW k \in tasks, NEW new \in Task,
         tasks' = (tasks \ {k}) \cup {new},
         /\ new.msg = k.msg /\ new.token = k.token
         /\ new.attempts = k.attempts /\ new.left = k.left,
         brokered \subseteq brokered' /\ brokered' \subseteq brokered \cup {k.msg},
         new.accepted => k.msg \in brokered',
         new.stage = "mark" => new.accepted,
         UNCHANGED <<table, business, timely>>
  PROVE  Inv'
<1> USE DEF Inv
<1>1. RowsMatch'
  BY DEF RowsMatch
<1>2. TasksTruthful'
  BY DEF TasksTruthful
<1>3. NoLossBeforeBroker'
  BY DEF NoLossBeforeBroker, TasksTruthful
<1>4. AttemptsWithinLimit'
  BY DEF AttemptsWithinLimit
<1>5. ClaimsAreExclusive'
  BY DEF ClaimsAreExclusive, HoldsClaim
<1>6. LeaseOutlivesTask'
  BY DEF LeaseOutlivesTask, HoldsClaim
<1> QED
  BY <1>1, <1>2, <1>3, <1>4, <1>5, <1>6

\* One row of a message changes while goroutines may end.
LEMMA RowChanges ==
  ASSUME Inv, TypeOK', NEW m \in Messages, NEW new \in Row,
         table' = [table EXCEPT ![m] = new], tasks' \subseteq tasks,
         UNCHANGED <<business, brokered, timely>>,
         business[m] = "committed", ColumnsMatch(new), new.status # "absent",
         new.status = "sent" => m \in brokered,
         /\ new.attempts <= PublishMaxAttempts
         /\ new.status \in {"pending", "retry"} => new.attempts < PublishMaxAttempts
         /\ new.status = "dead" => new.attempts = PublishMaxAttempts,
         \A k \in tasks' : k.msg = m =>
           /\ HoldsClaim(new, k.token) => new.attempts = k.attempts
           /\ timely => HoldsClaim(new, k.token) /\ k.left < new.lease
  PROVE  Inv'
<1> USE DEF Inv
<1>0. table'[m] = new /\ \A n \in Messages \ {m} : table'[n] = table[n]
  BY DEF TypeOK
<1>t. \A k \in tasks : k.msg \in Messages
  BY DEF TypeOK, Task
<1>1. RowsMatch'
  BY <1>0 DEF RowsMatch
<1>2. TasksTruthful'
  BY DEF TasksTruthful
<1>3. NoLossBeforeBroker'
  BY <1>0 DEF NoLossBeforeBroker
<1>4. AttemptsWithinLimit'
  BY <1>0 DEF AttemptsWithinLimit
<1>5. ClaimsAreExclusive'
  BY <1>0, <1>t DEF ClaimsAreExclusive
<1>6. LeaseOutlivesTask'
  BY <1>0, <1>t DEF LeaseOutlivesTask
<1> QED
  BY <1>1, <1>2, <1>3, <1>4, <1>5, <1>6
\* A claim transaction commits: its rows get fresh tokens, and the tasks for
\* them are started, or lost with the reply.
LEMMA RowsClaimed ==
  ASSUME Inv, TypeOK', NEW w \in Workers, NEW S \in Selections(w),
         table' = ClaimedTable(S),
         \/ tasks' = tasks \cup {NewTask(w, m) : m \in S}
         \/ tasks' \subseteq tasks,
         UNCHANGED <<business, brokered, timely>>
  PROVE  Inv'
<1> USE DEF Inv
<1>a. \A m \in Messages : table[m] \in Row /\ ColumnsMatch(table[m])
  BY DEF TypeOK, RowsMatch
<1>s. /\ S \subseteq Messages
      /\ \A m \in S : /\ Available(table[m]) \/ Expired(table[m])
                      /\ NewToken(m) \in Tokens
                      /\ NewToken(m) \notin InUse(m)
  BY SelectionFacts
<1>b. \A m \in Messages : m \notin S => table'[m] = table[m]
  BY DEF ClaimedTable
<1>c. \A m \in S : /\ table'[m] = Claimed(table[m], NewToken(m))
                   /\ ColumnsMatch(table'[m])
                   /\ table'[m].status = "leased"
                   /\ table'[m].token = NewToken(m)
                   /\ table'[m].lease = LeaseDuration
                   /\ table'[m].attempts = IF Expired(table[m]) THEN table[m].attempts
                                                               ELSE table[m].attempts + 1
  <2> TAKE m \in S
  <2>1. table'[m] = Claimed(table[m], NewToken(m))
    BY <1>s DEF ClaimedTable
  <2> QED
    BY <2>1, <1>a, <1>s, ClaimedFacts
\* No task has the token of a new claim.
<1>d. \A k \in tasks : k.msg \in S => NewToken(k.msg) # k.token
  BY <1>s DEF InUse
<1>e. \A k \in tasks' \ tasks : \E m \in S :
        /\ k.msg = m /\ k.token = NewToken(m)
        /\ k.attempts = table'[m].attempts
        /\ k.left = PublishTimeout /\ ~k.accepted /\ k.stage = "claimed"
        /\ k = NewTask(w, m)
  BY <1>c DEF NewTask
<1>t. \A k \in tasks : k.msg \in Messages
  BY DEF TypeOK, Task
<1>1. RowsMatch'
  BY <1>b, <1>c DEF RowsMatch
<1>2. TasksTruthful'
  <2>1. \A m \in S : business[m] = "committed"
    BY <1>s, <1>a DEF NoLossBeforeBroker, Available, Expired
  <2> QED
    BY <1>e, <2>1 DEF TasksTruthful
<1>3. NoLossBeforeBroker'
  <2>1. \A m \in S : business[m] = "committed"
    BY <1>s, <1>a DEF NoLossBeforeBroker, Available, Expired
  <2> QED
    BY <1>b, <1>c, <2>1 DEF NoLossBeforeBroker
<1>4. AttemptsWithinLimit'
  <2> SUFFICES ASSUME NEW m \in Messages
               PROVE  /\ table'[m].attempts <= PublishMaxAttempts
                      /\ table'[m].status \in {"pending", "retry"} => table'[m].attempts < PublishMaxAttempts
                      /\ table'[m].status = "dead" => table'[m].attempts = PublishMaxAttempts
    BY DEF AttemptsWithinLimit
  <2>1. CASE m \in S /\ Expired(table[m])
    BY <1>c, <2>1 DEF AttemptsWithinLimit
  <2>2. CASE m \in S /\ ~Expired(table[m])
    <3>1. Available(table[m])
      BY <1>s, <2>2
    <3>2. table[m].attempts < PublishMaxAttempts /\ table[m].attempts \in Nat
      BY <3>1, <1>a DEF AttemptsWithinLimit, Available, Row
    <3> QED
      BY <1>c, <2>2, <3>2, WorkerAssumption DEF WorkerAssumption
  <2>3. CASE m \notin S
    BY <1>b, <2>3 DEF AttemptsWithinLimit
  <2> QED
    BY <2>1, <2>2, <2>3
<1>5. ClaimsAreExclusive'
  <2>1. ASSUME NEW j \in tasks', NEW k \in tasks', j.msg = k.msg, j.token = k.token
        PROVE  j = k
    BY <2>1, <1>d, <1>e DEF ClaimsAreExclusive
  <2>2. ASSUME NEW k \in tasks', HoldsClaim(table'[k.msg], k.token)
        PROVE  table'[k.msg].attempts = k.attempts
    <3>1. CASE k \in tasks
      BY <3>1, <2>2, <1>b, <1>c, <1>d, <1>t DEF ClaimsAreExclusive, HoldsClaim
    <3>2. CASE k \notin tasks
      BY <3>2, <1>e
    <3> QED
      BY <3>1, <3>2
  <2> QED
    BY <2>1, <2>2 DEF ClaimsAreExclusive
<1>6. LeaseOutlivesTask'
  <2> SUFFICES ASSUME timely, NEW k \in tasks'
               PROVE  HoldsClaim(table'[k.msg], k.token) /\ k.left < table'[k.msg].lease
    BY DEF LeaseOutlivesTask
  <2>1. CASE k \in tasks
    <3>1. HoldsClaim(table[k.msg], k.token) /\ k.left < table[k.msg].lease
      BY <2>1 DEF LeaseOutlivesTask
    <3>2. k.left \in Nat /\ table[k.msg].lease \in Nat
      BY <2>1, <1>a, <1>t DEF TypeOK, Task, Row
    <3>3. k.msg \notin S
      BY <3>1, <3>2, <1>s DEF HoldsClaim, Available, Expired
    <3> QED
      BY <3>1, <3>3, <1>b, <1>t, <2>1
  <2>2. CASE k \notin tasks
    BY <2>2, <1>e, <1>c, WorkerAssumption DEF HoldsClaim, WorkerAssumption
  <2> QED
    BY <2>1, <2>2
<1> QED
  BY <1>1, <1>2, <1>3, <1>4, <1>5, <1>6
\* Sent rows whose retention is over are removed.
LEMMA RowsRemoved ==
  ASSUME Inv, TypeOK', NEW S \in SUBSET Messages,
         \A m \in S : Cleanable(table[m]),
         table' = [m \in Messages |-> IF m \in S THEN Absent ELSE table[m]],
         UNCHANGED <<tasks, business, brokered, timely>>
  PROVE  Inv'
<1> USE DEF Inv
<1>1. \A m \in Messages : IF m \in S THEN table'[m] = Absent ELSE table'[m] = table[m]
  OBVIOUS
<1>2. /\ Absent.status = "absent" /\ Absent.attempts = 0 /\ Absent.token = NoToken
      /\ ColumnsMatch(Absent)
  BY AbsentRows DEF Absent
<1>3. \A m \in S : /\ table[m].status = "sent"
                   /\ m \in brokered /\ business[m] = "committed"
  BY DEF Cleanable, NoLossBeforeBroker
<1>t. \A k \in tasks : k.msg \in Messages
  BY DEF TypeOK, Task
<1>4. RowsMatch'
  BY <1>1, <1>2 DEF RowsMatch
<1>5. TasksTruthful'
  BY DEF TasksTruthful
<1>6. NoLossBeforeBroker'
  BY <1>1, <1>2, <1>3 DEF NoLossBeforeBroker
<1>7. AttemptsWithinLimit'
  BY <1>1, <1>2, WorkerAssumption DEF AttemptsWithinLimit, WorkerAssumption
<1>8. ClaimsAreExclusive'
  BY <1>1, <1>2, <1>t DEF ClaimsAreExclusive, HoldsClaim
<1>9. LeaseOutlivesTask'
  BY <1>1, <1>3, <1>t DEF LeaseOutlivesTask, HoldsClaim
<1> QED
  BY <1>4, <1>5, <1>6, <1>7, <1>8, <1>9

\* A missing row does not age.
LEMMA AbsentStays == Older(Absent) = Absent
  BY TableAssumption DEF Older, Absent, Less, TableAssumption

\* The database clock moves on; with workers that keep up every lease and
\* the publication it covers get shorter together.
LEMMA TimePasses ==
  ASSUME Inv, TypeOK', Tick
  PROVE  Inv'
<1> USE DEF Inv
<1>0. UNCHANGED <<business, brokered, timely>>
  BY DEF Tick, producer
<1>1. \A m \in Messages : /\ table[m] \in Row /\ ColumnsMatch(table[m])
                          /\ table'[m] = Older(table[m])
                          /\ ColumnsMatch(table'[m])
                          /\ table'[m].status = table[m].status
                          /\ table'[m].attempts = table[m].attempts
                          /\ table'[m].token = table[m].token
                          /\ table'[m].lease = Less(table[m].lease)
  <2> TAKE m \in Messages
  <2>1. table[m] \in Row /\ ColumnsMatch(table[m]) /\ table'[m] = Older(table[m])
    BY DEF TypeOK, RowsMatch, Tick
  <2>2. Older(table[m]).lease = Less(table[m].lease)
    BY <2>1 DEF Older, Row
  <2> QED
    BY <2>1, <2>2, OlderRow
<1>2. \A k \in tasks' : \E j \in tasks :
        /\ k.msg = j.msg /\ k.token = j.token /\ k.attempts = j.attempts
        /\ k.stage = j.stage /\ k.accepted = j.accepted /\ k.worker = j.worker /\ k.lost = j.lost
        /\ k = j \/ k = [j EXCEPT !.left = Less(j.left)]
        /\ timely => k.left = Less(j.left)
  <2> TAKE k \in tasks'
  <2>1. CASE timely
    <3>1. PICK j \in tasks : k = [j EXCEPT !.left = Less(j.left)]
      BY <2>1 DEF Tick
    <3>2. j \in Task
      BY DEF TypeOK
    <3> QED
      BY <3>1, <3>2 DEF Task
  <2>2. CASE ~timely
    BY <2>2 DEF Tick
  <2> QED
    BY <2>1, <2>2
<1>t. \A k \in tasks : k \in Task /\ k.msg \in Messages
  BY DEF TypeOK, Task
<1>3. RowsMatch'
  BY <1>1, AbsentStays DEF RowsMatch
<1>4. TasksTruthful'
  BY <1>0, <1>2 DEF TasksTruthful
<1>5. NoLossBeforeBroker'
  BY <1>0, <1>1 DEF NoLossBeforeBroker
<1>6. AttemptsWithinLimit'
  BY <1>1 DEF AttemptsWithinLimit
<1>7. ClaimsAreExclusive'
  <2>1. ASSUME NEW j \in tasks', NEW k \in tasks', j.msg = k.msg, j.token = k.token
        PROVE  j = k
    <3>1. CASE timely
      <4>1. PICK a \in tasks : j = [a EXCEPT !.left = Less(a.left)]
        BY <3>1 DEF Tick
      <4>2. PICK b \in tasks : k = [b EXCEPT !.left = Less(b.left)]
        BY <3>1 DEF Tick
      <4>3. a.msg = b.msg /\ a.token = b.token
        BY <2>1, <4>1, <4>2, <1>t DEF Task
      <4> QED
        BY <4>1, <4>2, <4>3 DEF ClaimsAreExclusive
    <3>2. CASE ~timely
      BY <2>1, <3>2 DEF Tick, ClaimsAreExclusive
    <3> QED
      BY <3>1, <3>2
  <2>2. ASSUME NEW k \in tasks', HoldsClaim(table'[k.msg], k.token)
        PROVE  table'[k.msg].attempts = k.attempts
    BY <2>2, <1>1, <1>2, <1>t DEF ClaimsAreExclusive, HoldsClaim
  <2> QED
    BY <2>1, <2>2 DEF ClaimsAreExclusive
<1>8. LeaseOutlivesTask'
  <2> SUFFICES ASSUME timely, NEW k \in tasks'
               PROVE  HoldsClaim(table'[k.msg], k.token) /\ k.left < table'[k.msg].lease
    BY <1>0 DEF LeaseOutlivesTask
  <2>1. PICK j \in tasks : k.msg = j.msg /\ k.token = j.token /\ k.left = Less(j.left)
    BY <1>2
  <2>2. HoldsClaim(table[j.msg], j.token) /\ j.left < table[j.msg].lease
    BY DEF LeaseOutlivesTask
  <2>3. j.left > 0
    BY DEF Tick, KeepsUp
  <2>4. j.left \in Nat /\ table[j.msg].lease \in Nat /\ j.msg \in Messages
    BY <1>1, <1>t DEF Task, Row
  <2>5. Less(j.left) < Less(table[j.msg].lease)
    BY <2>2, <2>3, <2>4 DEF Less
  <2> QED
    BY <2>1, <2>2, <2>4, <2>5, <1>1 DEF HoldsClaim
<1> QED
  BY <1>3, <1>4, <1>5, <1>6, <1>7, <1>8
-----------------------------------------------------------------------------
(* The steps.                                                              *)

\* Every step keeps the types.
LEMMA StepKeepsTypes ==
  ASSUME TypeOK, RowsMatch, [Next]_vars
  PROVE  TypeOK'
<1>a. \A m \in Messages : table[m] \in Row /\ ColumnsMatch(table[m])
  BY DEF TypeOK, RowsMatch
<1>b. \A k \in tasks : /\ k \in Task /\ k.msg \in Messages /\ k.worker \in Workers
                       /\ k.token \in Tokens /\ k.attempts \in Nat /\ k.left \in Nat
  BY DEF TypeOK, Task
<1>c. \A m \in Messages :
        /\ Renewed(table[m]) \in Row /\ MarkedSent(table[m]) \in Row
        /\ MarkedDead(table[m]) \in Row /\ Replayed(table[m]) \in Row
        /\ \A delay \in Nat : MarkedRetry(table[m], delay) \in Row
        /\ Older(table[m]) \in Row
  BY <1>a, SettledRows, OlderRow
<1>1. ASSUME NEW m \in Messages, NEW bad \in BOOLEAN, EnqueueCommit(m, bad) PROVE TypeOK'
  BY <1>1, AbsentRows DEF TypeOK, EnqueueCommit, control
<1>2. ASSUME NEW m \in Messages, EnqueueRollback(m) PROVE TypeOK'
  BY <1>2 DEF TypeOK, EnqueueRollback, control
<1>3. ASSUME NEW m \in Messages, ReplayDead(m) PROVE TypeOK'
  BY <1>3, <1>c DEF TypeOK, ReplayDead, control, producer
<1>4. ASSUME NEW w \in Workers, WorkerNext(w) PROVE TypeOK'
  <2> USE DEF TypeOK, producer
  <2>1. CASE OnStart(w)
    BY <2>1 DEF OnStart, ClaimStages
  <2>2. CASE OnStop(w)
    BY <2>2 DEF OnStop, Fault
  <2>3. CASE StopDeadline(w)
    BY <2>3 DEF StopDeadline
  <2>4. CASE Crash(w)
    BY <2>4 DEF Crash, Fault
  <2>5. CASE PollAgain(w)
    BY <2>5 DEF PollAgain, ClaimStages
  <2>6. CASE Exit(w)
    BY <2>6 DEF Exit
  <2>7. ASSUME NEW S \in Selections(w) PROVE ClaimedTable(S) \in [Messages -> Row]
    BY <1>a, SelectionFacts, ClaimedFacts DEF ClaimedTable
  <2>8. CASE Claim(w)
    <3>1. PICK S \in Selections(w) : /\ table' = ClaimedTable(S)
                                     /\ tasks' = tasks \cup {NewTask(w, m) : m \in S}
      BY <2>8 DEF Claim
    <3>2. ASSUME NEW m \in S PROVE NewTask(w, m) \in Task
      <4>1. m \in Messages /\ NewToken(m) \in Tokens /\ Claimed(table[m], NewToken(m)) \in Row
        BY SelectionFacts, <1>a, ClaimedFacts
      <4> QED
        BY <4>1, WorkerAssumption DEF NewTask, Task, Row, WorkerAssumption
    <3> QED
      BY <2>8, <3>1, <3>2, <2>7 DEF Claim, FlipExpired, AfterClaim, ClaimStages
  <2>9. CASE ClaimFails(w)
    <3>1. table' \in [Messages -> Row]
      BY <2>9, <2>7 DEF ClaimFails
    <3>2. faults' \in Nat
      BY <2>9 DEF ClaimFails, Fault
    <3>3. nextExpired' \in [Workers -> BOOLEAN]
      BY <2>9 DEF ClaimFails, FlipExpired
    <3>4. pc' \in [Workers -> ClaimStages \cup {"stopped", "publish", "cleanup", "wait"}]
      BY <2>9 DEF ClaimFails
    <3> QED
      BY <2>9, <3>1, <3>2, <3>3, <3>4 DEF ClaimFails
  <2>10. CASE BatchDone(w)
    BY <2>10 DEF BatchDone
  <2>11. CASE Cleanup(w)
    BY <2>11, AbsentRows DEF Cleanup
  <2>12. CASE CleanupFails(w)
    BY <2>12 DEF CleanupFails, Fault
  <2> QED
    BY <1>4, <2>1, <2>2, <2>3, <2>4, <2>5, <2>6, <2>8, <2>9, <2>10, <2>11, <2>12 DEF WorkerNext
<1>5. ASSUME NEW k \in tasks, TaskNext(k) PROVE TypeOK'
  <2> USE DEF TypeOK, producer, control
  <2>0. \A s \in {"claimed", "publishing", "mark", "fail"} : [k EXCEPT !.stage = s] \in Task
    BY <1>b DEF Task
  <2>1. CASE StartPublish(k)
    BY <2>1, <2>0 DEF StartPublish, Advance
  <2>2. CASE BrokerAccepts(k)
    <3>1. [k EXCEPT !.accepted = TRUE] \in Task
      BY <1>b DEF Task
    <3> QED
      BY <2>2, <3>1, <1>b DEF BrokerAccepts
  <2>3. CASE Renew(k)
    BY <2>3, <1>b, <1>c DEF Renew
  <2>4. CASE RenewFails(k)
    <3>1. [k EXCEPT !.lost = TRUE] \in Task
      BY <1>b DEF Task
    <3>2. faults' \in Nat
      BY <2>4 DEF RenewFails, Fault
    <3> QED
      BY <2>4, <3>1, <3>2 DEF RenewFails
  <2>5. ASSUME NEW ok \in BOOLEAN, PublishReturns(k, ok) PROVE TypeOK'
    BY <2>5, <2>0 DEF PublishReturns, Advance, Drop
  <2>6. CASE MarkSent(k)
    BY <2>6, <1>b, <1>c DEF MarkSent, Settle, Drop
  <2>7. CASE FinishFailure(k)
    <3>1. RetryDelay(k) \subseteq Nat
      BY <1>b, RetryDelays, WorkerAssumption DEF WorkerAssumption
    <3> QED
      BY <2>7, <3>1, <1>b, <1>c DEF FinishFailure, Settle, Drop
  <2>8. CASE SettleFails(k)
    BY <2>8 DEF SettleFails, Fault, Drop
  <2> QED
    BY <1>5, <2>1, <2>2, <2>3, <2>4, <2>5, <2>6, <2>7, <2>8 DEF TaskNext
<1>6. CASE Tick
  <2>1. \A k \in tasks : [k EXCEPT !.left = Less(@)] \in Task
    BY <1>b DEF Task, Less
  <2> QED
    BY <1>6, <2>1, <1>c DEF TypeOK, Tick, producer, control
<1>7. CASE UNCHANGED vars
  BY <1>7 DEF TypeOK, vars, producer
<1> QED
  BY <1>1, <1>2, <1>3, <1>4, <1>5, <1>6, <1>7 DEF Next
\* The statement that settles a claim keeps the invariant: the row it writes
\* was claimed by this task, so it carries the task's attempt count.
LEMMA SettleKeepsInv ==
  ASSUME Inv, TypeOK', NEW k \in tasks, NEW new \in Row, Settle(k, new),
         HoldsClaim(table[k.msg], k.token) => ColumnsMatch(new),
         new.attempts = table[k.msg].attempts,
         \/ new.status = "sent" /\ k.stage = "mark"
         \/ new.status = "retry" /\ k.attempts < PublishMaxAttempts
         \/ new.status = "dead" /\ k.attempts >= PublishMaxAttempts,
         new.token = NoToken
  PROVE  Inv'
<1> USE DEF Inv
<1>0. /\ tasks' = tasks \ {k}
      /\ UNCHANGED <<business, brokered, timely>>
  BY DEF Settle, Drop, producer
<1>1. /\ k.msg \in Messages /\ k.token \in Tokens /\ k.attempts \in Nat
      /\ table[k.msg].attempts \in Nat
  BY DEF TypeOK, Task, Row
<1>2. CASE ~(HoldsClaim(table[k.msg], k.token) /\ ~killed[k.worker])
  BY <1>0, <1>2, TasksEnd DEF Settle
<1>3. CASE HoldsClaim(table[k.msg], k.token) /\ ~killed[k.worker]
  <2>1. table' = [table EXCEPT ![k.msg] = new]
    BY <1>3 DEF Settle
  <2>2. table[k.msg].attempts = k.attempts /\ k.attempts <= PublishMaxAttempts
    BY <1>1, <1>3 DEF ClaimsAreExclusive, AttemptsWithinLimit
  <2>3. business[k.msg] = "committed" /\ (k.stage = "mark" => k.msg \in brokered)
    BY DEF TasksTruthful
  <2>4. \A j \in tasks' : j.msg = k.msg => ~timely /\ ~HoldsClaim(new, j.token)
    <3> TAKE j \in tasks'
    <3> HAVE j.msg = k.msg
    <3>1. ~timely
      BY <1>0 DEF LeaseOutlivesTask, ClaimsAreExclusive, HoldsClaim
    <3> QED
      BY <3>1 DEF HoldsClaim
  <2>5. /\ new.attempts <= PublishMaxAttempts /\ new.status # "absent"
        /\ new.status \in {"pending", "retry"} => new.attempts < PublishMaxAttempts
        /\ new.status = "dead" => new.attempts = PublishMaxAttempts
        /\ new.status = "sent" => k.msg \in brokered
    BY <1>1, <2>2, <2>3, WorkerAssumption DEF WorkerAssumption
  <2>6. ColumnsMatch(new) /\ tasks' \subseteq tasks
    BY <1>0, <1>3
  <2> QED
    BY <1>0, <1>1, <2>1, <2>3, <2>4, <2>5, <2>6, RowChanges
<1> QED
  BY <1>2, <1>3

\* Every step of a publishing goroutine keeps the invariant.
LEMMA TaskStepKeepsInv ==
  ASSUME Inv, TypeOK', NEW k \in tasks, TaskNext(k)
  PROVE  Inv'
<1> USE DEF Inv
<1>a. /\ k \in Task /\ k.msg \in Messages /\ k.worker \in Workers
      /\ k.token \in Tokens /\ k.attempts \in Nat
      /\ table[k.msg] \in Row /\ ColumnsMatch(table[k.msg])
  BY DEF TypeOK, Task, RowsMatch
<1>b. \A s \in {"claimed", "publishing", "mark", "fail"} :
        LET new == [k EXCEPT !.stage = s]
        IN  /\ new \in Task /\ new.msg = k.msg /\ new.token = k.token
            /\ new.attempts = k.attempts /\ new.left = k.left
            /\ new.accepted = k.accepted /\ new.stage = s
  BY <1>a DEF Task
<1>c. /\ MarkedSent(table[k.msg]) \in Row /\ MarkedDead(table[k.msg]) \in Row
      /\ Renewed(table[k.msg]) \in Row
      /\ \A delay \in Nat : MarkedRetry(table[k.msg], delay) \in Row
      /\ HoldsClaim(table[k.msg], k.token) =>
           /\ ColumnsMatch(MarkedSent(table[k.msg]))
           /\ ColumnsMatch(MarkedDead(table[k.msg]))
           /\ ColumnsMatch(Renewed(table[k.msg]))
           /\ \A delay \in Nat : ColumnsMatch(MarkedRetry(table[k.msg], delay))
  BY <1>a, SettledRows DEF HoldsClaim
<1>d. (k.accepted => k.msg \in brokered) /\ business[k.msg] = "committed"
  BY DEF TasksTruthful
<1>1. CASE StartPublish(k)
  <2>1. PICK s \in {"fail", "publishing"} : tasks' = (tasks \ {k}) \cup {[k EXCEPT !.stage = s]}
    BY <1>1 DEF StartPublish, Advance
  <2> QED
    BY <1>1, <2>1, <1>b, <1>d, TaskMoves DEF StartPublish, producer
<1>2. CASE BrokerAccepts(k)
  <2> DEFINE new == [k EXCEPT !.accepted = TRUE]
  <2>1. /\ new \in Task /\ new.msg = k.msg /\ new.token = k.token
        /\ new.attempts = k.attempts /\ new.left = k.left /\ new.accepted
    BY <1>a DEF Task
  <2>2. /\ tasks' = (tasks \ {k}) \cup {new} /\ brokered' = brokered \cup {k.msg}
        /\ UNCHANGED <<table, business, timely>>
    BY <1>2 DEF BrokerAccepts, producer
  <2> HIDE DEF new
  <2> QED
    BY <2>1, <2>2, TaskMoves
<1>3. CASE Renew(k)
  <2> DEFINE new == Renewed(table[k.msg])
  <2>1. /\ new.status = table[k.msg].status /\ new.token = table[k.msg].token
        /\ new.attempts = table[k.msg].attempts
        /\ new.lease = table[k.msg].lease + LeaseDuration
    BY <1>a, SettledFacts
  <2>2. /\ table' = [table EXCEPT ![k.msg] = new] /\ tasks' \subseteq tasks
        /\ UNCHANGED <<business, brokered, timely>>
        /\ HoldsClaim(table[k.msg], k.token)
    BY <1>3 DEF Renew, producer
  <2>3. /\ new.attempts <= PublishMaxAttempts /\ new.status = "leased"
        /\ new \in Row /\ ColumnsMatch(new)
    BY <1>a, <1>c, <2>1, <2>2 DEF AttemptsWithinLimit, HoldsClaim
  <2>4. \A j \in tasks' : j.msg = k.msg =>
          /\ HoldsClaim(new, j.token) => new.attempts = j.attempts
          /\ timely => HoldsClaim(new, j.token) /\ j.left < new.lease
    <3> TAKE j \in tasks'
    <3> HAVE j.msg = k.msg
    <3>1. j \in tasks /\ j.left \in Nat /\ table[k.msg].lease \in Nat
      BY <2>2, <1>a DEF TypeOK, Task, Row
    <3>2. HoldsClaim(new, j.token) <=> HoldsClaim(table[k.msg], j.token)
      BY <2>1 DEF HoldsClaim
    <3>3. HoldsClaim(table[k.msg], j.token) => table[k.msg].attempts = j.attempts
      BY <3>1 DEF ClaimsAreExclusive
    <3>4. timely => HoldsClaim(table[k.msg], j.token) /\ j.left < table[k.msg].lease
      BY <3>1 DEF LeaseOutlivesTask
    <3> HIDE DEF new
    <3> QED
      BY <2>1, <3>1, <3>2, <3>3, <3>4, TableAssumption DEF TableAssumption
  <2> HIDE DEF new
  <2> QED
    BY <1>a, <1>d, <2>2, <2>3, <2>4, RowChanges
<1>4. CASE RenewFails(k)
  <2> DEFINE new == [k EXCEPT !.lost = TRUE]
  <2>1. /\ new \in Task /\ new.msg = k.msg /\ new.token = k.token /\ new.stage = k.stage
        /\ new.attempts = k.attempts /\ new.left = k.left /\ new.accepted = k.accepted
    BY <1>a DEF Task
  <2>2. /\ tasks' = (tasks \ {k}) \cup {new} /\ k.stage = "publishing"
        /\ UNCHANGED <<table, business, brokered, timely>>
    BY <1>4 DEF RenewFails, producer
  <2> HIDE DEF new
  <2> QED
    BY <1>d, <2>1, <2>2, TaskMoves
<1>5. ASSUME NEW ok \in BOOLEAN, PublishReturns(k, ok) PROVE Inv'
  <2>1. CASE tasks' = tasks \ {k}
    BY <1>5, <2>1, TasksEnd DEF PublishReturns, producer
  <2>2. CASE tasks' # tasks \ {k}
    <3>1. PICK s \in {"mark", "fail"} :
            /\ tasks' = (tasks \ {k}) \cup {[k EXCEPT !.stage = s]}
            /\ s = "mark" => k.accepted
      BY <1>5, <2>2 DEF PublishReturns, Advance, Drop
    <3> DEFINE new == [k EXCEPT !.stage = s]
    <3>2. /\ new \in Task /\ new.msg = k.msg /\ new.token = k.token
          /\ new.attempts = k.attempts /\ new.left = k.left
          /\ new.accepted = k.accepted /\ new.stage = s
      BY <1>b
    <3>3. UNCHANGED <<table, business, brokered, timely>>
      BY <1>5 DEF PublishReturns, producer
    <3>4. tasks' = (tasks \ {k}) \cup {new}
      BY <3>1
    <3> HIDE DEF new
    <3> QED
      BY <3>1, <3>2, <3>3, <3>4, <1>d, TaskMoves
  <2> QED
    BY <2>1, <2>2
<1>6. CASE MarkSent(k)
  BY <1>6, <1>a, <1>c, SettledFacts, SettleKeepsInv DEF MarkSent
<1>7. CASE FinishFailure(k)
  <2>1. CASE k.attempts >= PublishMaxAttempts
    BY <1>7, <2>1, <1>a, <1>c, SettledFacts, SettleKeepsInv DEF FinishFailure
  <2>2. CASE ~(k.attempts >= PublishMaxAttempts)
    <3>1. PICK delay \in RetryDelay(k) : Settle(k, MarkedRetry(table[k.msg], delay))
      BY <1>7, <2>2 DEF FinishFailure
    <3>2. delay \in Nat
      BY <1>a, RetryDelays, WorkerAssumption DEF WorkerAssumption
    <3>3. k.attempts < PublishMaxAttempts
      BY <2>2, <1>a, WorkerAssumption DEF WorkerAssumption
    <3> QED
      BY <3>1, <3>2, <3>3, <1>a, <1>c, SettledFacts, SettleKeepsInv
  <2> QED
    BY <2>1, <2>2
<1>8. CASE SettleFails(k)
  BY <1>8, TasksEnd DEF SettleFails, Drop, producer
<1> QED
  BY <1>1, <1>2, <1>3, <1>4, <1>5, <1>6, <1>7, <1>8 DEF TaskNext
\* Every step of a worker's loop keeps the invariant.
LEMMA WorkerStepKeepsInv ==
  ASSUME Inv, TypeOK', NEW w \in Workers, WorkerNext(w)
  PROVE  Inv'
<1> USE DEF producer
<1>1. CASE OnStart(w)
  BY <1>1, TasksEnd DEF OnStart
<1>2. CASE OnStop(w)
  BY <1>2, TasksEnd DEF OnStop
<1>3. CASE StopDeadline(w)
  BY <1>3, TasksEnd DEF StopDeadline
<1>4. CASE Crash(w)
  BY <1>4, TasksEnd DEF Crash
<1>5. CASE PollAgain(w)
  BY <1>5, TasksEnd DEF PollAgain
<1>6. CASE Exit(w)
  BY <1>6, TasksEnd DEF Exit
<1>7. CASE Claim(w)
  BY <1>7, RowsClaimed DEF Claim
<1>8. CASE ClaimFails(w)
  <2>1. PICK S \in Selections(w) : table' \in {table, ClaimedTable(S)}
    BY <1>8 DEF ClaimFails
  <2>2. tasks' \subseteq tasks /\ UNCHANGED <<business, brokered, timely>>
    BY <1>8 DEF ClaimFails
  <2> QED
    BY <2>1, <2>2, TasksEnd, RowsClaimed
<1>9. CASE BatchDone(w)
  BY <1>9, TasksEnd DEF BatchDone
<1>10. CASE Cleanup(w)
  <2>1. UNCHANGED <<tasks, business, brokered, timely>>
    BY <1>10 DEF Cleanup
  <2>2. CASE UNCHANGED table
    BY <2>1, <2>2, TasksEnd
  <2>3. CASE ~UNCHANGED table
    <3>1. PICK S \in CleanupSelections :
            table' = [m \in Messages |-> IF m \in S THEN Absent ELSE table[m]]
      BY <1>10, <2>3 DEF Cleanup
    <3>2. S \in SUBSET Messages /\ \A m \in S : Cleanable(table[m])
      BY DEF CleanupSelections
    <3> QED
      BY <2>1, <3>1, <3>2, RowsRemoved
  <2> QED
    BY <2>2, <2>3
<1>11. CASE CleanupFails(w)
  BY <1>11, TasksEnd DEF CleanupFails
<1> QED
  BY <1>1, <1>2, <1>3, <1>4, <1>5, <1>6, <1>7, <1>8, <1>9, <1>10, <1>11 DEF WorkerNext

\* Every step keeps the invariant.
LEMMA StepKeepsInv == Inv /\ [Next]_vars => Inv'
<1> SUFFICES ASSUME Inv, [Next]_vars PROVE Inv'
  OBVIOUS
<1>t. TypeOK'
  BY StepKeepsTypes DEF Inv
<1>1. ASSUME NEW m \in Messages, NEW bad \in BOOLEAN, EnqueueCommit(m, bad) PROVE Inv'
  <2> USE DEF Inv
  <2>1. /\ business[m] = "open" /\ m \notin brokered
        /\ table[m].status = "absent"
        /\ \A k \in tasks : k.msg # m /\ k.msg \in Messages
    BY <1>1 DEF EnqueueCommit, NoLossBeforeBroker, TasksTruthful, TypeOK, Task
  <2>2. /\ table' = [table EXCEPT ![m] = Enqueued]
        /\ business' = [business EXCEPT ![m] = "committed"]
        /\ UNCHANGED <<tasks, brokered, timely>>
    BY <1>1 DEF EnqueueCommit
  <2>3. /\ Enqueued.status = "pending" /\ Enqueued.attempts = 0
        /\ Enqueued.token = NoToken /\ ColumnsMatch(Enqueued)
    BY AbsentRows DEF Enqueued, Absent
  <2>4. /\ table'[m] = Enqueued /\ business'[m] = "committed"
        /\ \A n \in Messages \ {m} : table'[n] = table[n] /\ business'[n] = business[n]
    BY <2>2 DEF TypeOK
  <2>5. RowsMatch'
    BY <2>3, <2>4 DEF RowsMatch
  <2>6. TasksTruthful'
    BY <2>1, <2>2, <2>4 DEF TasksTruthful
  <2>7. NoLossBeforeBroker'
    BY <2>2, <2>3, <2>4 DEF NoLossBeforeBroker
  <2>8. AttemptsWithinLimit'
    BY <2>3, <2>4, WorkerAssumption DEF AttemptsWithinLimit, WorkerAssumption
  <2>9. ClaimsAreExclusive'
    BY <2>1, <2>2, <2>4 DEF ClaimsAreExclusive
  <2>10. LeaseOutlivesTask'
    BY <2>1, <2>2, <2>4 DEF LeaseOutlivesTask
  <2> QED
    BY <1>t, <2>5, <2>6, <2>7, <2>8, <2>9, <2>10
<1>2. ASSUME NEW m \in Messages, EnqueueRollback(m) PROVE Inv'
  <2> USE DEF Inv
  <2>1. business[m] = "open" /\ \A k \in tasks : k.msg # m /\ k.msg \in Messages
    BY <1>2 DEF EnqueueRollback, TasksTruthful, TypeOK, Task
  <2>2. /\ business' = [business EXCEPT ![m] = "rolledBack"]
        /\ UNCHANGED <<table, tasks, brokered, timely>>
    BY <1>2 DEF EnqueueRollback
  <2>3. RowsMatch' /\ AttemptsWithinLimit' /\ ClaimsAreExclusive' /\ LeaseOutlivesTask'
    BY <2>2 DEF RowsMatch, AttemptsWithinLimit, ClaimsAreExclusive, LeaseOutlivesTask
  <2>4. TasksTruthful' /\ NoLossBeforeBroker'
    BY <2>1, <2>2 DEF TasksTruthful, NoLossBeforeBroker, TypeOK
  <2> QED
    BY <1>t, <2>3, <2>4
<1>3. ASSUME NEW m \in Messages, ReplayDead(m) PROVE Inv'
  <2> USE DEF Inv
  <2>1. table[m] \in Row /\ ColumnsMatch(table[m]) /\ table[m].status = "dead"
    BY <1>3 DEF ReplayDead, TypeOK, RowsMatch
  <2>2. /\ table' = [table EXCEPT ![m] = Replayed(table[m])]
        /\ tasks' \subseteq tasks /\ UNCHANGED <<business, brokered, timely>>
    BY <1>3 DEF ReplayDead, producer
  <2>3. /\ Replayed(table[m]) \in Row /\ ColumnsMatch(Replayed(table[m]))
        /\ Replayed(table[m]).status = "retry" /\ Replayed(table[m]).token = NoToken
        /\ Replayed(table[m]).attempts = 0
    BY <2>1, SettledRows, SettledFacts
  <2>4. business[m] = "committed"
    BY <2>1 DEF NoLossBeforeBroker
  <2>5. \A k \in tasks' : k.msg = m => ~timely /\ ~HoldsClaim(Replayed(table[m]), k.token)
    BY <2>1, <2>2, <2>3 DEF LeaseOutlivesTask, HoldsClaim
  <2>6. 0 <= PublishMaxAttempts /\ 0 < PublishMaxAttempts
    BY WorkerAssumption DEF WorkerAssumption
  <2> DEFINE new == Replayed(table[m])
  <2> HIDE DEF new
  <2> QED
    BY <1>t, <2>2, <2>3, <2>4, <2>5, <2>6, RowChanges DEF new
<1>4. ASSUME NEW w \in Workers, WorkerNext(w) PROVE Inv'
  BY <1>4, <1>t, WorkerStepKeepsInv
<1>5. ASSUME NEW k \in tasks, TaskNext(k) PROVE Inv'
  BY <1>5, <1>t, TaskStepKeepsInv
<1>6. CASE Tick
  BY <1>6, <1>t, TimePasses
<1>7. CASE UNCHANGED vars
  BY <1>7, <1>t, TasksEnd DEF vars, producer
<1> QED
  BY <1>1, <1>2, <1>3, <1>4, <1>5, <1>6, <1>7 DEF Next

\* The invariant holds in every reachable state.
LEMMA InvHolds == Spec => []Inv
<1>1. Init => Inv
  BY AbsentRows, WorkerAssumption
     DEF Init, Inv, TypeOK, RowsMatch, TasksTruthful, NoLossBeforeBroker, AttemptsWithinLimit,
         ClaimsAreExclusive, LeaseOutlivesTask, Absent, WorkerAssumption, ClaimStages
<1> QED
  BY <1>1, StepKeepsInv, PTL DEF Spec

\* Type correctness of the workers.
THEOREM TypeCorrect == Spec => []TypeOK
  BY InvHolds, PTL DEF Inv

\* A row is marked sent, and removed, only once the broker has its message,
\* and a rolled back message never reaches the broker.
THEOREM NoLoss == Spec => []NoLossBeforeBroker
  BY InvHolds, PTL DEF Inv

\* The attempt counter never passes its limit, a waiting row has attempts
\* left and a dead row has none.
THEOREM AttemptsLimited == Spec => []AttemptsWithinLimit
  BY InvHolds, PTL DEF Inv

\* A claim token identifies one publishing goroutine.
THEOREM ClaimsExclusive == Spec => []ClaimsAreExclusive
  BY InvHolds, PTL DEF Inv

\* Workers that keep up with the clock never publish one message at the same
\* time: the lease is longer than the publication (checkWorker).
THEOREM OnePublisher == Spec => []OnePublisherAtATime
<1>1. Inv => OnePublisherAtATime
  BY DEF Inv, OnePublisherAtATime, LeaseOutlivesTask, ClaimsAreExclusive, HoldsClaim
<1> QED
  BY <1>1, InvHolds, PTL

-----------------------------------------------------------------------------
(* The workers implement the store: the tokens callers may still present   *)
(* are those of the goroutines at work.                                    *)

TokensOf(T) == [m \in Messages |-> {k.token : k \in {j \in T : j.msg = m}}]

\* The instance's operators on rows are the ones of the workers' table.
LEMMA StoreRows ==
  /\ Store!Absent = Absent
  /\ Store!Enqueued = Enqueued
  /\ \A r : /\ Store!Available(r) <=> Available(r)
            /\ Store!Expired(r) <=> Expired(r)
            /\ Store!Cleanable(r) <=> Cleanable(r)
            /\ Store!Renewed(r) = Renewed(r)
            /\ Store!MarkedSent(r) = MarkedSent(r)
            /\ Store!MarkedDead(r) = MarkedDead(r)
            /\ Store!Replayed(r) = Replayed(r)
            /\ Store!Older(r) = Older(r)
  /\ \A r, x : /\ Store!Claimed(r, x) = Claimed(r, x)
               /\ Store!HoldsClaim(r, x) <=> HoldsClaim(r, x)
               /\ Store!MarkedRetry(r, x) = MarkedRetry(r, x)
<1>1. Store!Absent = Absent /\ Store!Enqueued = Enqueued
  BY DEF Store!Absent, Absent, Store!Enqueued, Enqueued
<1>2. \A r : /\ Store!Available(r) <=> Available(r)
             /\ Store!Expired(r) <=> Expired(r)
             /\ Store!Cleanable(r) <=> Cleanable(r)
  BY DEF Store!Available, Available, Store!Expired, Expired, Store!Cleanable, Cleanable
<1>3. \A r : /\ Store!Renewed(r) = Renewed(r)
             /\ Store!MarkedSent(r) = MarkedSent(r)
             /\ Store!MarkedDead(r) = MarkedDead(r)
             /\ Store!Replayed(r) = Replayed(r)
             /\ Store!Older(r) = Older(r)
  BY DEF Store!Renewed, Renewed, Store!MarkedSent, MarkedSent, Store!MarkedDead, MarkedDead,
         Store!Replayed, Replayed, Store!Released, Released, Store!Older, Older,
         Store!Less, Less
<1>4. \A r, x : /\ Store!Claimed(r, x) = Claimed(r, x)
                /\ Store!HoldsClaim(r, x) <=> HoldsClaim(r, x)
                /\ Store!MarkedRetry(r, x) = MarkedRetry(r, x)
  BY DEF Store!Claimed, Claimed, Store!HoldsClaim, HoldsClaim,
         Store!MarkedRetry, MarkedRetry, Store!Released, Released
<1> QED
  BY <1>1, <1>2, <1>3, <1>4

\* The tokens of a set of goroutines.
LEMMA TokensOfFacts ==
  ASSUME NEW T \in SUBSET Task
  PROVE  /\ TokensOf(T) \in [Messages -> SUBSET Tokens]
         /\ \A m \in Messages : \A t :
              t \in TokensOf(T)[m] <=> \E k \in T : k.msg = m /\ k.token = t
  BY DEF TokensOf, Task

LEMMA HeldIsTokens == HeldTokens = TokensOf(tasks) /\ HeldTokens' = TokensOf(tasks')
  BY DEF HeldTokens, TokensOf

\* The tokens the goroutines hold, before and after a step.
LEMMA HeldFacts ==
  ASSUME TypeOK, TypeOK'
  PROVE  /\ HeldTokens \in [Messages -> SUBSET Tokens]
         /\ HeldTokens' \in [Messages -> SUBSET Tokens]
         /\ \A m \in Messages : \A t :
              /\ t \in HeldTokens[m] <=> \E j \in tasks : j.msg = m /\ j.token = t
              /\ t \in HeldTokens'[m] <=> \E j \in tasks' : j.msg = m /\ j.token = t
<1>1. tasks \in SUBSET Task /\ tasks' \in SUBSET Task
  BY DEF TypeOK
<1> QED
  BY <1>1, HeldIsTokens, TokensOfFacts

\* Two token maps are equal when they agree on every message.
LEMMA SameTokens ==
  ASSUME NEW f \in [Messages -> SUBSET Tokens], NEW g \in [Messages -> SUBSET Tokens],
         \A m \in Messages : \A t : t \in f[m] <=> t \in g[m]
  PROVE  f = g
<1>1. \A m \in Messages : f[m] = g[m]
  OBVIOUS
<1> QED
  BY <1>1

\* Goroutines end without a word to the store.
LEMMA StoreForgets ==
  ASSUME TypeOK, TypeOK', tasks' \subseteq tasks, UNCHANGED table
  PROVE  Store!Next
<1> DEFINE gone == [m \in Messages |-> HeldTokens[m] \ HeldTokens'[m]]
           rest == [m \in Messages |-> HeldTokens[m] \ gone[m]]
<1>1. /\ HeldTokens \in [Messages -> SUBSET Tokens]
      /\ HeldTokens' \in [Messages -> SUBSET Tokens]
      /\ \A m \in Messages : HeldTokens'[m] \subseteq HeldTokens[m]
  BY HeldFacts
<1>2. gone \in [Messages -> SUBSET Tokens]
  BY <1>1
<1>3. HeldTokens' = rest
  BY <1>1, SameTokens
<1>4. Store!Forget(gone)
  BY <1>2, <1>3 DEF Store!Forget
<1> QED
  BY <1>2, <1>4 DEF Store!Next

\* A goroutine moves on with its claim.
LEMMA StoreStutters ==
  ASSUME TypeOK, TypeOK', NEW k \in tasks, NEW new \in Task,
         tasks' = (tasks \ {k}) \cup {new},
         new.msg = k.msg, new.token = k.token, UNCHANGED table
  PROVE  UNCHANGED Store!vars
<1>h. /\ HeldTokens \in [Messages -> SUBSET Tokens]
      /\ HeldTokens' \in [Messages -> SUBSET Tokens]
      /\ \A m \in Messages : \A t :
           /\ t \in HeldTokens[m] <=> \E j \in tasks : j.msg = m /\ j.token = t
           /\ t \in HeldTokens'[m] <=> \E j \in tasks' : j.msg = m /\ j.token = t
  BY HeldFacts
<1>1. \A m \in Messages : \A t : t \in HeldTokens'[m] <=> t \in HeldTokens[m]
  BY <1>h
<1>2. HeldTokens' = HeldTokens
  BY <1>h, <1>1, SameTokens
<1> QED
  BY <1>2 DEF Store!vars

\* A claim transaction takes rows under tokens nobody holds.
LEMMA StoreClaims ==
  ASSUME Inv, TypeOK', NEW w \in Workers, NEW S \in Selections(w),
         table' = ClaimedTable(S),
         \/ tasks' = tasks \cup {NewTask(w, m) : m \in S}
         \/ tasks' \subseteq tasks
  PROVE  [Store!Next]_(Store!vars)
<1> DEFINE tok == [m \in S |-> NewToken(m)]
           more == [m \in Messages |-> IF m \in S THEN HeldTokens[m] \cup {tok[m]}
                                                  ELSE HeldTokens[m]]
<1>s. /\ S \subseteq Messages
      /\ \A m \in S : /\ Available(table[m]) \/ Expired(table[m])
                      /\ NewToken(m) \in Tokens
                      /\ NewToken(m) \notin InUse(m)
  BY SelectionFacts
<1>h. /\ HeldTokens \in [Messages -> SUBSET Tokens]
      /\ HeldTokens' \in [Messages -> SUBSET Tokens]
      /\ \A m \in Messages : \A t :
           /\ t \in HeldTokens[m] <=> \E k \in tasks : k.msg = m /\ k.token = t
           /\ t \in HeldTokens'[m] <=> \E k \in tasks' : k.msg = m /\ k.token = t
  BY HeldFacts DEF Inv
<1>1. CASE S = {}
  <2>1. table' = table
    BY <1>1 DEF ClaimedTable, Inv, TypeOK
  <2>2. tasks' \subseteq tasks
    BY <1>1
  <2> QED
    BY <2>1, <2>2, StoreForgets DEF Inv
<1>2. CASE S # {}
  <2>1. tok \in [S -> Tokens]
    BY <1>s
  <2>2. \A m \in S : tok[m] \in Store!FreshTokens(m)
    BY <1>s, <1>h DEF Store!FreshTokens, InUse
  <2>3. \A m \in S : \/ Available(table[m]) /\ table[m].attempts < PublishMaxAttempts
                     \/ Expired(table[m])
    BY <1>s DEF Inv, AttemptsWithinLimit, Available
  <2>4. table' = [m \in Messages |-> IF m \in S THEN Claimed(table[m], tok[m]) ELSE table[m]]
    BY DEF ClaimedTable
  <2>5. \/ HeldTokens' = more
        \/ /\ HeldTokens' \in [Messages -> SUBSET Tokens]
           /\ \A m \in Messages : HeldTokens'[m] \subseteq HeldTokens[m]
    <3>1. CASE tasks' = tasks \cup {NewTask(w, m) : m \in S}
      <4>1. \A m \in S : NewTask(w, m).msg = m /\ NewTask(w, m).token = NewToken(m)
        BY DEF NewTask
      <4>2. \A m \in Messages : HeldTokens'[m] = more[m]
        <5> TAKE m \in Messages
        <5>1. \A t : t \in HeldTokens'[m] <=> t \in more[m]
          BY <3>1, <4>1, <1>h
        <5> QED
          BY <5>1, <1>h
      <4>3. more \in [Messages -> SUBSET Tokens]
        BY <1>h, <1>s
      <4> HIDE DEF more
      <4> QED
        BY <4>2, <4>3, <1>h, SameTokens
    <3>2. CASE tasks' \subseteq tasks
      BY <3>2, <1>h
    <3> QED
      BY <3>1, <3>2
  <2>6. Store!Claim(S)
    BY <1>2, <2>1, <2>2, <2>3, <2>4, <2>5, StoreRows DEF Store!Claim
  <2> QED
    BY <2>6, <1>s DEF Store!Next
<1> QED
  BY <1>1, <1>2

\* A goroutine settles its claim, presents a lost one, or is cut short.
LEMMA StoreSettles ==
  ASSUME Inv, TypeOK', NEW k \in tasks, NEW new, Settle(k, new)
  PROVE  Store!Settle(k.msg, k.token, new) \/ Store!Next
<1>1. tasks' = tasks \ {k} /\ k.msg \in Messages /\ k.token \in Tokens
  BY DEF Settle, Drop, Inv, TypeOK, Task
<1>2. CASE killed[k.worker]
  BY <1>1, <1>2, StoreForgets DEF Settle, Inv
<1>3. CASE ~killed[k.worker]
  <2> DEFINE less == [HeldTokens EXCEPT ![k.msg] = @ \ {k.token}]
  <2>h. /\ HeldTokens \in [Messages -> SUBSET Tokens]
        /\ HeldTokens' \in [Messages -> SUBSET Tokens]
        /\ \A m \in Messages : \A t :
             /\ t \in HeldTokens[m] <=> \E j \in tasks : j.msg = m /\ j.token = t
             /\ t \in HeldTokens'[m] <=> \E j \in tasks' : j.msg = m /\ j.token = t
    BY HeldFacts DEF Inv
  <2>1. k.token \in HeldTokens[k.msg]
    BY <1>1, <2>h
  <2>2. table' = [table EXCEPT ![k.msg] = IF HoldsClaim(@, k.token) THEN new ELSE @]
    BY <1>1, <1>3 DEF Settle, Inv, TypeOK
  <2>4. less \in [Messages -> SUBSET Tokens]
    BY <2>h
  <2>3. \A m \in Messages : HeldTokens'[m] = less[m]
    <3> TAKE m \in Messages
    <3>1. \A t : t \in HeldTokens'[m] <=> t \in HeldTokens[m] /\ ~(m = k.msg /\ t = k.token)
      BY <1>1, <2>h DEF Inv, ClaimsAreExclusive
    <3>2. \A t : t \in less[m] <=> t \in HeldTokens[m] /\ ~(m = k.msg /\ t = k.token)
      BY <2>h
    <3> HIDE DEF less
    <3> QED
      BY <3>1, <3>2, <2>h, <2>4
  <2>5. HeldTokens' = less
    <3> HIDE DEF less
    <3> QED
      BY <2>3, <2>4, <2>h, SameTokens
  <2> QED
    BY <2>1, <2>2, <2>5, StoreRows DEF Store!Settle
<1> QED
  BY <1>2, <1>3

\* A step of a goroutine is a step of the store, or none.
LEMMA TaskImplements ==
  ASSUME Inv, TypeOK', NEW k \in tasks, TaskNext(k)
  PROVE  [Store!Next]_(Store!vars)
<1>a. /\ TypeOK /\ k \in Task /\ k.msg \in Messages /\ k.token \in Tokens
      /\ table \in [Messages -> Row]
  BY DEF Inv, TypeOK, Task
<1>d. \A s \in {"claimed", "publishing", "mark", "fail"} :
        /\ [k EXCEPT !.stage = s] \in Task
        /\ [k EXCEPT !.stage = s].msg = k.msg /\ [k EXCEPT !.stage = s].token = k.token
  BY <1>a DEF Task
<1>e. /\ [k EXCEPT !.accepted = TRUE] \in Task
      /\ [k EXCEPT !.accepted = TRUE].msg = k.msg
      /\ [k EXCEPT !.accepted = TRUE].token = k.token
  BY <1>a DEF Task
<1>f. /\ [k EXCEPT !.lost = TRUE] \in Task
      /\ [k EXCEPT !.lost = TRUE].msg = k.msg /\ [k EXCEPT !.lost = TRUE].token = k.token
  BY <1>a DEF Task
<1>h. k.token \in HeldTokens[k.msg]
  BY <1>a DEF HeldTokens
<1>1. CASE StartPublish(k)
  <2>1. \E s \in {"fail", "publishing"} : tasks' = (tasks \ {k}) \cup {[k EXCEPT !.stage = s]}
    BY <1>1 DEF StartPublish, Advance
  <2>2. UNCHANGED table
    BY <1>1 DEF StartPublish
  <2> QED
    BY <2>1, <2>2, <1>a, <1>d, StoreStutters
<1>2. CASE BrokerAccepts(k)
  BY <1>2, <1>a, <1>e, StoreStutters DEF BrokerAccepts
<1>3. CASE Renew(k)
  <2>1. UNCHANGED HeldTokens
    BY <1>3 DEF Renew, HeldTokens
  <2>2. table' = [table EXCEPT ![k.msg] =
                    IF HoldsClaim(@, k.token) THEN Renewed(@) ELSE @]
    BY <1>3, <1>a DEF Renew
  <2>3. Store!Renew(k.msg, k.token)
    BY <1>3, <1>h, <2>1, <2>2, StoreRows DEF Renew, Store!Renew
  <2> QED
    BY <2>3, <1>a DEF Store!Next
<1>4. CASE RenewFails(k)
  BY <1>4, <1>a, <1>f, StoreStutters DEF RenewFails
<1>5. ASSUME NEW ok \in BOOLEAN, PublishReturns(k, ok) PROVE [Store!Next]_(Store!vars)
  <2>1. \/ tasks' = tasks \ {k}
        \/ \E s \in {"mark", "fail"} : tasks' = (tasks \ {k}) \cup {[k EXCEPT !.stage = s]}
    BY <1>5 DEF PublishReturns, Advance, Drop
  <2>2. UNCHANGED table
    BY <1>5 DEF PublishReturns
  <2>3. CASE tasks' = tasks \ {k}
    BY <2>2, <2>3, <1>a, StoreForgets
  <2>4. CASE \E s \in {"mark", "fail"} : tasks' = (tasks \ {k}) \cup {[k EXCEPT !.stage = s]}
    BY <2>2, <2>4, <1>a, <1>d, StoreStutters
  <2> QED
    BY <2>1, <2>3, <2>4
<1>6. CASE MarkSent(k)
  <2>1. \/ Store!Settle(k.msg, k.token, MarkedSent(table[k.msg]))
        \/ Store!Next
    BY <1>6, StoreSettles DEF MarkSent
  <2> QED
    BY <2>1, <1>a, StoreRows DEF Store!Next, Store!MarkSent
<1>7. CASE FinishFailure(k)
  <2>1. CASE Settle(k, MarkedDead(table[k.msg]))
    <3>1. \/ Store!Settle(k.msg, k.token, MarkedDead(table[k.msg]))
          \/ Store!Next
      BY <2>1, StoreSettles
    <3> QED
      BY <3>1, <1>a, StoreRows DEF Store!Next, Store!MarkDead
  <2>2. ASSUME NEW delay \in RetryDelay(k), Settle(k, MarkedRetry(table[k.msg], delay))
        PROVE  Store!Next
    <3>1. delay \in 0 .. PublishRetryMax
      BY <1>a, RetryDelays
    <3>2. \/ Store!Settle(k.msg, k.token, MarkedRetry(table[k.msg], delay))
          \/ Store!Next
      BY <2>2, StoreSettles
    <3>3. Store!MarkRetry(k.msg, k.token, delay) \/ Store!Next
      BY <3>2, StoreRows DEF Store!MarkRetry
    <3> QED
      BY <3>1, <3>3, <1>a DEF Store!Next
  <2> QED
    BY <1>7, <2>1, <2>2 DEF FinishFailure
<1>8. CASE SettleFails(k)
  BY <1>8, <1>a, StoreForgets DEF SettleFails, Drop
<1> QED
  BY <1>1, <1>2, <1>3, <1>4, <1>5, <1>6, <1>7, <1>8 DEF TaskNext

\* A step of a worker's loop is a step of the store, or none.
LEMMA WorkerImplements ==
  ASSUME Inv, TypeOK', NEW w \in Workers, WorkerNext(w)
  PROVE  [Store!Next]_(Store!vars)
<1>a. TypeOK
  BY DEF Inv
<1>1. CASE UNCHANGED table /\ tasks' \subseteq tasks
  BY <1>1, <1>a, StoreForgets
<1>2. CASE OnStart(w) \/ OnStop(w) \/ StopDeadline(w) \/ Crash(w) \/ PollAgain(w) \/ Exit(w)
           \/ BatchDone(w) \/ CleanupFails(w)
  BY <1>1, <1>2 DEF OnStart, OnStop, StopDeadline, Crash, PollAgain, Exit, BatchDone, CleanupFails
<1>3. CASE Claim(w)
  BY <1>3, StoreClaims DEF Claim
<1>4. CASE ClaimFails(w)
  <2>1. PICK S \in Selections(w) : table' \in {table, ClaimedTable(S)}
    BY <1>4 DEF ClaimFails
  <2>2. tasks' \subseteq tasks
    BY <1>4 DEF ClaimFails
  <2> QED
    BY <1>1, <2>1, <2>2, StoreClaims
<1>5. CASE Cleanup(w)
  <2>1. UNCHANGED tasks
    BY <1>5 DEF Cleanup
  <2>2. CASE ~UNCHANGED table
    <3>1. PICK S \in CleanupSelections :
            table' = [m \in Messages |-> IF m \in S THEN Absent ELSE table[m]]
      BY <1>5, <2>2 DEF Cleanup
    <3>2. S \in SUBSET Messages /\ \A m \in S : Cleanable(table[m])
      BY DEF CleanupSelections
    <3>3. UNCHANGED HeldTokens
      BY <2>1 DEF HeldTokens
    <3>4. Store!CleanupSent(S)
      BY <3>1, <3>2, <3>3, StoreRows DEF Store!CleanupSent
    <3> QED
      BY <3>2, <3>4 DEF Store!Next
  <2> QED
    BY <2>1, <2>2, <1>1
<1> QED
  BY <1>2, <1>3, <1>4, <1>5 DEF WorkerNext

\* Every step of the system is a step of the store, or none.
LEMMA StepImplements ==
  ASSUME Inv, [Next]_vars
  PROVE  [Store!Next]_(Store!vars)
<1>t. TypeOK /\ TypeOK'
  BY StepKeepsTypes DEF Inv
<1>1. ASSUME NEW m \in Messages, NEW bad \in BOOLEAN, EnqueueCommit(m, bad) PROVE Store!Next
  <2>1. table[m] = Absent
    BY <1>1 DEF EnqueueCommit, Inv, NoLossBeforeBroker, RowsMatch
  <2>2. table' = [table EXCEPT ![m] = Enqueued] /\ UNCHANGED HeldTokens
    BY <1>1 DEF EnqueueCommit, HeldTokens
  <2>3. Store!Enqueue(m)
    BY <2>1, <2>2, StoreRows DEF Store!Enqueue
  <2> QED
    BY <2>3 DEF Store!Next
<1>2. ASSUME NEW m \in Messages, EnqueueRollback(m) PROVE Store!Next
  BY <1>2, <1>t, StoreForgets DEF EnqueueRollback
<1>3. ASSUME NEW m \in Messages, ReplayDead(m) PROVE Store!Next
  <2>1. UNCHANGED HeldTokens
    BY <1>3 DEF ReplayDead, HeldTokens
  <2>2. Store!ReplayDead(m)
    BY <1>3, <2>1, StoreRows DEF ReplayDead, Store!ReplayDead
  <2> QED
    BY <2>2 DEF Store!Next
<1>4. ASSUME NEW w \in Workers, WorkerNext(w) PROVE [Store!Next]_(Store!vars)
  BY <1>4, <1>t, WorkerImplements
<1>5. ASSUME NEW k \in tasks, TaskNext(k) PROVE [Store!Next]_(Store!vars)
  BY <1>5, <1>t, TaskImplements
<1>6. CASE Tick
  <2>h. /\ HeldTokens \in [Messages -> SUBSET Tokens]
        /\ HeldTokens' \in [Messages -> SUBSET Tokens]
        /\ \A m \in Messages : \A t :
             /\ t \in HeldTokens[m] <=> \E j \in tasks : j.msg = m /\ j.token = t
             /\ t \in HeldTokens'[m] <=> \E j \in tasks' : j.msg = m /\ j.token = t
    BY <1>t, HeldFacts
  <2>2. \A k \in tasks : [k EXCEPT !.left = Less(k.left)].msg = k.msg
                         /\ [k EXCEPT !.left = Less(k.left)].token = k.token
    BY <1>t DEF TypeOK, Task
  <2>3. \A m \in Messages : \A t : t \in HeldTokens'[m] <=> t \in HeldTokens[m]
    <3>1. CASE timely
      <4>1. tasks' = {[k EXCEPT !.left = Less(k.left)] : k \in tasks}
        BY <1>6, <3>1 DEF Tick
      <4>2. \A k \in tasks' : \E j \in tasks : k.msg = j.msg /\ k.token = j.token
        BY <4>1, <2>2
      <4>3. \A j \in tasks : \E k \in tasks' : k.msg = j.msg /\ k.token = j.token
        BY <4>1, <2>2
      <4> QED
        BY <4>2, <4>3, <2>h
    <3>2. CASE ~timely
      BY <1>6, <3>2 DEF Tick, HeldTokens
    <3> QED
      BY <3>1, <3>2
  <2>4. UNCHANGED HeldTokens
    BY <2>h, <2>3, SameTokens
  <2>5. Store!Tick
    BY <1>6, <2>4, StoreRows DEF Tick, Store!Tick
  <2> QED
    BY <2>5 DEF Store!Next
<1>7. CASE UNCHANGED vars
  BY <1>7 DEF vars, Store!vars, HeldTokens
<1> QED
  BY <1>1, <1>2, <1>3, <1>4, <1>5, <1>6, <1>7 DEF Next

\* Whatever the workers, their crashes, failed statements and late replies do
\* to the table is something the store allows, so the promises proved of
\* OutboxStore hold of the table the workers share.
THEOREM WorkersImplementStore == Spec => ImplementsStore
<1>1. Init => Store!Init
  BY StoreRows DEF Init, Store!Init, HeldTokens
<1>2. Inv /\ [Next]_vars => [Store!Next]_(Store!vars)
  BY StepImplements
<1> QED
  BY <1>1, <1>2, InvHolds, PTL DEF Spec, Store!Spec, ImplementsStore

-----------------------------------------------------------------------------
(* What OutboxStoreProofs proves of the store's steps holds of the workers'.*)

StoreFacts == INSTANCE OutboxStoreProofs WITH
                held         <- HeldTokens,
                DelayBound   <- PublishRetryMax,
                AttemptBound <- PublishMaxAttempts

\* The two instances of OutboxStore have the same operators on rows ...
LEMMA SameRows ==
  /\ StoreFacts!Row = Store!Row
  /\ StoreFacts!Absent = Store!Absent
  /\ StoreFacts!Enqueued = Store!Enqueued
  /\ \A r : /\ StoreFacts!Available(r) <=> Store!Available(r)
            /\ StoreFacts!Expired(r) <=> Store!Expired(r)
            /\ StoreFacts!Cleanable(r) <=> Store!Cleanable(r)
            /\ StoreFacts!ColumnsMatch(r) <=> Store!ColumnsMatch(r)
            /\ StoreFacts!Renewed(r) = Store!Renewed(r)
            /\ StoreFacts!MarkedSent(r) = Store!MarkedSent(r)
            /\ StoreFacts!MarkedDead(r) = Store!MarkedDead(r)
            /\ StoreFacts!Replayed(r) = Store!Replayed(r)
            /\ StoreFacts!Older(r) = Store!Older(r)
            /\ \A t : /\ StoreFacts!Claimed(r, t) = Store!Claimed(r, t)
                      /\ StoreFacts!HoldsClaim(r, t) <=> Store!HoldsClaim(r, t)
            /\ \A delay : StoreFacts!MarkedRetry(r, delay) = Store!MarkedRetry(r, delay)
  BY DEF StoreFacts!Row, Store!Row, StoreFacts!Statuses, Store!Statuses,
     StoreFacts!Absent, Store!Absent, StoreFacts!Enqueued, Store!Enqueued,
     StoreFacts!Available, Store!Available, StoreFacts!Expired, Store!Expired,
     StoreFacts!Cleanable, Store!Cleanable, StoreFacts!ColumnsMatch, Store!ColumnsMatch,
     StoreFacts!Renewed, Store!Renewed, StoreFacts!Released, Store!Released,
     StoreFacts!MarkedSent, Store!MarkedSent, StoreFacts!MarkedDead, Store!MarkedDead,
     StoreFacts!MarkedRetry, Store!MarkedRetry, StoreFacts!Replayed, Store!Replayed,
     StoreFacts!Older, Store!Older, StoreFacts!Less, Store!Less,
     StoreFacts!Claimed, Store!Claimed, StoreFacts!HoldsClaim, Store!HoldsClaim

\* ... and the same steps.
LEMMA SameSteps == Store!Next => StoreFacts!Next
<1>1. \A m : Store!Enqueue(m) => StoreFacts!Enqueue(m)
  BY SameRows DEF Store!Enqueue, StoreFacts!Enqueue
<1>2. \A m : Store!ReplayDead(m) => StoreFacts!ReplayDead(m)
  BY SameRows DEF Store!ReplayDead, StoreFacts!ReplayDead
<1>3. \A S : Store!Claim(S) => StoreFacts!Claim(S)
  BY SameRows DEF Store!Claim, StoreFacts!Claim, Store!FreshTokens, StoreFacts!FreshTokens
<1>4. \A S : Store!CleanupSent(S) => StoreFacts!CleanupSent(S)
  BY SameRows DEF Store!CleanupSent, StoreFacts!CleanupSent
<1>5. \A m, t : Store!Renew(m, t) => StoreFacts!Renew(m, t)
  BY SameRows DEF Store!Renew, StoreFacts!Renew
<1>6. \A m, t, new : Store!Settle(m, t, new) => StoreFacts!Settle(m, t, new)
  BY SameRows DEF Store!Settle, StoreFacts!Settle
<1>7. \A m, t : /\ Store!MarkSent(m, t) => StoreFacts!MarkSent(m, t)
                /\ Store!MarkDead(m, t) => StoreFacts!MarkDead(m, t)
                /\ \A delay : Store!MarkRetry(m, t, delay) => StoreFacts!MarkRetry(m, t, delay)
  BY <1>6, SameRows DEF Store!MarkSent, StoreFacts!MarkSent, Store!MarkDead, StoreFacts!MarkDead,
     Store!MarkRetry, StoreFacts!MarkRetry
<1>8. \A gone : Store!Forget(gone) => StoreFacts!Forget(gone)
  BY DEF Store!Forget, StoreFacts!Forget
<1>9. Store!Tick => StoreFacts!Tick
  BY SameRows DEF Store!Tick, StoreFacts!Tick
<1> QED
  BY <1>1, <1>2, <1>3, <1>4, <1>5, <1>7, <1>8, <1>9 DEF Store!Next, StoreFacts!Next

\* The invariant of the workers contains the one of the store.
LEMMA StoreInv == Inv => StoreFacts!Inv
<1> SUFFICES ASSUME Inv PROVE StoreFacts!Inv
  OBVIOUS
<1>1. HeldTokens \in [Messages -> SUBSET Tokens]
  BY HeldIsTokens, TokensOfFacts DEF Inv, TypeOK
<1>2. table \in [Messages -> StoreFacts!Row]
  BY DEF Inv, TypeOK, Row, StoreFacts!Row, Statuses, StoreFacts!Statuses
<1>3. \A m \in Messages : StoreFacts!ColumnsMatch(table[m])
  BY DEF Inv, RowsMatch, ColumnsMatch, StoreFacts!ColumnsMatch
<1> QED
  BY <1>1, <1>2, <1>3
  DEF StoreFacts!Inv, StoreFacts!TypeOK, StoreFacts!ClaimColumnsMatchStatus

\* So every step of a worker changes a row in one of the store's five ways.
LEMMA WorkerRowStep ==
  ASSUME Inv, Store!Next, NEW n \in Messages
  PROVE  StoreFacts!Kept(n) \/ StoreFacts!Ended(n) \/ StoreFacts!Taken(n)
           \/ StoreFacts!Queued(n) \/ StoreFacts!Removed(n)
  BY SameSteps, StoreInv, TableAssumption, StoreFacts!RowStep

\* A row of the workers' table carries a token and a lease exactly while it is
\* leased (the assignments of the claim and settlement statements).
THEOREM ClaimColumnsHold == Spec => []ClaimColumnsMatchStatus
<1>1. Inv => ClaimColumnsMatchStatus
  BY DEF Inv, RowsMatch, ClaimColumnsMatchStatus, Store!ClaimColumnsMatchStatus,
         ColumnsMatch, Store!ColumnsMatch
<1> QED
  BY <1>1, InvHolds, PTL

\* A running claim is ended by a goroutine that holds its token: not by the
\* other worker, nor by a late or crashed one (the token in each WHERE clause).
THEOREM LiveClaimsHold == Spec => LiveClaimEndedByHolderOnly
<1>1. Inv /\ [Next]_vars => [Store!LiveClaimStep]_(Store!vars)
  <2> SUFFICES ASSUME Inv, Store!Next, NEW m \in Messages,
                      table[m].lease > 0, table'[m].token # table[m].token
               PROVE  /\ table[m].token \in HeldTokens[m]
                      /\ table[m].token \notin HeldTokens'[m]
                      /\ table'[m].status \in {"sent", "retry", "dead"}
    BY StepImplements DEF Store!LiveClaimStep
  <2>1. ColumnsMatch(table[m]) /\ table[m] \in Row
    BY DEF Inv, RowsMatch, TypeOK
  <2>2. table[m].status = "leased" /\ table[m].lease # 0
    BY <2>1 DEF ColumnsMatch, Row
  <2> QED
    BY <2>2, WorkerRowStep
    DEF StoreFacts!Kept, StoreFacts!Ended, StoreFacts!Taken, StoreFacts!Queued,
        StoreFacts!Removed, StoreFacts!Cleanable
<1> QED
  BY <1>1, InvHolds, PTL DEF Spec, LiveClaimEndedByHolderOnly, Store!LiveClaimEndedByHolderOnly

\* No late retry, renewal or claim brings a row marked sent back: it stays sent
\* until CleanupSent removes it after its retention.
THEOREM SentStaysSent == Spec => SentIsFinal
<1>1. Inv /\ [Next]_vars => [Store!SentStep]_(Store!vars)
  <2> SUFFICES ASSUME Inv, Store!Next, NEW m \in Messages, table[m].status = "sent"
               PROVE  \/ table'[m].status = "sent"
                      \/ table'[m] = Store!Absent /\ table[m].age >= Retention
    BY StepImplements DEF Store!SentStep
  <2> QED
    BY WorkerRowStep, SameRows
    DEF StoreFacts!Kept, StoreFacts!Ended, StoreFacts!Taken, StoreFacts!Queued,
        StoreFacts!Removed, StoreFacts!Cleanable
<1> QED
  BY <1>1, InvHolds, PTL DEF Spec, SentIsFinal, Store!SentIsFinal
=============================================================================
