-------------------------- MODULE OutboxStoreProofs --------------------------
(***************************************************************************)
(* Proofs about OutboxStore, for any sets of messages and tokens, any      *)
(* lease, retention and bounds.                                            *)
(***************************************************************************)
EXTENDS OutboxStore, TLAPS

-----------------------------------------------------------------------------
(* Each statement on the outbox table, applied where its WHERE clause      *)
(* allows it, takes a well-formed row to a well-formed row.                *)

\* A missing row and a new one are well-formed.
LEMMA AbsentRows ==
  /\ Absent \in Row /\ ColumnsMatch(Absent)
  /\ Enqueued \in Row /\ ColumnsMatch(Enqueued)
  BY TableAssumption DEF TableAssumption, Row, Statuses, Absent, Enqueued, ColumnsMatch

\* A claim of a row that is available or whose lease ran out.
LEMMA ClaimedRow ==
  ASSUME NEW r \in Row, ColumnsMatch(r), NEW t \in Tokens, Available(r) \/ Expired(r)
  PROVE  Claimed(r, t) \in Row /\ ColumnsMatch(Claimed(r, t))
<1> DEFINE n == IF r.status = "leased" THEN r.attempts ELSE r.attempts + 1
<1>1. n \in Nat
  BY DEF Row
<1>2. Claimed(r, t) = [r EXCEPT !.status = "leased", !.attempts = n,
                                !.token = t, !.lease = LeaseDuration]
  BY DEF Claimed
<1>3. r.wait = 0
  BY DEF Available, Expired, ColumnsMatch, Row
<1> HIDE DEF n
<1>4. Claimed(r, t) \in Row
  BY <1>1, <1>2, TableAssumption DEF TableAssumption, Row, Statuses
<1>5. /\ Claimed(r, t).status = "leased"
      /\ Claimed(r, t).token = t
      /\ Claimed(r, t).wait = r.wait
  BY <1>2 DEF Row
<1> QED
  BY <1>3, <1>4, <1>5, TableAssumption DEF TableAssumption, ColumnsMatch

\* A renewal, the three ways to settle a claim, and a replay.
LEMMA SettledRows ==
  ASSUME NEW r \in Row, ColumnsMatch(r)
  PROVE  /\ Renewed(r) \in Row
         /\ r.status = "leased" => ColumnsMatch(Renewed(r))
         /\ MarkedSent(r) \in Row
         /\ r.status = "leased" => ColumnsMatch(MarkedSent(r))
         /\ \A delay \in Nat :
              /\ MarkedRetry(r, delay) \in Row
              /\ ColumnsMatch(MarkedRetry(r, delay))
         /\ MarkedDead(r) \in Row
         /\ r.status = "leased" => ColumnsMatch(MarkedDead(r))
         /\ Replayed(r) \in Row
         /\ ColumnsMatch(Replayed(r))
<1> USE DEF Row, Statuses
<1>0. \A s \in Statuses : Released(r, s) \in Row
  BY DEF Released
<1>1. /\ Renewed(r) \in Row
      /\ Renewed(r).status = r.status
      /\ Renewed(r).token = r.token
      /\ Renewed(r).wait = r.wait
  BY TableAssumption DEF TableAssumption, Renewed
<1>2. MarkedSent(r) \in Row
  BY <1>0 DEF MarkedSent
<1>3. /\ MarkedSent(r).status = "sent"
      /\ MarkedSent(r).token = NoToken
      /\ MarkedSent(r).lease = 0
      /\ MarkedSent(r).wait = r.wait
  BY DEF MarkedSent, Released
<1>4. ASSUME NEW delay \in Nat
      PROVE  MarkedRetry(r, delay) \in Row
  BY <1>0 DEF MarkedRetry
<1>5. ASSUME NEW delay \in Nat
      PROVE  /\ MarkedRetry(r, delay).status = "retry"
             /\ MarkedRetry(r, delay).token = NoToken
             /\ MarkedRetry(r, delay).lease = 0
  BY DEF MarkedRetry, Released
<1>6. MarkedDead(r) \in Row
  BY <1>0 DEF MarkedDead
<1>7. /\ MarkedDead(r).status = "dead"
      /\ MarkedDead(r).token = NoToken
      /\ MarkedDead(r).lease = 0
      /\ MarkedDead(r).wait = r.wait
  BY DEF MarkedDead, Released
<1>8. Replayed(r) \in Row
  BY <1>0 DEF Replayed
<1>9. /\ Replayed(r).status = "retry"
      /\ Replayed(r).token = NoToken
      /\ Replayed(r).lease = 0
  BY DEF Replayed, Released
<1> HIDE DEF Row, Statuses
<1>10. r.wait \in Nat /\ (r.status = "leased" => ~(r.wait > 0))
  BY DEF Row, ColumnsMatch
<1>11. r.status = "leased" => ColumnsMatch(Renewed(r))
  BY <1>1 DEF ColumnsMatch
<1>12. r.status = "leased" => ColumnsMatch(MarkedSent(r))
  BY <1>3, <1>10 DEF ColumnsMatch
<1>13. \A delay \in Nat : ColumnsMatch(MarkedRetry(r, delay))
  BY <1>5 DEF ColumnsMatch
<1>14. r.status = "leased" => ColumnsMatch(MarkedDead(r))
  BY <1>7, <1>10 DEF ColumnsMatch
<1>15. ColumnsMatch(Replayed(r))
  BY <1>9 DEF ColumnsMatch
<1> QED
  BY <1>1, <1>2, <1>4, <1>6, <1>8, <1>11, <1>12, <1>13, <1>14, <1>15

\* The passing of time.
LEMMA OlderRow ==
  ASSUME NEW r \in Row, ColumnsMatch(r)
  PROVE  /\ Older(r) \in Row
         /\ ColumnsMatch(Older(r))
         /\ Older(r).status = r.status
         /\ Older(r).attempts = r.attempts
         /\ Older(r).token = r.token
<1> DEFINE a == IF r.status = "sent" /\ r.age < Retention THEN r.age + 1 ELSE r.age
<1>1. /\ a \in Nat
      /\ Less(r.wait) \in Nat /\ (Less(r.wait) > 0 => r.wait > 0)
      /\ Less(r.lease) \in Nat /\ (Less(r.lease) > 0 => r.lease > 0)
  BY DEF Less, Row
<1>2. Older(r) = [r EXCEPT !.wait = Less(r.wait), !.lease = Less(r.lease), !.age = a]
  BY DEF Older
<1> HIDE DEF a
<1> QED
  BY <1>1, <1>2 DEF Row, ColumnsMatch

-----------------------------------------------------------------------------
Inv == TypeOK /\ ClaimColumnsMatchStatus

\* A settling call keeps the invariant when the row it writes, if it writes
\* one, is well-formed.
LEMMA SettleKeepsInv ==
  ASSUME Inv, NEW m \in Messages, NEW t \in Tokens, NEW new,
         HoldsClaim(table[m], t) => new \in Row /\ ColumnsMatch(new),
         Settle(m, t, new)
  PROVE  Inv'
  BY DEF Inv, ClaimColumnsMatchStatus, TypeOK, Settle

\* Every step of the store keeps the type and the claim columns.
LEMMA StepKeepsInv == Inv /\ [Next]_vars => Inv'
<1> SUFFICES ASSUME Inv, [Next]_vars PROVE Inv'
  OBVIOUS
<1> USE DEF Inv, ClaimColumnsMatchStatus
<1>a. \A m \in Messages : table[m] \in Row /\ ColumnsMatch(table[m])
  BY DEF TypeOK
<1>1. ASSUME NEW m \in Messages, Enqueue(m) PROVE Inv'
  BY <1>1, <1>a, AbsentRows DEF Enqueue, TypeOK
<1>2. ASSUME NEW m \in Messages, ReplayDead(m) PROVE Inv'
  BY <1>2, <1>a, SettledRows DEF ReplayDead, TypeOK
<1>3. ASSUME NEW S \in SUBSET Messages, Claim(S) PROVE Inv'
  <2>1. PICK tok \in [S -> Tokens] :
          table' = [m \in Messages |->
                      IF m \in S THEN Claimed(table[m], tok[m]) ELSE table[m]]
    BY <1>3 DEF Claim
  <2>2. held' \in [Messages -> SUBSET Tokens]
    BY <1>3 DEF Claim, TypeOK
  <2>3. ASSUME NEW m \in Messages PROVE table'[m] \in Row /\ ColumnsMatch(table'[m])
    <3>1. CASE m \in S
      <4>1. table'[m] = Claimed(table[m], tok[m]) /\ tok[m] \in Tokens
        BY <2>1, <3>1
      <4>2. Available(table[m]) \/ Expired(table[m])
        BY <1>3, <3>1 DEF Claim
      <4> QED
        BY <4>1, <4>2, <1>a, ClaimedRow
    <3>2. CASE m \notin S
      BY <3>2, <2>1, <1>a
    <3> QED
      BY <3>1, <3>2
  <2> QED
    BY <2>1, <2>2, <2>3 DEF TypeOK
<1>4. ASSUME NEW S \in SUBSET Messages, CleanupSent(S) PROVE Inv'
  BY <1>4, <1>a, AbsentRows DEF CleanupSent, TypeOK
<1>5. ASSUME NEW m \in Messages, NEW t \in Tokens, Renew(m, t) PROVE Inv'
  <2>1. HoldsClaim(table[m], t) => /\ Renewed(table[m]) \in Row
                                   /\ ColumnsMatch(Renewed(table[m]))
    BY <1>a, SettledRows DEF HoldsClaim
  <2> QED
    BY <1>5, <1>a, <2>1 DEF Renew, TypeOK
<1>6. ASSUME NEW m \in Messages, NEW t \in Tokens, MarkSent(m, t) PROVE Inv'
  <2>1. HoldsClaim(table[m], t) => MarkedSent(table[m]) \in Row /\ ColumnsMatch(MarkedSent(table[m]))
    BY <1>a, SettledRows DEF HoldsClaim
  <2>2. Settle(m, t, MarkedSent(table[m]))
    BY <1>6 DEF MarkSent
  <2> QED
    BY <2>1, <2>2, SettleKeepsInv
<1>7. ASSUME NEW m \in Messages, NEW t \in Tokens, MarkDead(m, t) PROVE Inv'
  <2>1. HoldsClaim(table[m], t) => MarkedDead(table[m]) \in Row /\ ColumnsMatch(MarkedDead(table[m]))
    BY <1>a, SettledRows DEF HoldsClaim
  <2>2. Settle(m, t, MarkedDead(table[m]))
    BY <1>7 DEF MarkDead
  <2> QED
    BY <2>1, <2>2, SettleKeepsInv
<1>8. ASSUME NEW m \in Messages, NEW t \in Tokens, NEW delay \in 0 .. DelayBound,
             MarkRetry(m, t, delay)
      PROVE  Inv'
  <2>0. delay \in Nat
    OBVIOUS
  <2>1. HoldsClaim(table[m], t) => MarkedRetry(table[m], delay) \in Row /\ ColumnsMatch(MarkedRetry(table[m], delay))
    BY <1>a, <2>0, SettledRows DEF HoldsClaim
  <2>2. Settle(m, t, MarkedRetry(table[m], delay))
    BY <1>8 DEF MarkRetry
  <2> QED
    BY <2>1, <2>2, SettleKeepsInv
<1>9. ASSUME NEW gone \in [Messages -> SUBSET Tokens], Forget(gone) PROVE Inv'
  BY <1>9, <1>a DEF Forget, TypeOK
<1>10. CASE Tick
  BY <1>10, <1>a, OlderRow DEF Tick, TypeOK
<1>11. CASE UNCHANGED vars
  BY <1>11 DEF vars, TypeOK
<1> QED
  BY <1>1, <1>2, <1>3, <1>4, <1>5, <1>6, <1>7, <1>8, <1>9, <1>10, <1>11 DEF Next

\* The invariant holds in every reachable state.
LEMMA InvHolds == Spec => []Inv
<1>1. Init => Inv
  BY AbsentRows DEF Init, Inv, TypeOK, ClaimColumnsMatchStatus
<1> QED
  BY <1>1, StepKeepsInv, PTL DEF Spec

\* Type correctness of the outbox table.
THEOREM TypeCorrect == Spec => []TypeOK
  BY InvHolds, PTL DEF Inv

\* No operation leaves a half-released row behind, whatever token it is
\* called with.
THEOREM ClaimColumnsCorrect == Spec => []ClaimColumnsMatchStatus
  BY InvHolds, PTL DEF Inv

-----------------------------------------------------------------------------
(* The five ways a row changes.  The action properties follow from them    *)
(* without looking at the operations again.                                *)

Kept(m) ==
  /\ table'[m].status = table[m].status
  /\ table'[m].token = table[m].token

Ended(m) ==
  /\ table[m].status = "leased"
  /\ table[m].token \in held[m] \ held'[m]
  /\ table'[m].token = NoToken
  /\ table'[m].status \in {"sent", "retry", "dead"}

Taken(m) ==
  /\ table[m].lease = 0
  /\ table[m].status # "sent"
  /\ table'[m].token \notin held[m]

Queued(m) ==
  /\ table[m].status \notin {"leased", "sent"}
  /\ table'[m].token = NoToken

Removed(m) ==
  /\ Cleanable(table[m])
  /\ table'[m] = Absent

\* A settling call changes no row but m's, and that one only for the holder
\* of its claim.
LEMMA SettleRows ==
  ASSUME Inv, NEW m \in Messages, NEW t \in Tokens, NEW new, Settle(m, t, new),
         new.token = NoToken, new.status \in {"sent", "retry", "dead"},
         NEW n \in Messages
  PROVE  Kept(n) \/ Ended(n)
  BY DEF Inv, TypeOK, Settle, HoldsClaim, Kept, Ended

\* Every step changes a row in one of these ways.
LEMMA RowStep ==
  ASSUME Inv, Next, NEW n \in Messages
  PROVE  Kept(n) \/ Ended(n) \/ Taken(n) \/ Queued(n) \/ Removed(n)
<1> USE DEF Kept
<1>a. \A m \in Messages : table[m] \in Row /\ ColumnsMatch(table[m])
  BY DEF Inv, ClaimColumnsMatchStatus, TypeOK
<1>b. table \in [Messages -> Row]
  BY DEF Inv, TypeOK
<1>1. ASSUME NEW m \in Messages, Enqueue(m) PROVE Kept(n) \/ Queued(n)
  BY <1>1, <1>a, <1>b DEF Enqueue, Queued, Enqueued, Absent
<1>2. ASSUME NEW m \in Messages, ReplayDead(m) PROVE Kept(n) \/ Queued(n)
  <2>1. Replayed(table[m]).token = NoToken
    BY <1>a DEF Replayed, Released, Row
  <2> QED
    BY <1>2, <1>b, <2>1 DEF ReplayDead, Queued
<1>3. ASSUME NEW S \in SUBSET Messages, Claim(S) PROVE Kept(n) \/ Taken(n)
  <2>1. PICK tok \in [S -> Tokens] :
          /\ \A m \in S : tok[m] \in FreshTokens(m)
          /\ table' = [m \in Messages |->
                         IF m \in S THEN Claimed(table[m], tok[m]) ELSE table[m]]
    BY <1>3 DEF Claim
  <2>2. CASE n \in S
    <3>1. table'[n].token = tok[n] /\ tok[n] \notin held[n]
      BY <2>1, <2>2, <1>a DEF Claimed, Row, FreshTokens
    <3>2. table[n].lease = 0 /\ table[n].status # "sent"
      BY <1>3, <2>2, <1>a DEF Claim, Available, Expired, ColumnsMatch, Row
    <3> QED
      BY <3>1, <3>2 DEF Taken
  <2>3. CASE n \notin S
    BY <2>1, <2>3
  <2> QED
    BY <2>2, <2>3
<1>4. ASSUME NEW S \in SUBSET Messages, CleanupSent(S) PROVE Kept(n) \/ Removed(n)
  BY <1>4 DEF CleanupSent, Removed
<1>5. ASSUME NEW m \in Messages, NEW t \in Tokens, Renew(m, t) PROVE Kept(n)
  <2>1. /\ Renewed(table[m]).status = table[m].status
        /\ Renewed(table[m]).token = table[m].token
    BY <1>a DEF Renewed, Row
  <2> QED
    BY <1>5, <1>b, <2>1 DEF Renew
<1>6. ASSUME NEW m \in Messages, NEW t \in Tokens, MarkSent(m, t) PROVE Kept(n) \/ Ended(n)
  <2>1. MarkedSent(table[m]).token = NoToken /\ MarkedSent(table[m]).status = "sent"
    BY <1>a DEF MarkedSent, Released, Row
  <2>2. Settle(m, t, MarkedSent(table[m]))
    BY <1>6 DEF MarkSent
  <2> QED
    BY <2>1, <2>2, SettleRows
<1>7. ASSUME NEW m \in Messages, NEW t \in Tokens, MarkDead(m, t) PROVE Kept(n) \/ Ended(n)
  <2>1. MarkedDead(table[m]).token = NoToken /\ MarkedDead(table[m]).status = "dead"
    BY <1>a DEF MarkedDead, Released, Row
  <2>2. Settle(m, t, MarkedDead(table[m]))
    BY <1>7 DEF MarkDead
  <2> QED
    BY <2>1, <2>2, SettleRows
<1>8. ASSUME NEW m \in Messages, NEW t \in Tokens, NEW delay \in 0 .. DelayBound,
             MarkRetry(m, t, delay)
      PROVE  Kept(n) \/ Ended(n)
  <2>1. /\ MarkedRetry(table[m], delay).token = NoToken
        /\ MarkedRetry(table[m], delay).status = "retry"
    BY <1>a DEF MarkedRetry, Released, Row
  <2>2. Settle(m, t, MarkedRetry(table[m], delay))
    BY <1>8 DEF MarkRetry
  <2> QED
    BY <2>1, <2>2, SettleRows
<1>9. ASSUME NEW gone \in [Messages -> SUBSET Tokens], Forget(gone) PROVE Kept(n)
  BY <1>9 DEF Forget
<1>10. CASE Tick
  BY <1>10, <1>a, OlderRow DEF Tick
<1> QED
  BY <1>1, <1>2, <1>3, <1>4, <1>5, <1>6, <1>7, <1>8, <1>9, <1>10 DEF Next

\* No other worker's claim, no stale token, no replay and no cleanup touches
\* the row of a claim whose lease still runs.
THEOREM LiveClaimsProtected == Spec => LiveClaimEndedByHolderOnly
<1>1. Inv /\ [Next]_vars => [LiveClaimStep]_vars
  <2> SUFFICES ASSUME Inv, Next, NEW m \in Messages,
                      table[m].lease > 0, table'[m].token # table[m].token
               PROVE  /\ table[m].token \in held[m]
                      /\ table[m].token \notin held'[m]
                      /\ table'[m].status \in {"sent", "retry", "dead"}
    BY DEF LiveClaimStep
  <2>1. ColumnsMatch(table[m]) /\ table[m] \in Row
    BY DEF Inv, ClaimColumnsMatchStatus, TypeOK
  <2>2. table[m].status = "leased" /\ table[m].lease # 0
    BY <2>1 DEF ColumnsMatch, Row
  <2> QED
    BY <2>2, RowStep DEF Kept, Ended, Taken, Queued, Removed, Cleanable
<1> QED
  BY <1>1, InvHolds, PTL DEF Spec, LiveClaimEndedByHolderOnly

\* A sent row stays sent until its retention has passed.
THEOREM SentRowsFinal == Spec => SentIsFinal
<1>1. Inv /\ [Next]_vars => [SentStep]_vars
  <2> SUFFICES ASSUME Inv, Next, NEW m \in Messages, table[m].status = "sent"
               PROVE  \/ table'[m].status = "sent"
                      \/ table'[m] = Absent /\ table[m].age >= Retention
    BY DEF SentStep
  <2> QED
    BY RowStep DEF Kept, Ended, Taken, Queued, Removed, Cleanable
<1> QED
  BY <1>1, InvHolds, PTL DEF Spec, SentIsFinal
=============================================================================
