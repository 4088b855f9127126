---------------------------- MODULE OutboxStore ----------------------------
(***************************************************************************)
(* What the outbox store promises whoever calls it.  The callers are       *)
(* arbitrary: any number of workers and operators call any operation of    *)
(* DatabaseStore in any order, a worker may present a claim token long     *)
(* after its lease ran out, and a reply may be lost after the transaction  *)
(* committed.  held[m] is the set of tokens for m that some caller may     *)
(* still present; a token nobody holds and no row carries is fresh again,  *)
(* which is what 16 random bytes amount to.                                *)
(***************************************************************************)
EXTENDS OutboxTable, FiniteSets

CONSTANTS
  DelayBound,    \* bound: the longest delay a caller passes to MarkRetry
  AttemptBound,  \* bound: no row is claimed anew after this many attempts
  LeaseBound     \* bound: no renewal takes a lease beyond this length

VARIABLES
  table,  \* table[m]: the row with primary key m
  held    \* held[m]: claim tokens for m still in some caller's hands

vars == <<table, held>>

TypeOK ==
  /\ table \in [Messages -> Row]
  /\ held \in [Messages -> SUBSET Tokens]

Init ==
  /\ table = [m \in Messages |-> Absent]
  /\ held = [m \in Messages |-> {}]

FreshTokens(m) == Tokens \ (held[m] \cup {table[m].token})

----------------------------------------------------------------------------

Enqueue(m) ==
  /\ table[m] = Absent
  /\ table' = [table EXCEPT ![m] = Enqueued]
  /\ UNCHANGED held

\* One claim transaction: every candidate it selected gets a fresh token.
\* The tokens reach the caller, or the reply is lost after the commit; a
\* caller that gets an error gives up the claims it already had as well.
Claim(S) ==
  /\ S # {}
  /\ \A m \in S : \/ Available(table[m]) /\ table[m].attempts < AttemptBound
                  \/ Expired(table[m])
  /\ \E tok \in [S -> Tokens] :
       /\ \A m \in S : tok[m] \in FreshTokens(m)
       /\ table' = [m \in Messages |->
                      IF m \in S THEN Claimed(table[m], tok[m]) ELSE table[m]]
       /\ \/ held' = [m \in Messages |->
                        IF m \in S THEN held[m] \cup {tok[m]} ELSE held[m]]
          \/ /\ held' \in [Messages -> SUBSET Tokens]
             /\ \A m \in Messages : held'[m] \subseteq held[m]

Renew(m, t) ==
  /\ t \in held[m]
  /\ table[m].lease + LeaseDuration <= LeaseBound
  /\ table' = [table EXCEPT ![m] = IF HoldsClaim(@, t) THEN Renewed(@) ELSE @]
  /\ UNCHANGED held

\* MarkSent, MarkRetry or MarkDead by the caller that holds t; the caller
\* is done with the token whatever the statement answers.
Settle(m, t, new) ==
  /\ t \in held[m]
  /\ table' = [table EXCEPT ![m] = IF HoldsClaim(@, t) THEN new ELSE @]
  /\ held' = [held EXCEPT ![m] = @ \ {t}]

MarkSent(m, t) == Settle(m, t, MarkedSent(table[m]))

MarkRetry(m, t, delay) == Settle(m, t, MarkedRetry(table[m], delay))

MarkDead(m, t) == Settle(m, t, MarkedDead(table[m]))

\* Callers stop, crash or give a claim up without telling the store.
Forget(gone) ==
  /\ gone \in [Messages -> SUBSET Tokens]
  /\ held' = [m \in Messages |-> held[m] \ gone[m]]
  /\ UNCHANGED table

CleanupSent(S) ==
  /\ \A m \in S : Cleanable(table[m])
  /\ table' = [m \in Messages |-> IF m \in S THEN Absent ELSE table[m]]
  /\ UNCHANGED held

ReplayDead(m) ==
  /\ table[m].status = "dead"
  /\ table' = [table EXCEPT ![m] = Replayed(@)]
  /\ UNCHANGED held

Tick ==
  /\ table' = [m \in Messages |-> Older(table[m])]
  /\ UNCHANGED held

Next ==
  \/ \E m \in Messages : Enqueue(m) \/ ReplayDead(m)
  \/ \E S \in SUBSET Messages : Claim(S) \/ CleanupSent(S)
  \/ \E m \in Messages : \E t \in Tokens : Renew(m, t) \/ MarkSent(m, t) \/ MarkDead(m, t)
  \/ \E m \in Messages : \E t \in Tokens : \E delay \in 0 .. DelayBound : MarkRetry(m, t, delay)
  \/ \E gone \in [Messages -> SUBSET Tokens] : Forget(gone)
  \/ Tick

Spec == Init /\ [][Next]_vars

----------------------------------------------------------------------------
(* What the store promises.                                                *)

\* The claim columns are set exactly while the row is leased, and only a
\* waiting row has its availability postponed: no operation, whatever token
\* it is called with, leaves a half-released row behind.
ClaimColumnsMatchStatus == \A m \in Messages : ColumnsMatch(table[m])

\* As long as its lease runs, a claim is only ended by its own holder: no
\* other worker's claim, no stale token, no replay and no cleanup touches
\* the row of a live claim.
LiveClaimStep ==
  \A m \in Messages :
    (table[m].lease > 0 /\ table'[m].token # table[m].token)
      => /\ table[m].token \in held[m]
         /\ table[m].token \notin held'[m]
         /\ table'[m].status \in {"sent", "retry", "dead"}

LiveClaimEndedByHolderOnly == [][LiveClaimStep]_vars

\* A row marked sent is never published again by way of the table: its only
\* change besides ageing is its removal once the retention has passed.
SentStep ==
  \A m \in Messages :
    table[m].status = "sent"
      => \/ table'[m].status = "sent"
         \/ table'[m] = Absent /\ table[m].age >= Retention

SentIsFinal == [][SentStep]_vars
=============================================================================
