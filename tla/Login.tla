------------------------------- MODULE Login --------------------------------
(***************************************************************************)
(* Requests that log in, refresh, use and end sessions, on several request *)
(* goroutines at once: LoginService (modules/base/service/login.go) over   *)
(* the risk service (cool-next/risk) and the authentication service with   *)
(* its session store (cool-next/auth), both in Redis or both in memory.    *)
(*                                                                         *)
(* A step is one access to shared state: one Redis command or script, one  *)
(* critical section, one transaction. Any Redis call may fail before it    *)
(* was executed or, its reply lost, after it was; a risk call may also be  *)
(* cancelled with its request. What the transaction reads of the user is   *)
(* the subject of module Authority; here it admits the user or does not.   *)
(***************************************************************************)
EXTENDS RiskControl, Sequences, TLC

CONSTANTS
  Procs, SessionIds, Users, None,
  AccessTTL, RefreshTTL, ClockSkew, RedisCooldown,
  Proxies,                       \* the trusted proxies
  Origins,                       \* [remote, forwarded]: where requests come from
  InitCaptchas,                  \* the captchas outstanding at the start
  MaxNow, MaxPairs, MaxRequests, MaxFaults

Pairs == 1..MaxPairs

\* JWTConfig.Validate, as far as it concerns time.
JWTConfigValid ==
  /\ AccessTTL > 0 /\ RefreshTTL > AccessTTL
  /\ ClockSkew >= 0 /\ ClockSkew < AccessTTL

ASSUME TokenConfig == JWTConfigValid

\* Durations are whole; None is no user, no Redis value and no step's result.
ASSUME LoginAssumption ==
  /\ {AccessTTL, RefreshTTL, ClockSkew} \subseteq Nat
  /\ MaxPairs \in Nat \ {0}
  /\ IsFiniteSet(Procs)
  /\ None \notin Users
  /\ None \notin [user : Users, exp : Nat] \cup [pair : Pairs, exp : Nat]
                  \cup [user : Users, pair : Pairs, exp : Nat] \cup [user : Users, pair : Pairs]
  /\ None \notin [id : SessionIds, pair : Pairs, exp : Nat, at : Nat]
  /\ None \notin [got : {"ok", "error", "cancelled", "local"},
                  res : {None, "allowed", "limited", "conflict", "matched", "notMatched"},
                  isProbe : BOOLEAN]

\* ResolveClientIP: behind a trusted proxy the last address of the forwarded
\* chain that is no trusted proxy itself, or the first when all are.
ResolveClientIP(origin) ==
  LET chain == origin.forwarded
      untrusted == {i \in DOMAIN chain : chain[i] \notin Proxies}
  IN  IF origin.remote \notin Proxies \/ chain = <<>> THEN origin.remote
      ELSE IF untrusted = {} THEN chain[1]
      ELSE chain[Max(untrusted)]

VARIABLES
  now,            \* the clock of this process and of Redis
  isRedis,        \* both stores are configured as redis, or both as memory
  locator,        \* session:<id> -> [user, exp], or None
  hash,           \* user:<id> -> [exp, fields]: the sessions of a user by ID
  sessions,       \* MemoryStore.sessions
  redis, fallback,            \* the risk backends
  degradedUntil, isProbing,   \* risk.Service
  procs,          \* what every request goroutine is doing
  drawn,          \* how many pairs have been issued, the last is the newest
  tokens,         \* the tokens clients have received
  requests, faults,           \* bounded work and bounded failures
  stored,         \* history: IDs and pairs ever stored
  uses,           \* history: how often a pair's refresh token was judged
  guesses         \* history: wrong passwords answered per account since the
                  \* clock moved, Redis failed or came back, or the account's
                  \* failures were cleared

storeVars == <<locator, hash, sessions, stored>>
riskVars == <<redis, fallback, degradedUntil, isProbing>>
vars == <<now, isRedis, storeVars, riskVars, procs, drawn, tokens, requests, faults, uses, guesses>>

-----------------------------------------------------------------------------
(* The goroutines.                                                         *)

\* pc is the next step; cont says which operation a session read belongs to,
\* rec what it has read, reply what a Redis attempt of the risk service got.
Idle == [pc |-> "idle", req |-> None, cont |-> None, rec |-> None, reply |-> None, next |-> None]

RiskSteps == {"allowCaptcha", "saveCaptcha", "consumeCaptcha",
              "allowLogin", "recordLoginFailure", "clearLoginFailure"}

Goto(p, pc) == procs' = [procs EXCEPT ![p].pc = pc]

Finish(p) == procs' = [procs EXCEPT ![p] = Idle]

\* sign: a token names its session and its pair and says when it was issued.
Token(id, pair, at, isRefresh) == [pair |-> pair, id |-> id, at |-> at, isRefresh |-> isRefresh]

\* Parse: the token is of the expected type and has not expired.
Parse(token, isRefresh) ==
  /\ token.isRefresh = isRefresh
  /\ now < token.at + (IF isRefresh THEN RefreshTTL ELSE AccessTTL) + ClockSkew

Spend == faults < MaxFaults /\ faults' = faults + 1

-----------------------------------------------------------------------------
(* risk.Service.execute                                                    *)

\* allowCaptcha, allowLogin and recordLoginFailure may fall back to memory.
CanFallback(op) == op \in {"allowCaptcha", "allowLogin", "recordLoginFailure"}

RedisOperation(op, req) ==
  CASE op = "allowCaptcha" -> allowCaptchaScript(redis, req.client, now)
    [] op = "saveCaptcha" -> saveCaptchaScript(redis, req.client, req.captcha, now)
    [] op = "consumeCaptcha" -> useCaptchaScript(redis, req.captcha, req.isRight)
    [] op = "allowLogin" -> allowLoginScript(redis, req.client, req.account, now)
    [] op = "recordLoginFailure" -> recordLoginScript(redis, req.account, now)
    [] op = "clearLoginFailure" -> clearLoginScript(redis, req.account)

MemoryOperation(op, req) ==
  CASE op = "allowCaptcha" -> MemAllowCaptcha(fallback, req.client, now)
    [] op = "saveCaptcha" -> MemSaveCaptcha(fallback, req.client, req.captcha, now)
    [] op = "consumeCaptcha" -> MemConsumeCaptcha(fallback, req.captcha, req.isRight, now)
    [] op = "allowLogin" -> MemAllowLogin(fallback, req.client, req.account, now)
    [] op = "recordLoginFailure" -> MemRecordLoginFailure(fallback, req.account, now)
    [] op = "clearLoginFailure" -> MemClearLoginFailure(fallback, req.account)

\* Where a request goes on with the result of a risk operation: Generate,
\* Login and the error mapping of AllowCaptcha ... ClearLoginFailure.
AfterRisk(op, res) ==
  CASE op = "allowCaptcha" /\ res = "allowed" -> "saveCaptcha"
    [] op = "allowLogin" /\ res = "allowed" -> "consumeCaptcha"
    [] op = "consumeCaptcha" /\ res = "matched" -> "candidate"
    [] op = "clearLoginFailure" -> "issueLogin"
    [] OTHER -> "idle"

\* The goroutine after a risk operation; a wrong password is then answered.
After(proc, res) ==
  LET pc == AfterRisk(proc.pc, res)
  IN  IF pc = "idle" THEN Idle ELSE [proc EXCEPT !.pc = pc, !.reply = None]

\* The history: a wrong password is answered, or a right one clears the failures.
NoGuesses == [a \in Accounts |-> 0]

Cleared(p) == IF procs[p].pc = "clearLoginFailure"
              THEN [guesses EXCEPT ![procs[p].req.account] = 0] ELSE guesses

Counted(p, res) == IF procs[p].pc = "recordLoginFailure" /\ res = "allowed"
                   THEN [guesses EXCEPT ![procs[p].req.account] = @ + 1] ELSE Cleared(p)

Continue(p, res) == procs' = [procs EXCEPT ![p] = After(@, res)]

\* beginRedisAttempt
ShouldAttempt == degradedUntil = 0 \/ (degradedUntil <= now /\ ~isProbing)
IsProbe == degradedUntil # 0

RiskUnchanged == UNCHANGED <<now, isRedis, storeVars, drawn, tokens, requests, uses>>

Got(p, got) == procs' = [procs EXCEPT ![p].reply = [got |-> got, res |-> None, isProbe |-> IsProbe]]

\* The attempt: beginRedisAttempt, then the script. An answered attempt that
\* is no probe has nothing to mark; the others wait for RiskSettle.
RiskAttempt(p) ==
  /\ procs[p].pc \in RiskSteps
  /\ isRedis
  /\ procs[p].reply = None
  /\ ShouldAttempt
  /\ isProbing' = (isProbing \/ IsProbe)
  /\ \E answer \in {RedisOperation(procs[p].pc, procs[p].req)} :
       \/ /\ redis' = answer.st
          /\ IF IsProbe
             THEN /\ procs' = [procs EXCEPT ![p].reply =
                                 [got |-> "ok", res |-> answer.res, isProbe |-> TRUE]]
                  /\ UNCHANGED guesses
             ELSE Continue(p, answer.res) /\ guesses' = Counted(p, answer.res)
          /\ UNCHANGED faults
       \/ /\ redis' \in {redis, answer.st}
          /\ \/ Spend /\ Got(p, "error")
             \/ UNCHANGED faults /\ Got(p, "cancelled")
          /\ guesses' = Cleared(p)
  /\ UNCHANGED <<fallback, degradedUntil>>
  /\ RiskUnchanged

markRedisSuccess == degradedUntil' = 0 /\ isProbing' = FALSE

\* Mutant of cancelRedisProbe: a cancelled probe leaves the flag set.
cancelKeepsFlag(isProbe) == UNCHANGED <<degradedUntil, isProbing>>

cancelRedisProbe(isProbe) ==
  /\ isProbing' = IF isProbe THEN FALSE ELSE isProbing
  /\ UNCHANGED degradedUntil

markRedisFailure == degradedUntil' = now + RedisCooldown /\ isProbing' = FALSE

\* Redis has answered a probe, or the call was cancelled, or it has failed:
\* then the memory backend is next, or the request ends with 503.
RiskSettle(p) ==
  LET reply == procs[p].reply
  IN  /\ procs[p].pc \in RiskSteps
      /\ reply # None
      /\ \/ /\ reply.got = "ok"
            /\ markRedisSuccess
            /\ Continue(p, reply.res)
            /\ guesses' = NoGuesses
         \/ /\ reply.got = "cancelled"
            /\ cancelRedisProbe(reply.isProbe)
            /\ Finish(p)
            /\ UNCHANGED guesses
         \/ /\ reply.got = "error"
            /\ markRedisFailure
            /\ IF CanFallback(procs[p].pc)
               THEN procs' = [procs EXCEPT ![p].reply = [got |-> "local", res |-> None, isProbe |-> FALSE]]
               ELSE Finish(p)
            /\ guesses' = NoGuesses
      /\ UNCHANGED <<redis, fallback, faults>>
      /\ RiskUnchanged

\* The memory backend: without Redis, after it has failed, or while it is not
\* to be asked; then only for the operations that may fall back.  A request
\* that met the failure is answered from memory even if Redis is back by then.
RiskLocal(p) ==
  LET reply == procs[p].reply
      isDegraded == isRedis /\ reply = None /\ ~ShouldAttempt
  IN  /\ procs[p].pc \in RiskSteps
      /\ \/ ~isRedis
         \/ isDegraded
         \/ reply # None /\ reply.got = "local"
      /\ \/ /\ isDegraded /\ ~CanFallback(procs[p].pc)
            /\ Finish(p)
            /\ UNCHANGED <<fallback, guesses>>
         \/ /\ isDegraded => CanFallback(procs[p].pc)
            /\ \E answer \in {MemoryOperation(procs[p].pc, procs[p].req)} :
                 /\ fallback' = answer.st
                 /\ Continue(p, answer.res)
                 /\ guesses' = IF isRedis /\ degradedUntil = 0 THEN NoGuesses ELSE Counted(p, answer.res)
      /\ UNCHANGED <<redis, degradedUntil, isProbing, faults>>
      /\ RiskUnchanged

\* Login between the captcha and the session: userByUsername, the status and
\* Verify of the password.
Candidate(p) ==
  /\ procs[p].pc = "candidate"
  /\ \/ /\ Goto(p, IF procs[p].req.password = "right" THEN "clearLoginFailure" ELSE "recordLoginFailure")
        /\ UNCHANGED faults
     \/ Spend /\ Finish(p)                \* the user cannot be read
  /\ UNCHANGED <<now, isRedis, storeVars, riskVars, drawn, tokens, requests, uses, guesses>>
-----------------------------------------------------------------------------
(* RedisStore: the locator of a session and the hash of its user. The      *)
(* scripts return the store they leave and what they answer.               *)

Store(l, h, st) == [locator |-> l, hash |-> h, stored |-> st]

Same == Store(locator, hash, stored)

Reply(res, store) == [res |-> res, store |-> store]

UserOf(id) == IF locator[id] = None THEN None ELSE locator[id].user

Put(id, user, content) ==
  Store([locator EXCEPT ![id] = [exp |-> content.exp, user |-> user]],
        [hash EXCEPT ![user] = [exp |-> Max({@.exp, content.exp}),
                                fields |-> [@.fields EXCEPT ![id] = content]]],
        [ids |-> stored.ids \cup {id}, pairs |-> stored.pairs \cup {content.pair}])

Drop(id, user) ==
  Store([locator EXCEPT ![id] = None], [hash EXCEPT ![user].fields[id] = None], stored)

saveSessionScript(id, user, content) ==
  IF UserOf(id) \notin {None, user} THEN Reply(0, Same) ELSE Reply(1, Put(id, user, content))

\* Mutant of rotateRefreshScript: the stored content is not compared.
rotateUnchecked(id, user, expected, content) ==
  IF UserOf(id) # user THEN Reply(0, Same)
  ELSE IF hash[user].fields[id] = None THEN Reply(0, Same)
  ELSE Reply(1, Put(id, user, content))

\* Mutant of rotateRefreshScript: the field is written even when it is gone.
rotateRevives(id, user, expected, content) ==
  IF UserOf(id) # user THEN Reply(0, Same)
  ELSE IF hash[user].fields[id] \notin {None, expected} THEN Reply(2, Same)
  ELSE Reply(1, Put(id, user, content))

rotateRefreshScript(id, user, expected, content) ==
  IF UserOf(id) # user THEN Reply(0, Same)
  ELSE IF hash[user].fields[id] = None THEN Reply(0, Same)
  ELSE IF hash[user].fields[id] # expected THEN Reply(2, Same)
  ELSE Reply(1, Put(id, user, content))

revokeSessionScript(id, user) ==
  IF UserOf(id) # user THEN Reply(0, Same) ELSE Reply(1, Drop(id, user))

delSessionScript(id, user, expected) ==
  IF hash[user].fields[id] # expected THEN Reply(0, Same)
  ELSE Reply(1, IF UserOf(id) = user THEN Drop(id, user)
                ELSE Store(locator, [hash EXCEPT ![user].fields[id] = None], stored))

delLocatorScript(id, user) ==
  IF UserOf(id) # user THEN Reply(0, Same)
  ELSE Reply(1, Store([locator EXCEPT ![id] = None], hash, stored))

NoSessionsOf == [exp |-> 0, fields |-> [id \in SessionIds |-> None]]

\* RevokeUsers is one UNLINK; the locators of the user's sessions stay behind.
unlinkUser(user) == Reply(1, Store(locator, [hash EXCEPT ![user] = NoSessionsOf], stored))

SessionUnchanged == UNCHANGED <<now, isRedis, riskVars, requests, guesses>>

Left(store) == locator' = store.locator /\ hash' = store.hash /\ stored' = store.stored

\* One command or script: executed and answered, or failed before or after it
\* was executed, which ends the request with an error.
Redis(p, reply, onReply) ==
  \/ /\ Left(reply.store)
     /\ onReply
     /\ UNCHANGED <<sessions, faults>>
  \/ /\ Spend
     /\ \E store \in {Same, reply.store} : Left(store)
     /\ Finish(p)
     /\ UNCHANGED <<sessions, uses, tokens, drawn>>

\* A request for which a definite answer is given; a refresh token is judged.
Judged(p) ==
  /\ Finish(p)
  /\ uses' = IF procs[p].req.kind = "refresh" THEN [uses EXCEPT ![procs[p].req.token.pair] = @ + 1]
             ELSE uses
  /\ UNCHANGED <<tokens, drawn>>

Read(p, cont) ==
  /\ procs' = [procs EXCEPT ![p].pc = "get", ![p].cont = cont, ![p].rec = None]
  /\ UNCHANGED <<uses, tokens, drawn>>

\* The request ends with an error that judges nothing.
Failed(p) == Finish(p) /\ UNCHANGED <<uses, tokens, drawn>>

Step(p, pc, rec) ==
  /\ procs' = [procs EXCEPT ![p].pc = pc, ![p].rec = rec]
  /\ UNCHANGED <<uses, tokens, drawn>>

\* checkClaims of a token against the session's current pair.
checkClaims(token, content) == token.pair = content.pair

\* encode refuses a session that has already expired, decode reports one.
encode(next) == next.exp > now
decode(content) == IF content.exp <= now THEN "expired" ELSE "valid"

\* What verify, RotateRefresh and Revoke do with the session they have read:
\* a refresh token that is not the current one is a replay and revokes the
\* session (revokeReplay).
Present(p, user, content) ==
  LET req == procs[p].req
      rec == [user |-> user, content |-> content]
  IN  CASE procs[p].cont = "verify" /\ checkClaims(req.token, content) ->
             IF req.kind = "refresh" THEN Step(p, "resolve", None)
             ELSE IF req.kind = "logout" THEN Read(p, "revoke")
             ELSE Judged(p)
        [] procs[p].cont = "verify" /\ ~checkClaims(req.token, content) ->
             IF req.kind = "refresh" THEN Read(p, "revoke") ELSE Judged(p)
        [] procs[p].cont = "rotate" ->
             IF ~checkClaims(req.token, content) THEN Read(p, "revoke")
             ELSE IF ~encode(procs[p].next) THEN Failed(p)
             ELSE Step(p, "rotate", rec)
        [] procs[p].cont = "revoke" -> Step(p, "revoke", rec)

\* readSession: GET of the locator, HGET of the content, and the scripts that
\* remove what is stale.
ReadLocator(p) ==
  LET id == procs[p].req.token.id
  IN  /\ procs[p].pc = "get"
      /\ isRedis
      /\ Redis(p, Reply(0, Same),
               IF UserOf(id) = None THEN Judged(p)
               ELSE Step(p, "hget", [user |-> UserOf(id), content |-> None]))
      /\ SessionUnchanged

ReadContent(p) ==
  LET id == procs[p].req.token.id
      user == procs[p].rec.user
      content == hash[user].fields[id]
  IN  /\ procs[p].pc = "hget"
      /\ Redis(p, Reply(0, Same),
               IF content = None THEN Step(p, "delLocator", procs[p].rec)
               ELSE IF decode(content) = "expired"
                    THEN Step(p, "delSession", [user |-> user, content |-> content])
               ELSE Present(p, user, content))
      /\ SessionUnchanged

CleanUp(p) ==
  LET id == procs[p].req.token.id
      rec == procs[p].rec
  IN  /\ \/ /\ procs[p].pc = "delLocator"
            /\ Redis(p, delLocatorScript(id, rec.user), Judged(p))
         \/ /\ procs[p].pc = "delSession"
            /\ Redis(p, delSessionScript(id, rec.user, rec.content), Judged(p))
      /\ SessionUnchanged

Rotate(p) ==
  LET id == procs[p].req.token.id
      reply == rotateRefreshScript(id, procs[p].rec.user, procs[p].rec.content,
                                   [exp |-> procs[p].next.exp, pair |-> procs[p].next.pair])
  IN  /\ procs[p].pc = "rotate"
      /\ Redis(p, reply, CASE reply.res = 0 -> Judged(p)
                            [] reply.res = 1 -> Step(p, "commit", None)
                            [] reply.res = 2 -> Read(p, "revoke"))
      /\ SessionUnchanged

Revoke(p) ==
  /\ procs[p].pc = "revoke"
  /\ Redis(p, revokeSessionScript(procs[p].req.token.id, procs[p].rec.user), Judged(p))
  /\ SessionUnchanged

Save(p) ==
  LET next == procs[p].next
      reply == saveSessionScript(next.id, procs[p].req.account, [exp |-> next.exp, pair |-> next.pair])
  IN  /\ procs[p].pc = "save"
      /\ isRedis
      /\ \/ encode(next) /\ Redis(p, reply, IF reply.res = 1 THEN Step(p, "commit", None) ELSE Failed(p))
         \/ ~encode(next) /\ Failed(p) /\ UNCHANGED <<storeVars, faults>>
      /\ SessionUnchanged

RevokeUsers(p) ==
  /\ procs[p].pc = "revokeUsers"
  /\ isRedis
  /\ Redis(p, unlinkUser(procs[p].req.account), Judged(p))
  /\ SessionUnchanged

-----------------------------------------------------------------------------
(* MemoryStore: every operation is one critical section.                   *)

\* cleanupExpired
Kept == [id \in SessionIds |->
           IF sessions[id] # None /\ sessions[id].exp <= now THEN None ELSE sessions[id]]

SaveIn(ss, id, user, next) == [ss EXCEPT ![id] = [exp |-> next.exp, user |-> user, pair |-> next.pair]]

Storing(next) == stored' = [ids |-> stored.ids \cup {next.id}, pairs |-> stored.pairs \cup {next.pair}]

MemoryGet(p) ==
  LET id == procs[p].req.token.id
  IN  /\ procs[p].pc = "get"
      /\ ~isRedis
      /\ procs[p].cont = "verify"
      /\ sessions' = Kept
      /\ IF Kept[id] = None THEN Judged(p) ELSE Present(p, Kept[id].user, Kept[id])
      /\ UNCHANGED <<locator, hash, stored, faults>>
      /\ SessionUnchanged

MemoryRotateRefresh(p) ==
  LET id == procs[p].req.token.id
      next == procs[p].next
  IN  /\ procs[p].pc = "get"
      /\ ~isRedis
      /\ procs[p].cont = "rotate"
      /\ \/ /\ ~encode(next)
            /\ Failed(p) /\ UNCHANGED <<sessions, stored>>
         \/ /\ encode(next)
            /\ \/ Kept[id] = None /\ Judged(p) /\ sessions' = Kept /\ UNCHANGED stored
               \/ /\ Kept[id] # None
                  /\ ~checkClaims(procs[p].req.token, Kept[id])
                  /\ Read(p, "revoke") /\ sessions' = Kept /\ UNCHANGED stored
               \/ /\ Kept[id] # None
                  /\ checkClaims(procs[p].req.token, Kept[id])
                  /\ sessions' = SaveIn(Kept, id, Kept[id].user, next)
                  /\ Storing(next)
                  /\ Step(p, "commit", None)
      /\ UNCHANGED <<locator, hash, faults>>
      /\ SessionUnchanged

MemoryRevoke(p) ==
  /\ procs[p].pc = "get"
  /\ ~isRedis
  /\ procs[p].cont = "revoke"
  /\ sessions' = [sessions EXCEPT ![procs[p].req.token.id] = None]
  /\ Judged(p)
  /\ UNCHANGED <<locator, hash, stored, faults>>
  /\ SessionUnchanged

MemorySave(p) ==
  LET next == procs[p].next
  IN  /\ procs[p].pc = "save"
      /\ ~isRedis
      /\ \/ /\ ~encode(next)
            /\ Failed(p) /\ UNCHANGED <<sessions, stored>>
         \/ /\ encode(next)
            /\ sessions' = SaveIn(Kept, next.id, procs[p].req.account, next)
            /\ Storing(next)
            /\ Step(p, "commit", None)
      /\ UNCHANGED <<locator, hash, faults>>
      /\ SessionUnchanged

MemoryRevokeUsers(p) ==
  /\ procs[p].pc = "revokeUsers"
  /\ ~isRedis
  /\ sessions' = [id \in SessionIds |->
                    IF Kept[id] # None /\ Kept[id].user = procs[p].req.account THEN None ELSE Kept[id]]
  /\ Judged(p)
  /\ UNCHANGED <<locator, hash, stored, faults>>
  /\ SessionUnchanged

-----------------------------------------------------------------------------
(* The transactions of Login and Refresh, and the requests.                *)

\* IDs are random and never repeat: an unused session ID and the next pair.
Draw(p, id) ==
  /\ drawn < MaxPairs
  /\ drawn' = drawn + 1
  /\ procs' = [procs EXCEPT ![p].next = [exp |-> now + RefreshTTL, pair |-> drawn + 1, id |-> id, at |-> now],
                            ![p].pc = IF procs[p].pc = "resolve" THEN "get" ELSE "save",
                            ![p].cont = "rotate"]

\* Refresh: the locked user is no longer admitted, or IssuePair draws a pair
\* for the session.
Resolve(p) ==
  /\ procs[p].pc = "resolve"
  /\ \/ Finish(p) /\ UNCHANGED drawn
     \/ Draw(p, procs[p].req.token.id)
  /\ UNCHANGED <<storeVars, faults, uses, tokens>>
  /\ SessionUnchanged

\* Login: the locked user has changed since it was read, or Create draws a
\* session ID and a pair.
IssueLogin(p) ==
  /\ procs[p].pc = "issueLogin"
  /\ \/ Finish(p) /\ UNCHANGED drawn
     \/ \E id \in SessionIds \ stored.ids :
          /\ \A q \in {r \in Procs : procs[r].next # None} : procs[q].next.id # id
          /\ Draw(p, id)
  /\ UNCHANGED <<storeVars, faults, uses, tokens>>
  /\ SessionUnchanged

\* The transaction commits and the client receives its tokens, or the commit
\* fails after the session was stored.
Commit(p) ==
  LET next == procs[p].next
      token(isRefresh) == Token(next.id, next.pair, next.at, isRefresh)
  IN  /\ procs[p].pc = "commit"
      /\ \/ /\ Finish(p)
            /\ uses' = IF procs[p].req.kind = "refresh"
                       THEN [uses EXCEPT ![procs[p].req.token.pair] = @ + 1] ELSE uses
            /\ tokens' = tokens \cup {token(TRUE), token(FALSE)}
            /\ UNCHANGED <<drawn, faults>>
         \/ Spend /\ Failed(p)
      /\ UNCHANGED storeVars
      /\ SessionUnchanged

Start(p, req, pc) ==
  /\ procs[p].pc = "idle"
  /\ requests < MaxRequests
  /\ requests' = requests + 1
  /\ procs' = [procs EXCEPT ![p] = [Idle EXCEPT !.pc = pc, !.req = req, !.cont = "verify"]]
  /\ UNCHANGED <<now, isRedis, storeVars, riskVars, drawn, tokens, faults, uses, guesses>>

RequestCaptcha(p) ==
  \E o \in Origins, k \in Captchas :
    Start(p, [client |-> ResolveClientIP(o), captcha |-> k, kind |-> "captcha"], "allowCaptcha")

RequestLogin(p) ==
  \E o \in Origins, a \in Accounts, k \in Captchas, password \in {"right", "wrong"} :
    Start(p, [client |-> ResolveClientIP(o), captcha |-> k, isRight |-> TRUE, account |-> a,
              password |-> IF a \in Users THEN password ELSE "wrong", kind |-> "login"], "allowLogin")

\* verify begins with Parse: a token that does not pass ends the request.
RequestWithToken(p, kind) ==
  \E t \in {x \in tokens : Parse(x, kind = "refresh")} :
    Start(p, [token |-> t, kind |-> kind], "get")

RequestRevokeUsers(p) ==
  \E u \in Users : Start(p, [account |-> u, kind |-> "revokeUsers"], "revokeUsers")

\* Time passes; Redis drops the keys that have expired.
Tick ==
  /\ now < MaxNow
  /\ now' = now + 1
  /\ redis' = RedisExpire(redis, now + 1)
  /\ locator' = [id \in SessionIds |->
                    IF locator[id] # None /\ locator[id].exp <= now + 1 THEN None ELSE locator[id]]
  /\ hash' = [u \in Users |-> IF hash[u].exp <= now + 1 THEN NoSessionsOf ELSE hash[u]]
  /\ guesses' = NoGuesses
  /\ UNCHANGED <<isRedis, sessions, stored, fallback, degradedUntil, isProbing, procs, drawn,
                 tokens, requests, faults, uses>>

\* One user has logged in a moment ago and captchas are outstanding.
Init ==
  \E u \in Users, id \in SessionIds :
    LET content == [exp |-> RefreshTTL, pair |-> 1]
    IN  /\ now = 1
        /\ isRedis \in BOOLEAN
        /\ locator = [i \in SessionIds |->
                        IF isRedis /\ i = id THEN [exp |-> content.exp, user |-> u] ELSE None]
        /\ hash = [v \in Users |->
                     IF isRedis /\ v = u
                     THEN [exp |-> content.exp, fields |-> [i \in SessionIds |-> IF i = id THEN content ELSE None]]
                     ELSE NoSessionsOf]
        /\ sessions = [i \in SessionIds |->
                         IF ~isRedis /\ i = id THEN [exp |-> content.exp, user |-> u, pair |-> 1] ELSE None]
        /\ redis = IF isRedis THEN [EmptyRedis EXCEPT !.captchas = InitCaptchas,
                                       !.clients = [c \in Clients |-> 1 + CaptchaTTL]] ELSE EmptyRedis
        /\ fallback = IF isRedis THEN EmptyMemory ELSE [EmptyMemory EXCEPT !.captchas = InitCaptchas]
        /\ degradedUntil = 0 /\ isProbing = FALSE
        /\ procs = [p \in Procs |-> Idle]
        /\ drawn = 1
        /\ tokens = {Token(id, 1, 0, isRefresh) : isRefresh \in BOOLEAN}
        /\ requests = 0 /\ faults = 0 /\ guesses = NoGuesses
        /\ stored = [ids |-> {id}, pairs |-> {1}]
        /\ uses = [n \in Pairs |-> 0]

Serve(p) ==
  \/ RiskAttempt(p) \/ RiskSettle(p) \/ RiskLocal(p)
  \/ Candidate(p) \/ IssueLogin(p) \/ Resolve(p) \/ Commit(p)
  \/ ReadLocator(p) \/ ReadContent(p) \/ CleanUp(p)
  \/ Rotate(p) \/ Revoke(p) \/ Save(p) \/ RevokeUsers(p)
  \/ MemoryGet(p) \/ MemoryRotateRefresh(p) \/ MemoryRevoke(p)
  \/ MemorySave(p) \/ MemoryRevokeUsers(p)

Request(p) ==
  \/ RequestCaptcha(p) \/ RequestLogin(p) \/ RequestRevokeUsers(p)
  \/ \E kind \in {"refresh", "access", "logout"} : RequestWithToken(p, kind)

Next == Tick \/ \E p \in Procs : Request(p) \/ Serve(p)

Spec == Init /\ [][Next]_vars

-----------------------------------------------------------------------------
(* Properties.                                                             *)

\* The sessions as a reader of the store sees them.
Visible == [id \in SessionIds |->
  IF isRedis
  THEN IF UserOf(id) = None THEN None
       ELSE IF hash[UserOf(id)].fields[id] = None THEN None
       ELSE [user |-> UserOf(id), pair |-> hash[UserOf(id)].fields[id].pair]
  ELSE IF Kept[id] = None THEN None
       ELSE [user |-> Kept[id].user, pair |-> Kept[id].pair]]

Abstract == INSTANCE SessionStore WITH sessions <- Visible

\* Both stores implement the session store: although RedisStore spreads a
\* session over two keys and reads them one after the other, no interleaving,
\* lost reply or expiry rotates a pair twice, moves a session to another user
\* or brings a revoked session back (auth/redis.go, auth/store.go).
ImplementsSessionStore == Abstract!Spec

\* A refresh token that was judged twice without an infrastructure error,
\* because it was stolen or because two requests raced with it, has ended its
\* session (RefreshWith, verify and revokeReplay of auth/identity.go).
TheftDetected ==
  \A t \in tokens : uses[t.pair] >= 2 => Visible[t.id] = None

\* The probing flag is only set while a probe is under way, so that a Redis
\* that comes back is always tried again (execute of risk/risk.go).
ProbeIsLive ==
  isProbing => \E p \in Procs : procs[p].reply # None /\ procs[p].reply.isProbe

\* Until the clock moves, Redis fails or comes back, or a right password clears
\* the failures, at most FailureLimit wrong passwords of an account are
\* answered, and those already admitted on the other goroutines (AllowLogin,
\* RecordLoginFailure and ClearLoginFailure of risk/risk.go).
GuessesBounded == \A a \in Accounts : guesses[a] <= FailureLimit + Cardinality(Procs) - 1
=============================================================================
