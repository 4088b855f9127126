---------------------------- MODULE LoginProofs -----------------------------
(***************************************************************************)
(* Proofs about Login, for any number of goroutines, users, sessions,      *)
(* requests and failures, and with either pair of stores: what the         *)
(* sessions promise, that the probing flag is live, and how many wrong     *)
(* passwords are answered.                                                 *)
(***************************************************************************)
EXTENDS Login, FiniteSetTheorems, TLAPS

-----------------------------------------------------------------------------
(* Types.                                                                  *)

Content == [pair : Pairs, exp : Nat]
Located == [user : Users, exp : Nat]
Session == [user : Users, pair : Pairs, exp : Nat]
Drawn == [id : SessionIds, pair : Pairs, exp : Nat, at : Nat]
Issued == [id : SessionIds, pair : Pairs, at : Nat, isRefresh : BOOLEAN]

Addresses == {ResolveClientIP(o) : o \in Origins}

CaptchaRequests == [kind : {"captcha"}, client : Addresses, captcha : Captchas]

LoginRequests ==
  {r \in [kind : {"login"}, client : Addresses, account : Accounts, captcha : Captchas,
          isRight : {TRUE}, password : {"right", "wrong"}] :
     r.password = "right" => r.account \in Users}

TokenRequests == [kind : {"refresh", "access", "logout"}, token : Issued]

Revocations == [kind : {"revokeUsers"}, account : Users]

Results == {None, "allowed", "limited", "conflict", "matched", "notMatched"}

Attempt == [got : {"ok", "error", "cancelled", "local"}, res : Results, isProbe : BOOLEAN]

LoginSteps == RiskSteps \cup {"candidate", "issueLogin", "save"}

ReadingSteps == {"hget", "delLocator", "delSession", "rotate", "revoke"}

TokenSteps == ReadingSteps \cup {"get", "resolve"}

Work == CaptchaRequests \cup LoginRequests \cup TokenRequests \cup Revocations \cup {None}

Steps == LoginSteps \cup TokenSteps \cup {"idle", "commit", "revokeUsers"}

Known == [user : Users, content : Content \cup {None}]

Records == Known \cup {None}

Replies == Attempt \cup {None}

Goroutine ==
  [pc : Steps,
   req : Work,
   cont : {None, "verify", "rotate", "revoke"},
   rec : Records,
   reply : Replies,
   next : Drawn \cup {None}]

TypeOK ==
  /\ now \in Nat
  /\ isRedis \in BOOLEAN
  /\ isProbing \in BOOLEAN
  /\ locator \in [SessionIds -> Located \cup {None}]
  /\ hash \in [Users -> [exp : Nat, fields : [SessionIds -> Content \cup {None}]]]
  /\ sessions \in [SessionIds -> Session \cup {None}]
  /\ stored \in [ids : SUBSET SessionIds, pairs : SUBSET Pairs]
  /\ procs \in [Procs -> Goroutine]
  /\ drawn \in Pairs
  /\ tokens \in SUBSET Issued
  /\ uses \in [Pairs -> Nat]

-----------------------------------------------------------------------------
(* The inductive invariant.                                                *)

\* The session under an ID as the next reader finds it, and its user.
Held(id) ==
  IF isRedis THEN IF UserOf(id) = None THEN None ELSE hash[UserOf(id)].fields[id]
  ELSE Kept[id]

Owner(id) ==
  IF isRedis THEN UserOf(id) ELSE IF Kept[id] = None THEN None ELSE Kept[id].user

\* A request carries what its step needs: a login past its password names a
\* user, and a token was issued.
RequestFits(p) ==
  /\ procs[p].pc \in {"allowLogin", "consumeCaptcha", "candidate", "recordLoginFailure"} =>
       procs[p].req \in LoginRequests
  /\ procs[p].pc \in {"clearLoginFailure", "issueLogin", "save"} =>
       procs[p].req \in LoginRequests /\ procs[p].req.password = "right"
  /\ procs[p].pc \in TokenSteps =>
       procs[p].req \in TokenRequests /\ procs[p].req.token \in tokens
  /\ procs[p].pc = "revokeUsers" => procs[p].req \in Revocations
  /\ procs[p].pc = "commit" =>
       \/ procs[p].req \in LoginRequests
       \/ procs[p].req \in TokenRequests /\ procs[p].req.token \in tokens
  /\ procs[p].pc = "resolve" => procs[p].req.kind = "refresh"
  /\ procs[p].pc \in {"get", "hget"} => procs[p].cont \in {"verify", "rotate", "revoke"}

\* A refresh that goes on to rotate has drawn a pair for its own session.
Rotating(p) ==
  \/ procs[p].pc \in {"get", "hget"} /\ procs[p].cont = "rotate"
  \/ procs[p].pc = "rotate"
  \/ procs[p].pc = "commit" /\ procs[p].req \in TokenRequests

DrawnForItself(p) ==
  /\ Rotating(p) => /\ procs[p].req.kind = "refresh"
                    /\ procs[p].next # None
                    /\ procs[p].next.id = procs[p].req.token.id
  /\ procs[p].pc = "save" => procs[p].next # None /\ procs[p].next.id \notin stored.ids
  /\ procs[p].pc = "commit" => /\ procs[p].next # None
                               /\ procs[p].next.id \in stored.ids
                               /\ procs[p].next.pair \in stored.pairs

\* The drawn pair is new: nobody has a token of it, and it is stored last.
DrawnIsNew(p) ==
  procs[p].next # None =>
    /\ procs[p].next.pair <= drawn
    /\ \A t \in tokens : t.pair # procs[p].next.pair
    /\ procs[p].pc # "commit" => procs[p].next.pair \notin stored.pairs

\* What a goroutine has read of a session in Redis is still true as far as it
\* acts on it; a content that has expired is never rotated again.
ReadsHold(p) ==
  LET id == procs[p].req.token.id
      rec == procs[p].rec
  IN  /\ procs[p].pc \in ReadingSteps =>
           isRedis /\ rec \in Known /\ UserOf(id) \in {None, rec.user}
      /\ procs[p].pc = "rotate" =>
           /\ rec.content # None
           /\ rec.content.pair = procs[p].req.token.pair
           /\ Held(id) = rec.content => rec.content.exp > now
      /\ procs[p].pc = "delSession" =>
           \/ Held(id) = None
           \/ Held(id) = rec.content /\ rec.content.exp <= now
      /\ procs[p].pc = "delLocator" => Held(id) = None

\* Only a risk step has asked Redis, and a probe that failed is none any more.
RepliesFit(p) ==
  procs[p].reply # None =>
    /\ procs[p].pc \in RiskSteps
    /\ isRedis
    /\ procs[p].reply.got = "local" => ~procs[p].reply.isProbe

GoroutineOK(p) ==
  RequestFits(p) /\ DrawnForItself(p) /\ DrawnIsNew(p) /\ ReadsHold(p) /\ RepliesFit(p)

DrawnDiffer ==
  \A p, q \in Procs : p # q /\ procs[p].next # None /\ procs[q].next # None =>
    /\ procs[p].next.pair # procs[q].next.pair
    /\ procs[p].pc = "save" /\ procs[q].pc = "save" => procs[p].next.id # procs[q].next.id

TokensReal ==
  /\ \A t \in tokens : t.id \in stored.ids /\ t.pair \in stored.pairs
  /\ \A t, s \in tokens : t.pair = s.pair => t.id = s.id
  /\ \A n \in stored.pairs : n <= drawn

\* The two keys of a session expire together.
LocatorsTrue ==
  isRedis => \A id \in SessionIds : Held(id) # None => Held(id).exp = locator[id].exp

\* The refresh that has rotated the pair n away and not yet committed.
Committing(p, n) ==
  /\ procs[p].pc = "commit"
  /\ procs[p].req \in TokenRequests
  /\ procs[p].req.token.pair = n

\* While a session lives, its current pair is unused and every other pair has
\* been used by the one refresh that rotated it away.
PairsSpentOnce ==
  /\ \A n \in Pairs : uses[n] # 0 => \E t \in tokens : t.pair = n
  /\ \A t \in tokens : Held(t.id) # None =>
       /\ uses[t.pair] <= 1
       /\ \A p \in Procs : Committing(p, t.pair) =>
            uses[t.pair] = 0 /\ \A q \in Procs : Committing(q, t.pair) => q = p
       /\ Held(t.id).pair = t.pair =>
            uses[t.pair] = 0 /\ \A p \in Procs : ~Committing(p, t.pair)

SessionsOK ==
  /\ TypeOK
  /\ \A p \in Procs : GoroutineOK(p)
  /\ DrawnDiffer
  /\ TokensReal
  /\ LocatorsTrue
  /\ PairsSpentOnce

Inv == SessionsOK /\ ProbeIsLive

-----------------------------------------------------------------------------
(* What the parts of a step do to its goroutine.                           *)

\* Only the goroutine p has changed.
Only(p) ==
  /\ procs' \in [Procs -> Goroutine]
  /\ \A q \in Procs \ {p} : procs'[q] = procs[q]

LEMMA IdleFacts ==
  /\ Idle \in Goroutine
  /\ Idle.pc = "idle" /\ Idle.next = None /\ Idle.reply = None
  BY DEF Idle, Goroutine, Work, Steps, Records, Replies

LEMMA OnlyOne ==
  ASSUME TypeOK, NEW p \in Procs, NEW g \in Goroutine, procs' = [procs EXCEPT ![p] = g]
  PROVE  Only(p) /\ procs'[p] = g
  BY DEF TypeOK, Only

LEMMA FinishShape ==
  ASSUME TypeOK, NEW p \in Procs, Finish(p)
  PROVE  Only(p) /\ procs'[p] = Idle
  BY IdleFacts, OnlyOne DEF Finish

\* The goroutine goes on with the same request, attempt and drawn pair.
SameWork(p) ==
  /\ procs'[p].req = procs[p].req
  /\ procs'[p].reply = procs[p].reply
  /\ procs'[p].next = procs[p].next

LEMMA GotoShape ==
  ASSUME TypeOK, NEW p \in Procs, NEW pc \in Steps, Goto(p, pc)
  PROVE  Only(p) /\ procs'[p].pc = pc /\ SameWork(p)
<1>1. procs[p] \in Goroutine
  BY DEF TypeOK
<1> DEFINE g == [procs[p] EXCEPT !.pc = pc]
<1>2. /\ g \in Goroutine /\ g.pc = pc /\ g.req = procs[p].req
      /\ g.reply = procs[p].reply /\ g.next = procs[p].next
  BY <1>1 DEF Goroutine
<1>3. procs' = [procs EXCEPT ![p] = g]
  BY DEF Goto
<1> HIDE DEF g
<1> QED
  BY <1>2, <1>3, OnlyOne DEF SameWork

LEMMA StepShape ==
  ASSUME TypeOK, NEW p \in Procs, NEW pc \in Steps, NEW rec \in Records, Step(p, pc, rec)
  PROVE  /\ Only(p) /\ procs'[p].pc = pc /\ procs'[p].rec = rec
         /\ procs'[p].cont = procs[p].cont /\ SameWork(p)
         /\ UNCHANGED <<uses, tokens, drawn>>
<1>1. procs[p] \in Goroutine
  BY DEF TypeOK
<1> DEFINE g == [procs[p] EXCEPT !.pc = pc, !.rec = rec]
<1>2. /\ g \in Goroutine /\ g.pc = pc /\ g.rec = rec /\ g.req = procs[p].req
      /\ g.cont = procs[p].cont /\ g.reply = procs[p].reply /\ g.next = procs[p].next
  BY <1>1 DEF Goroutine
<1>3. procs' = [procs EXCEPT ![p] = g]
  BY DEF Step, TypeOK
<1> HIDE DEF g
<1> QED
  BY <1>2, <1>3, OnlyOne DEF SameWork, Step

LEMMA ReadShape ==
  ASSUME TypeOK, NEW p \in Procs, NEW cont \in {"verify", "rotate", "revoke"}, Read(p, cont)
  PROVE  /\ Only(p) /\ procs'[p].pc = "get" /\ procs'[p].cont = cont /\ SameWork(p)
         /\ UNCHANGED <<uses, tokens, drawn>>
<1>1. procs[p] \in Goroutine
  BY DEF TypeOK
<1> DEFINE g == [procs[p] EXCEPT !.pc = "get", !.cont = cont, !.rec = None]
<1>2. /\ g \in Goroutine /\ g.pc = "get" /\ g.cont = cont /\ g.req = procs[p].req
      /\ g.reply = procs[p].reply /\ g.next = procs[p].next
  BY <1>1 DEF Goroutine, Steps, TokenSteps, Records
<1>3. procs' = [procs EXCEPT ![p] = g]
  BY DEF Read, TypeOK
<1> HIDE DEF g
<1> QED
  BY <1>2, <1>3, OnlyOne DEF SameWork, Read

\* Go to the next risk step, another step of the login, or end.
LEMMA AfterFacts ==
  ASSUME NEW g \in Goroutine, NEW res
  PROVE  /\ After(g, res) \in Goroutine
         /\ After(g, res).reply = None
         /\ \/ After(g, res) = Idle
            \/ /\ After(g, res).req = g.req /\ After(g, res).next = g.next
               /\ \/ g.pc = "allowCaptcha" /\ After(g, res).pc = "saveCaptcha"
                  \/ g.pc = "allowLogin" /\ After(g, res).pc = "consumeCaptcha"
                  \/ g.pc = "consumeCaptcha" /\ After(g, res).pc = "candidate"
                  \/ g.pc = "clearLoginFailure" /\ After(g, res).pc = "issueLogin"
<1> DEFINE pc == AfterRisk(g.pc, res)
           h == [g EXCEPT !.pc = pc, !.reply = None]
<1>1. \/ pc = "idle"
      \/ g.pc = "allowCaptcha" /\ pc = "saveCaptcha"
      \/ g.pc = "allowLogin" /\ pc = "consumeCaptcha"
      \/ g.pc = "consumeCaptcha" /\ pc = "candidate"
      \/ g.pc = "clearLoginFailure" /\ pc = "issueLogin"
  BY DEF AfterRisk
<1>2. After(g, res) = IF pc = "idle" THEN Idle ELSE h
  BY DEF After
<1>3. pc # "idle" => h \in Goroutine
  BY <1>1 DEF Goroutine, Steps, LoginSteps, RiskSteps, Replies
<1>4. h.pc = pc /\ h.reply = None /\ h.req = g.req /\ h.next = g.next
  BY DEF Goroutine
<1> HIDE DEF pc, h
<1> QED
  BY <1>1, <1>2, <1>3, <1>4, IdleFacts

-----------------------------------------------------------------------------
(* What a step does to the sessions: some end, or one receives a pair.     *)

StoreTypes ==
  /\ locator \in [SessionIds -> Located \cup {None}]
  /\ hash \in [Users -> [exp : Nat, fields : [SessionIds -> Content \cup {None}]]]
  /\ sessions \in [SessionIds -> Session \cup {None}]
  /\ stored \in [ids : SUBSET SessionIds, pairs : SUBSET Pairs]

Shrinks ==
  /\ UNCHANGED <<isRedis, stored>>
  /\ StoreTypes'
  /\ \A id \in SessionIds :
       /\ locator'[id] \in {None, locator[id]}
       /\ Held(id)' \in {None, Held(id)}
       /\ Owner(id)' \in {None, Owner(id)}
       /\ Held(id)' # None => Owner(id)' = Owner(id)

Puts(id, user, next) ==
  /\ UNCHANGED <<now, isRedis>>
  /\ StoreTypes'
  /\ stored' = [ids |-> stored.ids \cup {id}, pairs |-> stored.pairs \cup {next.pair}]
  /\ Held(id)' # None /\ Held(id)'.pair = next.pair
  /\ isRedis => locator'[id] # None /\ locator'[id].exp = Held(id)'.exp
  /\ Owner(id)' = user
  /\ \A j \in SessionIds \ {id} :
       locator'[j] = locator[j] /\ Held(j)' = Held(j) /\ Owner(j)' = Owner(j)

LEMMA HeldFacts ==
  ASSUME TypeOK, NEW id \in SessionIds
  PROVE  /\ UserOf(id) \in Users \cup {None}
         /\ Owner(id) \in Users \cup {None}
         /\ Held(id) # None => /\ Owner(id) # None
                               /\ Held(id).pair \in Pairs /\ Held(id).exp \in Nat
         /\ ~isRedis => (Held(id) = None <=> Owner(id) = None)
         /\ isRedis => Held(id) \in Content \cup {None} /\ Owner(id) = UserOf(id)
<1>1. UserOf(id) \in Users \cup {None}
  BY DEF TypeOK, UserOf, Located
<1>2. CASE isRedis
  BY <1>1, <1>2 DEF Held, Owner, TypeOK, Content
<1>3. CASE ~isRedis
  <2>1. Kept[id] \in Session \cup {None}
    BY DEF Kept, TypeOK
  <2> QED
    BY <1>1, <1>3, <2>1, LoginAssumption DEF Held, Owner, LoginAssumption, Session
<1> QED
  BY <1>2, <1>3 DEF TypeOK

\* In Redis: keys and fields go, and nothing else is written.
LEMMA RedisShrinks ==
  ASSUME TypeOK, isRedis, UNCHANGED <<isRedis, stored>>, StoreTypes',
         \A id \in SessionIds : locator'[id] \in {None, locator[id]},
         \A id \in SessionIds, u \in Users : hash'[u].fields[id] \in {None, hash[u].fields[id]}
  PROVE  Shrinks
<1> SUFFICES ASSUME NEW id \in SessionIds
             PROVE  /\ Held(id)' \in {None, Held(id)}
                    /\ Owner(id)' \in {None, Owner(id)}
                    /\ Held(id)' # None => Owner(id)' = Owner(id)
  BY DEF Shrinks
<1>1. UserOf(id)' \in {None, UserOf(id)} /\ UserOf(id) \in Users \cup {None}
  BY HeldFacts DEF UserOf
<1>2. isRedis'
  OBVIOUS
<1> QED
  BY <1>1, <1>2 DEF Held, Owner

\* In memory: entries go, or have expired.
LEMMA MemoryShrinks ==
  ASSUME TypeOK, ~isRedis, UNCHANGED <<isRedis, stored>>, StoreTypes',
         now' \in Nat, now' >= now,
         \A id \in SessionIds : locator'[id] \in {None, locator[id]},
         \A id \in SessionIds : sessions'[id] \in {None, sessions[id], Kept[id]}
  PROVE  Shrinks
<1> SUFFICES ASSUME NEW id \in SessionIds
             PROVE  /\ Held(id)' \in {None, Held(id)}
                    /\ Owner(id)' \in {None, Owner(id)}
                    /\ Held(id)' # None => Owner(id)' = Owner(id)
  BY DEF Shrinks
<1>1. sessions[id] \in Session \cup {None} /\ now \in Nat
  BY DEF TypeOK
<1>2. Kept[id] = IF sessions[id] # None /\ sessions[id].exp <= now THEN None ELSE sessions[id]
  BY DEF Kept
<1>3. Kept'[id] = IF sessions'[id] # None /\ sessions'[id].exp <= now' THEN None ELSE sessions'[id]
  BY DEF Kept
<1>4. Kept'[id] \in {None, Kept[id]}
  BY <1>1, <1>2, <1>3 DEF Session
<1> QED
  BY <1>4 DEF Held, Owner

LEMMA Untouched ==
  ASSUME TypeOK, UNCHANGED <<now, isRedis, locator, hash, sessions, stored>>
  PROVE  Shrinks
<1>1. StoreTypes'
  BY DEF TypeOK, StoreTypes
<1>2. \A id \in SessionIds : Held(id)' = Held(id) /\ Owner(id)' = Owner(id)
  BY DEF Held, Owner, UserOf, Kept
<1> QED
  BY <1>1, <1>2 DEF Shrinks

-----------------------------------------------------------------------------
(* The scripts of the Redis store.                                         *)

LEMMA LaterOf ==
  ASSUME NEW a \in Nat, NEW b \in Nat
  PROVE  Max({a, b}) \in Nat
<1>1. \E m \in {a, b} : \A n \in {a, b} : m >= n
  OBVIOUS
<1> QED
  BY <1>1 DEF Max

\* The key of another user may lose a field the locator no longer leads to.
LEMMA DropFacts ==
  ASSUME TypeOK, isRedis, UNCHANGED <<now, isRedis, sessions>>,
         NEW id \in SessionIds, NEW user \in Users, Left(Drop(id, user))
  PROVE  Shrinks /\ Held(id)' = None
<1>1. /\ locator' = [locator EXCEPT ![id] = None]
      /\ hash' = [hash EXCEPT ![user].fields[id] = None]
      /\ stored' = stored
  BY DEF Left, Drop, Store
<1>2. StoreTypes'
  BY <1>1 DEF TypeOK, StoreTypes
<1>3. /\ \A j \in SessionIds : locator'[j] \in {None, locator[j]}
      /\ \A j \in SessionIds, u \in Users : hash'[u].fields[j] \in {None, hash[u].fields[j]}
  BY <1>1 DEF TypeOK
<1>4. Shrinks
  BY <1>1, <1>2, <1>3, RedisShrinks
<1>5. UserOf(id)' = None
  BY <1>1 DEF UserOf, TypeOK
<1> QED
  BY <1>4, <1>5 DEF Held

LEMMA FieldGone ==
  ASSUME TypeOK, isRedis, UNCHANGED <<now, isRedis, sessions>>,
         NEW id \in SessionIds, NEW user \in Users,
         Left(Store(locator, [hash EXCEPT ![user].fields[id] = None], stored))
  PROVE  Shrinks
<1>1. /\ locator' = locator
      /\ hash' = [hash EXCEPT ![user].fields[id] = None]
      /\ stored' = stored
  BY DEF Left, Store
<1>2. StoreTypes'
  BY <1>1 DEF TypeOK, StoreTypes
<1>3. /\ \A j \in SessionIds : locator'[j] \in {None, locator[j]}
      /\ \A j \in SessionIds, u \in Users : hash'[u].fields[j] \in {None, hash[u].fields[j]}
  BY <1>1 DEF TypeOK
<1> QED
  BY <1>1, <1>2, <1>3, RedisShrinks

LEMMA LocatorGone ==
  ASSUME TypeOK, isRedis, UNCHANGED <<now, isRedis, sessions>>,
         NEW id \in SessionIds, Left(Store([locator EXCEPT ![id] = None], hash, stored))
  PROVE  Shrinks
<1>1. locator' = [locator EXCEPT ![id] = None] /\ hash' = hash /\ stored' = stored
  BY DEF Left, Store
<1>2. StoreTypes'
  BY <1>1 DEF TypeOK, StoreTypes
<1>3. \A j \in SessionIds : locator'[j] \in {None, locator[j]}
  BY <1>1 DEF TypeOK
<1> QED
  BY <1>1, <1>2, <1>3, RedisShrinks

LEMMA UserGone ==
  ASSUME TypeOK, isRedis, UNCHANGED <<now, isRedis, sessions>>,
         NEW user \in Users, Left(unlinkUser(user).store)
  PROVE  Shrinks
<1>1. /\ locator' = locator /\ stored' = stored
      /\ hash' = [hash EXCEPT ![user] = NoSessionsOf]
  BY DEF Left, Store, unlinkUser, Reply
<1>2. NoSessionsOf \in [exp : Nat, fields : [SessionIds -> Content \cup {None}]]
      /\ \A id \in SessionIds : NoSessionsOf.fields[id] = None
  BY DEF NoSessionsOf
<1>3. StoreTypes'
  BY <1>1, <1>2 DEF TypeOK, StoreTypes
<1>4. \A j \in SessionIds, u \in Users : hash'[u].fields[j] \in {None, hash[u].fields[j]}
  BY <1>1, <1>2 DEF TypeOK
<1> QED
  BY <1>1, <1>3, <1>4, RedisShrinks

\* Put where the ID has no locator or leads to the same user.
LEMMA PutFacts ==
  ASSUME TypeOK, isRedis, UNCHANGED <<now, isRedis, sessions>>,
         NEW id \in SessionIds, NEW user \in Users, NEW next \in Drawn,
         Left(Put(id, user, [exp |-> next.exp, pair |-> next.pair]))
  PROVE  Puts(id, user, next)
<1> DEFINE content == [exp |-> next.exp, pair |-> next.pair]
           h == [exp |-> Max({hash[user].exp, content.exp}),
                 fields |-> [hash[user].fields EXCEPT ![id] = content]]
<1>1. content \in Content /\ content.pair = next.pair /\ content # None
  BY LoginAssumption DEF Content, Drawn, LoginAssumption
<1>2. /\ locator' = [locator EXCEPT ![id] = [exp |-> content.exp, user |-> user]]
      /\ hash' = [hash EXCEPT ![user] = h]
      /\ stored' = [ids |-> stored.ids \cup {id}, pairs |-> stored.pairs \cup {content.pair}]
  BY DEF Left, Put, Store, TypeOK
<1>3. h \in [exp : Nat, fields : [SessionIds -> Content \cup {None}]]
  <2>1. hash[user] \in [exp : Nat, fields : [SessionIds -> Content \cup {None}]]
    BY DEF TypeOK
  <2>2. Max({hash[user].exp, content.exp}) \in Nat
    BY <1>1, <2>1, LaterOf DEF Content
  <2>3. [hash[user].fields EXCEPT ![id] = content] \in [SessionIds -> Content \cup {None}]
    BY <1>1, <2>1
  <2> QED
    BY <2>2, <2>3
<1>4. h.fields[id] = content /\ \A j \in SessionIds \ {id} : h.fields[j] = hash[user].fields[j]
  BY DEF TypeOK
<1>5. [exp |-> content.exp, user |-> user] \in Located
  BY <1>1 DEF Located, Content
<1> DEFINE l == [exp |-> content.exp, user |-> user]
<1>6. l \in Located /\ l.user = user /\ l.exp = content.exp /\ l # None
  BY <1>5, LoginAssumption DEF Located, LoginAssumption
<1>7. locator' = [locator EXCEPT ![id] = l]
  BY <1>2
<1> HIDE DEF h, content, l
<1>8. StoreTypes'
  BY <1>1, <1>2, <1>3, <1>6, <1>7 DEF TypeOK, StoreTypes, Content
<1>9. UserOf(id)' = user /\ locator'[id] = l
  BY <1>6, <1>7 DEF UserOf, TypeOK
<1>10. Held(id)' = content
  <2>1. user # None
    BY LoginAssumption DEF LoginAssumption
  <2> QED
    BY <1>2, <1>4, <1>9, <2>1 DEF Held, TypeOK
<1>11. ASSUME NEW j \in SessionIds \ {id}
       PROVE  locator'[j] = locator[j] /\ Held(j)' = Held(j) /\ Owner(j)' = Owner(j)
  <2>1. locator'[j] = locator[j] /\ UserOf(j)' = UserOf(j)
    BY <1>7 DEF UserOf, TypeOK
  <2>2. UserOf(j) # None => hash'[UserOf(j)].fields[j] = hash[UserOf(j)].fields[j]
    <3>1. UserOf(j) \in Users \cup {None}
      BY HeldFacts
    <3> QED
      BY <1>2, <1>4, <3>1 DEF TypeOK
  <2> QED
    BY <2>1, <2>2 DEF Held, Owner
<1> QED
  BY <1>1, <1>2, <1>6, <1>8, <1>9, <1>10, <1>11 DEF Puts, Owner

-----------------------------------------------------------------------------
(* What a step of a goroutine does to the sessions, the tokens and the     *)
(* other goroutines.                                                       *)

Saves(p) ==
  \E id \in SessionIds, user \in Users, next \in Drawn :
    /\ procs[p].pc = "save" /\ procs[p].next = next /\ next.id = id
    /\ procs[p].req.account = user
    /\ Puts(id, user, next)

Rotates(p) ==
  \E id \in SessionIds, user \in Users, next \in Drawn :
    /\ Rotating(p) /\ procs[p].pc \in {"get", "rotate"}
    /\ procs[p].next = next /\ procs[p].req.token.id = id
    /\ Held(id) # None /\ Owner(id) = user /\ Held(id).pair = procs[p].req.token.pair
    /\ isRedis => Held(id).exp > now
    /\ Puts(id, user, next)

Effect(p) == UNCHANGED now /\ (Shrinks \/ Saves(p) \/ Rotates(p))

\* Tokens are only ever added, and only of the pair the goroutine has drawn.
Issues(p) ==
  /\ tokens \subseteq tokens'
  /\ \A t \in tokens' \ tokens :
       /\ procs[p].next # None /\ procs[p].pc = "commit"
       /\ t.id = procs[p].next.id /\ t.pair = procs[p].next.pair

LEMMA GoroutineFacts ==
  ASSUME TypeOK, NEW p \in Procs
  PROVE  /\ procs[p] \in Goroutine
         /\ procs[p].next # None => procs[p].next \in Drawn
         /\ procs[p].reply # None => procs[p].reply \in Attempt
         /\ procs[p].req \in LoginRequests => procs[p].req \notin TokenRequests
         /\ procs[p].req \in LoginRequests => procs[p].req.kind = "login"
  BY DEF TypeOK, Goroutine, Records, Replies, LoginRequests, TokenRequests

\* What is stored has grown by the drawn ID and pair at most, and what an
\* earlier session holds has gone or been replaced by a new pair.
LEMMA EffectFacts ==
  ASSUME TypeOK, \A q \in Procs : GoroutineOK(q), TokensReal, NEW p \in Procs, Effect(p)
  PROVE  /\ isRedis' = isRedis
         /\ stored.ids \subseteq stored'.ids /\ stored.pairs \subseteq stored'.pairs
         /\ \A id \in stored'.ids \ stored.ids :
              procs[p].pc = "save" /\ id = procs[p].next.id
         /\ \A n \in stored'.pairs \ stored.pairs :
              procs[p].next # None /\ n = procs[p].next.pair
         /\ \A id \in stored.ids :
              /\ Held(id) = None => Held(id)' = None
              /\ isRedis => UserOf(id)' \in {None, UserOf(id)}
              /\ isRedis /\ Held(id) # None =>
                   \/ Held(id)' \in {None, Held(id)}
                   \/ Held(id)'.pair \notin stored.pairs /\ Held(id).exp > now
<1>s. stored \in [ids : SUBSET SessionIds, pairs : SUBSET Pairs]
  BY DEF TypeOK
<1>o. /\ isRedis => \A id \in SessionIds : Owner(id) = UserOf(id)
      /\ isRedis /\ isRedis' = isRedis => \A id \in SessionIds : Owner(id)' = UserOf(id)'
  BY DEF Owner
<1>g. RequestFits(p) /\ DrawnForItself(p) /\ DrawnIsNew(p)
  BY DEF GoroutineOK
<1>1. CASE Shrinks
  BY <1>1, <1>s, <1>o DEF Shrinks
<1>2. CASE Saves(p)
  <2>1. PICK id \in SessionIds, user \in Users, next \in Drawn :
          /\ procs[p].pc = "save" /\ procs[p].next = next /\ next.id = id
          /\ Puts(id, user, next)
    BY <1>2 DEF Saves
  <2>2. id \notin stored.ids /\ procs[p].next # None
    BY <2>1, <1>g DEF DrawnForItself
  <2>3. \A j \in stored.ids : Held(j)' = Held(j) /\ Owner(j)' = Owner(j) /\ j \in SessionIds
    BY <1>s, <2>1, <2>2 DEF Puts
  <2>4. /\ stored'.ids = stored.ids \cup {id}
        /\ stored'.pairs = stored.pairs \cup {next.pair}
        /\ isRedis' = isRedis
    BY <2>1 DEF Puts
  <2> QED
    BY <1>o, <2>1, <2>2, <2>3, <2>4
<1>3. CASE Rotates(p)
  <2>1. PICK id \in SessionIds, user \in Users, next \in Drawn :
          /\ Rotating(p) /\ procs[p].pc \in {"get", "rotate"}
          /\ procs[p].next = next /\ procs[p].req.token.id = id
          /\ Held(id) # None /\ Owner(id) = user
          /\ isRedis => Held(id).exp > now
          /\ Puts(id, user, next)
    BY <1>3 DEF Rotates
  <2>2. /\ procs[p].next # None /\ procs[p].req.token \in tokens
        /\ next.pair \notin stored.pairs
    BY <2>1, <1>g
    DEF Rotating, RequestFits, DrawnForItself, DrawnIsNew, TokenSteps, ReadingSteps
  <2>3. id \in stored.ids
    BY <2>1, <2>2 DEF TokensReal
  <2>4. /\ stored'.ids = stored.ids \cup {id}
        /\ stored'.pairs = stored.pairs \cup {next.pair}
        /\ isRedis' = isRedis
        /\ Owner(id)' = Owner(id) /\ Held(id)'.pair = next.pair
        /\ \A j \in SessionIds \ {id} : Held(j)' = Held(j) /\ Owner(j)' = Owner(j)
    BY <2>1 DEF Puts
  <2>5. \A j \in stored.ids : j \in SessionIds
    BY <1>s
  <2> QED
    BY <1>o, <2>1, <2>2, <2>3, <2>4, <2>5
<1> QED
  BY <1>1, <1>2, <1>3 DEF Effect

LEMMA Bystander ==
  ASSUME TypeOK, \A r \in Procs : GoroutineOK(r), DrawnDiffer, TokensReal,
         NEW p \in Procs, NEW q \in Procs, q # p, procs'[q] = procs[q],
         Effect(p), Issues(p), drawn' >= drawn, drawn' \in Pairs
  PROVE  GoroutineOK(q)'
<1>q. /\ RequestFits(q) /\ DrawnForItself(q) /\ DrawnIsNew(q) /\ ReadsHold(q) /\ RepliesFit(q)
      /\ DrawnForItself(p)
  BY DEF GoroutineOK
<1>t. isRedis' = isRedis /\ now' = now /\ tokens \subseteq tokens'
  BY EffectFacts DEF Effect, Issues
<1>1. RequestFits(q)'
  BY <1>q, <1>t DEF RequestFits
<1>2. DrawnForItself(q)'
  <2>1. procs[q].pc = "save" => procs[q].next.id \notin stored'.ids
    <3>1. procs[q].pc = "save" /\ procs[p].pc = "save" => procs[q].next.id # procs[p].next.id
      BY <1>q DEF DrawnDiffer, DrawnForItself
    <3> QED
      BY <1>q, <3>1, EffectFacts DEF DrawnForItself
  <2>2. stored.ids \subseteq stored'.ids /\ stored.pairs \subseteq stored'.pairs
    BY EffectFacts
  <2> QED
    BY <1>q, <2>1, <2>2 DEF DrawnForItself, Rotating
<1>3. DrawnIsNew(q)'
  <2>1. procs[p].next # None /\ procs[q].next # None => procs[p].next.pair # procs[q].next.pair
    BY DEF DrawnDiffer
  <2>2. procs[q].next # None => procs[q].next.pair \in Pairs
    BY GoroutineFacts DEF Drawn
  <2>3. drawn \in Pairs
    BY DEF TypeOK
  <2>4. \A n \in stored'.pairs \ stored.pairs : procs[p].next # None /\ n = procs[p].next.pair
    BY EffectFacts
  <2> QED
    BY <1>q, <1>t, <2>1, <2>2, <2>3, <2>4, LoginAssumption
    DEF DrawnIsNew, Issues, Pairs, LoginAssumption
<1>4. ReadsHold(q)'
  <2> DEFINE id == procs[q].req.token.id
             rec == procs[q].rec
  <2>1. CASE procs[q].pc \notin ReadingSteps
    BY <2>1 DEF ReadsHold, ReadingSteps
  <2>2. CASE procs[q].pc \in ReadingSteps
    <3>1. procs[q].req.token \in tokens
      BY <1>q, <2>2 DEF RequestFits, TokenSteps
    <3>2. id \in stored.ids /\ procs[q].req.token.pair \in stored.pairs
      BY <3>1 DEF TokensReal
    <3>3. /\ isRedis /\ rec \in Known /\ UserOf(id) \in {None, rec.user}
          /\ procs[q].pc = "rotate" =>
               /\ rec.content # None
               /\ rec.content.pair = procs[q].req.token.pair
               /\ Held(id) = rec.content => rec.content.exp > now
          /\ procs[q].pc = "delSession" =>
               \/ Held(id) = None
               \/ Held(id) = rec.content /\ rec.content.exp <= now
          /\ procs[q].pc = "delLocator" => Held(id) = None
      BY <1>q, <2>2 DEF ReadsHold
    <3>4. /\ Held(id) = None => Held(id)' = None
          /\ UserOf(id)' \in {None, UserOf(id)}
          /\ Held(id) # None =>
               \/ Held(id)' \in {None, Held(id)}
               \/ Held(id)'.pair \notin stored.pairs /\ Held(id).exp > now
      BY <3>2, <3>3, EffectFacts
    <3>5. rec.content \in Content \cup {None} /\ now \in Nat
      BY <3>3 DEF TypeOK, Known
    <3>6. procs[q].pc = "delSession" =>
               \/ Held(id)' = None
               \/ Held(id)' = rec.content /\ rec.content.exp <= now
      <4>1. rec.content # None => rec.content.exp \in Nat
        BY <3>5 DEF Content
      <4> QED
        BY <3>3, <3>4, <3>5, <4>1
    <3>7. procs[q].pc = "rotate" /\ Held(id)' = rec.content => rec.content.exp > now
      BY <3>2, <3>3, <3>4
    <3> SUFFICES /\ isRedis' /\ rec \in Known /\ UserOf(id)' \in {None, rec.user}
                 /\ procs[q].pc = "rotate" =>
                      /\ rec.content # None
                      /\ rec.content.pair = procs[q].req.token.pair
                      /\ Held(id)' = rec.content => rec.content.exp > now
                 /\ procs[q].pc = "delSession" =>
                      \/ Held(id)' = None
                      \/ Held(id)' = rec.content /\ rec.content.exp <= now
                 /\ procs[q].pc = "delLocator" => Held(id)' = None
      BY <1>t DEF ReadsHold
    <3> QED
      BY <1>t, <3>3, <3>4, <3>6, <3>7
  <2> QED
    BY <2>1, <2>2
<1>5. RepliesFit(q)'
  BY <1>q, <1>t DEF RepliesFit
<1> QED
  BY <1>1, <1>2, <1>3, <1>4, <1>5 DEF GoroutineOK

\* The drawn pair is kept, dropped or drawn anew.
Draws(p) ==
  /\ drawn' \in Pairs /\ drawn' >= drawn
  /\ \/ procs'[p].next = None
     \/ /\ procs'[p].next = procs[p].next
        /\ procs'[p].pc = "save" => procs[p].pc = "save"
     \/ /\ procs'[p].next # None
        /\ procs'[p].next.pair = drawn' /\ drawn' = drawn + 1
        /\ procs'[p].pc = "save" =>
             \A q \in Procs : procs[q].next # None => procs[q].next.id # procs'[p].next.id

\* A refresh token is judged when its session is gone, or by the commit of the
\* refresh that has rotated its pair away.
Spends(p) ==
  \/ /\ UNCHANGED <<uses, tokens>>
     /\ procs'[p].pc = "commit" /\ procs'[p].req \in TokenRequests =>
          Rotates(p) /\ procs'[p].req = procs[p].req
  \/ /\ UNCHANGED tokens
     /\ procs'[p].pc # "commit"
     /\ Shrinks
     /\ \E t \in tokens : Held(t.id)' = None /\ uses' = [uses EXCEPT ![t.pair] = uses[t.pair] + 1]
  \/ /\ procs[p].pc = "commit" /\ procs'[p].pc # "commit"
     /\ Shrinks
     /\ IF procs[p].req \in TokenRequests
        THEN uses' = [uses EXCEPT ![procs[p].req.token.pair] = uses[procs[p].req.token.pair] + 1]
        ELSE UNCHANGED uses

LEMMA DrawnDifferKept ==
  ASSUME TypeOK, \A q \in Procs : GoroutineOK(q), DrawnDiffer,
         NEW p \in Procs, Only(p), Draws(p)
  PROVE  DrawnDiffer'
<1>1. \A q \in Procs : procs[q].next # None => procs[q].next.pair <= drawn /\ procs[q].next.pair \in Nat
  BY GoroutineFacts, LoginAssumption DEF GoroutineOK, DrawnIsNew, Drawn, Pairs, LoginAssumption
<1>2. drawn \in Nat
  BY LoginAssumption DEF TypeOK, Pairs, LoginAssumption
<1>3. ASSUME NEW q \in Procs \ {p}, procs'[p].next # None, procs'[q].next # None
      PROVE  /\ procs'[p].next.pair # procs'[q].next.pair
             /\ procs'[p].pc = "save" /\ procs'[q].pc = "save" =>
                  procs'[p].next.id # procs'[q].next.id
  <2>1. procs'[q] = procs[q]
    BY DEF Only
  <2>2. CASE procs'[p].next = procs[p].next /\ (procs'[p].pc = "save" => procs[p].pc = "save")
    BY <1>3, <2>1, <2>2 DEF DrawnDiffer
  <2>3. CASE /\ procs'[p].next.pair = drawn' /\ drawn' = drawn + 1
             /\ procs'[p].pc = "save" =>
                  \A r \in Procs : procs[r].next # None => procs[r].next.id # procs'[p].next.id
    BY <1>1, <1>2, <1>3, <2>1, <2>3
  <2> QED
    BY <1>3, <2>2, <2>3 DEF Draws
<1>4. \A q, r \in Procs \ {p} : procs'[q] = procs[q] /\ procs'[r] = procs[r]
  BY DEF Only
<1>5. ASSUME NEW q \in Procs \ {p}, NEW r \in Procs \ {p}, q # r,
             procs'[q].next # None, procs'[r].next # None
      PROVE  /\ procs'[q].next.pair # procs'[r].next.pair
             /\ procs'[q].pc = "save" /\ procs'[r].pc = "save" =>
                  procs'[q].next.id # procs'[r].next.id
  BY <1>4, <1>5 DEF DrawnDiffer
<1> QED
  BY <1>3, <1>5 DEF DrawnDiffer

LEMMA TokensRealKept ==
  ASSUME TypeOK, \A q \in Procs : GoroutineOK(q), TokensReal,
         NEW p \in Procs, Effect(p), Issues(p), drawn' \in Pairs, drawn' >= drawn
  PROVE  TokensReal'
<1>1. DrawnForItself(p) /\ DrawnIsNew(p)
  BY DEF GoroutineOK
<1>2. stored.ids \subseteq stored'.ids /\ stored.pairs \subseteq stored'.pairs
  BY EffectFacts
<1>3. \A t \in tokens' : t.id \in stored'.ids /\ t.pair \in stored'.pairs
  BY <1>1, <1>2 DEF TokensReal, Issues, DrawnForItself
<1>4. \A t, s \in tokens' : t.pair = s.pair => t.id = s.id
  BY <1>1 DEF TokensReal, Issues, DrawnIsNew
<1>5. ASSUME NEW n \in stored'.pairs PROVE n <= drawn'
  <2>1. drawn \in Nat /\ drawn' \in Nat
    BY LoginAssumption DEF TypeOK, Pairs, LoginAssumption
  <2>2. n \in stored.pairs => n \in Nat
    BY LoginAssumption DEF TypeOK, Pairs, LoginAssumption
  <2>3. procs[p].next # None => procs[p].next.pair \in Nat
    BY GoroutineFacts, LoginAssumption DEF Drawn, Pairs, LoginAssumption
  <2>4. n \in stored.pairs \/ (procs[p].next # None /\ n = procs[p].next.pair)
    BY EffectFacts
  <2> QED
    BY <1>1, <2>1, <2>2, <2>3, <2>4 DEF TokensReal, DrawnIsNew
<1> QED
  BY <1>3, <1>4, <1>5 DEF TokensReal

LEMMA PutKeepsLocators ==
  ASSUME TypeOK, LocatorsTrue, NEW id \in SessionIds, NEW user \in Users, NEW next \in Drawn,
         Puts(id, user, next)
  PROVE  LocatorsTrue'
<1> SUFFICES ASSUME isRedis', NEW j \in SessionIds, Held(j)' # None
             PROVE  Held(j)'.exp = locator'[j].exp
  BY DEF LocatorsTrue
<1>1. CASE j = id
  BY <1>1 DEF Puts
<1>2. CASE j # id
  BY <1>2 DEF Puts, LocatorsTrue
<1> QED
  BY <1>1, <1>2

LEMMA ShrinkKeepsLocators ==
  ASSUME TypeOK, LocatorsTrue, Shrinks
  PROVE  LocatorsTrue'
<1> SUFFICES ASSUME isRedis', NEW j \in SessionIds, Held(j)' # None
             PROVE  Held(j)'.exp = locator'[j].exp
  BY DEF LocatorsTrue
<1>1. Held(j)' = Held(j) /\ isRedis
  BY DEF Shrinks
<1>2. UserOf(j)' # None
  BY DEF Held
<1>3. locator'[j] # None
  BY <1>2 DEF UserOf
<1> QED
  BY <1>1, <1>3 DEF Shrinks, LocatorsTrue

LEMMA LocatorsTrueKept ==
  ASSUME TypeOK, LocatorsTrue, NEW p \in Procs, Effect(p)
  PROVE  LocatorsTrue'
<1>1. CASE Shrinks
  BY <1>1, ShrinkKeepsLocators
<1>2. CASE Saves(p)
  BY <1>2, PutKeepsLocators DEF Saves
<1>3. CASE Rotates(p)
  BY <1>3, PutKeepsLocators DEF Rotates
<1> QED
  BY <1>1, <1>2, <1>3 DEF Effect

\* The part of PairsSpentOnce about one token.
SpentOnce(t) ==
  Held(t.id) # None =>
    /\ uses[t.pair] <= 1
    /\ \A p \in Procs : Committing(p, t.pair) =>
         uses[t.pair] = 0 /\ \A q \in Procs : Committing(q, t.pair) => q = p
    /\ Held(t.id).pair = t.pair =>
         uses[t.pair] = 0 /\ \A p \in Procs : ~Committing(p, t.pair)

\* Sessions end and no refresh has rotated: the token is where it was.
LEMMA SpentStays ==
  ASSUME TypeOK, TypeOK', NEW t \in tokens, SpentOnce(t), NEW p \in Procs, Only(p),
         Held(t.id)' \in {None, Held(t.id)}, uses'[t.pair] = uses[t.pair],
         ~Committing(p, t.pair)' \/ Committing(p, t.pair)
  PROVE  SpentOnce(t)'
<1>1. \A q \in Procs : Committing(q, t.pair)' => Committing(q, t.pair)
  BY DEF Only, Committing
<1> QED
  BY <1>1 DEF SpentOnce

LEMMA SpentByRotation ==
  ASSUME TypeOK, TypeOK', \A q \in Procs : GoroutineOK(q), TokensReal,
         NEW t \in tokens, SpentOnce(t), NEW p \in Procs, Only(p),
         Rotates(p), UNCHANGED uses,
         procs'[p].pc = "commit" => procs'[p].req = procs[p].req
  PROVE  SpentOnce(t)'
<1>1. PICK id \in SessionIds, user \in Users, next \in Drawn :
        /\ Rotating(p) /\ procs[p].pc \in {"get", "rotate"}
        /\ procs[p].next = next /\ procs[p].req.token.id = id
        /\ Held(id) # None /\ Held(id).pair = procs[p].req.token.pair
        /\ Puts(id, user, next)
  BY DEF Rotates
<1>2. DrawnForItself(p) /\ DrawnIsNew(p) /\ RequestFits(p)
  BY DEF GoroutineOK
<1>3. procs[p].req.token \in tokens /\ next.pair # t.pair
  BY <1>1, <1>2
  DEF Rotating, RequestFits, DrawnForItself, DrawnIsNew, TokenSteps, ReadingSteps
<1>4. t.id \in SessionIds
  BY DEF TypeOK, Issued
<1>5. \A q \in Procs \ {p} : Committing(q, t.pair)' <=> Committing(q, t.pair)
  BY DEF Only, Committing
<1>6. Committing(p, t.pair)' => t.pair = procs[p].req.token.pair
  BY DEF Committing
<1>7. ~Committing(p, t.pair)
  BY <1>1 DEF Committing
<1>8. CASE t.id = id
  <2>1. Held(t.id)' # None /\ Held(t.id)'.pair # t.pair
    BY <1>1, <1>3, <1>8 DEF Puts
  <2>2. CASE t.pair = procs[p].req.token.pair
    BY <1>1, <1>5, <1>8, <2>1, <2>2 DEF SpentOnce
  <2>3. CASE t.pair # procs[p].req.token.pair
    BY <1>1, <1>5, <1>6, <1>7, <1>8, <2>1, <2>3 DEF SpentOnce
  <2> QED
    BY <2>2, <2>3
<1>9. CASE t.id # id
  <2>1. Held(t.id)' = Held(t.id)
    BY <1>1, <1>4, <1>9 DEF Puts
  <2>2. t.pair # procs[p].req.token.pair
    BY <1>1, <1>3, <1>9 DEF TokensReal
  <2> QED
    BY <1>6, <2>1, <2>2, SpentStays
<1> QED
  BY <1>8, <1>9

LEMMA SpentByCommit ==
  ASSUME TypeOK, TypeOK', \A q \in Procs : GoroutineOK(q), TokensReal,
         NEW t \in tokens, SpentOnce(t), NEW p \in Procs, Only(p),
         procs[p].pc = "commit", procs[p].req \in TokenRequests, procs'[p].pc # "commit", Shrinks,
         uses' = [uses EXCEPT ![procs[p].req.token.pair] = uses[procs[p].req.token.pair] + 1]
  PROVE  SpentOnce(t)'
<1>1. t.id \in SessionIds /\ t.pair \in Pairs /\ uses \in [Pairs -> Nat]
  BY DEF TypeOK, Issued
<1>2. Held(t.id)' \in {None, Held(t.id)}
  BY <1>1 DEF Shrinks
<1>3. ~Committing(p, t.pair)'
  BY DEF Committing
<1>4. CASE t.pair # procs[p].req.token.pair
  <2>1. uses'[t.pair] = uses[t.pair]
    BY <1>1, <1>4
  <2> QED
    BY <1>2, <1>3, <2>1, SpentStays
<1>5. CASE t.pair = procs[p].req.token.pair
  <2>1. Committing(p, t.pair) /\ uses'[t.pair] = uses[t.pair] + 1
    BY <1>1, <1>5 DEF Committing
  <2>2. \A q \in Procs : Committing(q, t.pair)' => q # p /\ Committing(q, t.pair)
    BY <1>3 DEF Only, Committing
  <2> QED
    BY <1>1, <1>2, <2>1, <2>2 DEF SpentOnce
<1> QED
  BY <1>4, <1>5

\* A token issued by this very step has not been used.
LEMMA NewIsUnspent ==
  ASSUME TypeOK, TypeOK', \A q \in Procs : GoroutineOK(q), PairsSpentOnce,
         NEW p \in Procs, Only(p), Issues(p), procs'[p].pc # "commit", NEW t \in tokens' \ tokens,
         uses'[t.pair] = uses[t.pair]
  PROVE  SpentOnce(t)'
<1>1. \A s \in tokens : s.pair # t.pair
  BY DEF Issues, GoroutineOK, DrawnIsNew
<1>2. t.pair \in Pairs
  BY DEF TypeOK, Issued
<1>3. uses[t.pair] = 0
  BY <1>1, <1>2 DEF PairsSpentOnce
<1>4. ASSUME NEW q \in Procs PROVE ~Committing(q, t.pair)'
  <2>1. CASE q = p
    BY <2>1 DEF Committing
  <2>2. CASE q # p
    <3>1. procs'[q] = procs[q]
      BY <2>2 DEF Only
    <3>2. procs[q].pc = "commit" /\ procs[q].req \in TokenRequests => procs[q].req.token \in tokens
      BY GoroutineFacts DEF GoroutineOK, RequestFits
    <3> QED
      BY <1>1, <3>1, <3>2 DEF Committing
  <2> QED
    BY <2>1, <2>2
<1> QED
  BY <1>3, <1>4 DEF SpentOnce

LEMMA PairsSpentOnceKept ==
  ASSUME TypeOK, TypeOK', \A q \in Procs : GoroutineOK(q), TokensReal, PairsSpentOnce,
         NEW p \in Procs, Only(p), Effect(p), Issues(p), Spends(p)
  PROVE  PairsSpentOnce'
<1>u. uses \in [Pairs -> Nat]
  BY DEF TypeOK
<1>t. \A t \in tokens : SpentOnce(t) /\ t.id \in SessionIds /\ t.id \in stored.ids /\ t.pair \in Pairs
  BY DEF PairsSpentOnce, SpentOnce, TokensReal, TypeOK, Issued
<1>g. RequestFits(p) /\ DrawnForItself(p) /\ DrawnIsNew(p)
  BY DEF GoroutineOK
<1> SUFFICES /\ \A n \in Pairs : uses'[n] # 0 => \E t \in tokens' : t.pair = n
             /\ \A t \in tokens' : SpentOnce(t)'
  BY DEF PairsSpentOnce, SpentOnce
<1>1. CASE /\ UNCHANGED <<uses, tokens>>
           /\ procs'[p].pc = "commit" /\ procs'[p].req \in TokenRequests =>
                Rotates(p) /\ procs'[p].req = procs[p].req
  <2>1. ASSUME NEW t \in tokens PROVE SpentOnce(t)'
    <3>1. CASE Rotates(p)
      <4>1. CASE procs'[p].pc = "commit" /\ procs'[p].req \in TokenRequests
        BY <1>1, <1>t, <3>1, <4>1, SpentByRotation
      <4>2. CASE procs'[p].pc # "commit"
        BY <1>1, <1>t, <3>1, <4>2, SpentByRotation
      <4>3. CASE procs'[p].req \notin TokenRequests
        <5>1. PICK id \in SessionIds, user \in Users, next \in Drawn :
                /\ Rotating(p) /\ procs[p].pc \in {"get", "rotate"}
                /\ procs[p].next = next /\ procs[p].req.token.id = id
                /\ Held(id) # None /\ Held(id).pair = procs[p].req.token.pair
                /\ Puts(id, user, next)
          BY <3>1 DEF Rotates
        <5>2. next.pair # t.pair
          BY <5>1, <1>g DEF Rotating, DrawnForItself, DrawnIsNew
        <5>3. \A q \in Procs : Committing(q, t.pair)' => Committing(q, t.pair)
          BY <4>3 DEF Only, Committing
        <5>4. CASE t.id = id
          BY <1>1, <1>t, <5>1, <5>2, <5>3, <5>4 DEF SpentOnce, Puts
        <5>5. CASE t.id # id
          BY <1>1, <1>t, <5>1, <5>3, <5>5 DEF SpentOnce, Puts
        <5> QED
          BY <5>4, <5>5
      <4> QED
        BY <4>1, <4>2, <4>3
    <3>2. CASE ~Rotates(p)
      <4>1. Shrinks \/ Saves(p)
        BY <3>2 DEF Effect
      <4>2. Held(t.id)' \in {None, Held(t.id)}
        <5>1. CASE Shrinks
          BY <5>1, <1>t DEF Shrinks
        <5>2. CASE Saves(p)
          BY <5>2, <1>t, <1>g DEF Saves, Puts, DrawnForItself
        <5> QED
          BY <4>1, <5>1, <5>2
      <4>3. ~Committing(p, t.pair)'
        BY <1>1, <3>2 DEF Committing
      <4> QED
        BY <1>1, <1>t, <4>2, <4>3, SpentStays
    <3> QED
      BY <3>1, <3>2
  <2> QED
    BY <1>1, <2>1 DEF PairsSpentOnce
<1>2. CASE /\ UNCHANGED tokens
           /\ procs'[p].pc # "commit"
           /\ Shrinks
           /\ \E t \in tokens : Held(t.id)' = None /\ uses' = [uses EXCEPT ![t.pair] = uses[t.pair] + 1]
  <2>1. PICK s \in tokens : Held(s.id)' = None /\ uses' = [uses EXCEPT ![s.pair] = uses[s.pair] + 1]
    BY <1>2
  <2>2. ASSUME NEW n \in Pairs, uses'[n] # 0 PROVE \E t \in tokens' : t.pair = n
    BY <1>2, <1>u, <1>t, <2>1, <2>2 DEF PairsSpentOnce
  <2>3. ASSUME NEW t \in tokens PROVE SpentOnce(t)'
    <3>1. CASE t.pair = s.pair
      <4>1. t.id = s.id
        BY <3>1 DEF TokensReal
      <4> QED
        BY <2>1, <4>1 DEF SpentOnce
    <3>2. CASE t.pair # s.pair
      <4>1. uses'[t.pair] = uses[t.pair]
        BY <1>u, <1>t, <2>1, <3>2
      <4>2. Held(t.id)' \in {None, Held(t.id)}
        BY <1>2, <1>t DEF Shrinks
      <4>3. ~Committing(p, t.pair)'
        BY <1>2 DEF Committing
      <4> QED
        BY <1>t, <4>1, <4>2, <4>3, SpentStays
    <3> QED
      BY <3>1, <3>2
  <2> QED
    BY <1>2, <2>2, <2>3
<1>3. CASE /\ procs[p].pc = "commit" /\ procs'[p].pc # "commit"
           /\ Shrinks
           /\ IF procs[p].req \in TokenRequests
              THEN uses' = [uses EXCEPT ![procs[p].req.token.pair] =
                                           uses[procs[p].req.token.pair] + 1]
              ELSE UNCHANGED uses
  <2>1. tokens \subseteq tokens' /\ \A t \in tokens' \ tokens : t.pair \in Pairs
    BY DEF Issues, TypeOK, Issued
  <2>2. procs[p].req \in TokenRequests => procs[p].req.token \in tokens
    BY <1>g, <1>3, GoroutineFacts DEF RequestFits
  <2>3. ASSUME NEW n \in Pairs, uses'[n] # 0 PROVE \E t \in tokens' : t.pair = n
    <3>1. CASE uses[n] # 0
      BY <2>1, <3>1 DEF PairsSpentOnce
    <3>2. CASE uses[n] = 0
      BY <1>3, <1>u, <2>1, <2>2, <2>3, <3>2
    <3> QED
      BY <3>1, <3>2
  <2>4. ASSUME NEW t \in tokens PROVE SpentOnce(t)'
    <3>1. CASE procs[p].req \in TokenRequests
      BY <1>3, <1>t, <3>1, SpentByCommit
    <3>2. CASE procs[p].req \notin TokenRequests
      <4>1. Held(t.id)' \in {None, Held(t.id)}
        BY <1>3, <1>t DEF Shrinks
      <4>2. ~Committing(p, t.pair)' /\ uses'[t.pair] = uses[t.pair]
        BY <1>3, <3>2 DEF Committing
      <4> QED
        BY <1>t, <4>1, <4>2, SpentStays
    <3> QED
      BY <3>1, <3>2
  <2>5. ASSUME NEW t \in tokens' \ tokens PROVE SpentOnce(t)'
    <3>1. \A s \in tokens : s.pair # t.pair
      BY <1>g DEF Issues, DrawnIsNew
    <3>2. uses'[t.pair] = uses[t.pair]
      BY <1>3, <1>u, <2>1, <2>2, <3>1
    <3> QED
      BY <1>3, <3>2, NewIsUnspent
  <2> QED
    BY <2>3, <2>4, <2>5
<1> QED
  BY <1>1, <1>2, <1>3 DEF Spends

\* All that a step of p must do for the sessions to stay in order.
Lawful(p) ==
  /\ Only(p) /\ GoroutineOK(p)'
  /\ Effect(p) /\ Issues(p) /\ Draws(p) /\ Spends(p)
  /\ isProbing' \in BOOLEAN
  /\ tokens' \in SUBSET Issued
  /\ uses' \in [Pairs -> Nat]

LEMMA LawfulStep ==
  ASSUME SessionsOK, NEW p \in Procs, Lawful(p)
  PROVE  SessionsOK'
<1> USE DEF SessionsOK, Lawful
<1>1. StoreTypes' /\ isRedis' = isRedis /\ now' = now
  BY DEF Effect, Shrinks, Saves, Rotates, Puts
<1>2. TypeOK'
  BY <1>1 DEF TypeOK, StoreTypes, Only, Draws
<1>3. ASSUME NEW q \in Procs PROVE GoroutineOK(q)'
  <2>1. CASE q = p
    BY <2>1
  <2>2. CASE q # p
    BY <2>2, Bystander DEF Only, Draws
  <2> QED
    BY <2>1, <2>2
<1>4. DrawnDiffer'
  BY DrawnDifferKept
<1>5. TokensReal'
  BY TokensRealKept DEF Draws
<1>6. LocatorsTrue'
  BY LocatorsTrueKept
<1>7. PairsSpentOnce'
  BY <1>2, PairsSpentOnceKept
<1> QED
  BY <1>2, <1>3, <1>4, <1>5, <1>6, <1>7

-----------------------------------------------------------------------------
(* The ways a step ends.                                                   *)

LEMMA IdleIsFine ==
  ASSUME NEW p \in Procs, procs'[p] = Idle
  PROVE  GoroutineOK(p)'
<1> USE DEF Idle
<1>1. RequestFits(p)'
  BY DEF RequestFits, TokenSteps, ReadingSteps
<1>2. DrawnForItself(p)' /\ DrawnIsNew(p)' /\ RepliesFit(p)'
  BY DEF DrawnForItself, Rotating, DrawnIsNew, RepliesFit
<1>3. ReadsHold(p)'
  BY DEF ReadsHold, ReadingSteps
<1> QED
  BY <1>1, <1>2, <1>3 DEF GoroutineOK

LEMMA EndsUnjudged ==
  ASSUME SessionsOK, NEW p \in Procs, Finish(p), Effect(p), UNCHANGED <<uses, tokens, drawn>>,
         isProbing' \in BOOLEAN
  PROVE  Lawful(p)
<1> USE DEF SessionsOK
<1>1. Only(p) /\ procs'[p] = Idle
  BY FinishShape
<1>2. procs'[p].pc = "idle" /\ procs'[p].next = None
  BY <1>1, IdleFacts
<1>3. drawn' \in Pairs /\ drawn' >= drawn /\ tokens' \in SUBSET Issued /\ uses' \in [Pairs -> Nat]
  BY LoginAssumption DEF TypeOK, Pairs, LoginAssumption
<1> QED
  BY <1>1, <1>2, <1>3, IdleIsFine DEF Lawful, Issues, Draws, Spends

LEMMA EndsJudged ==
  ASSUME SessionsOK, NEW p \in Procs, Judged(p), Shrinks, UNCHANGED <<now, isProbing>>,
         procs[p].req.kind = "refresh" =>
           procs[p].req.token \in tokens /\
           \E id \in SessionIds : procs[p].req.token.id = id /\ Held(id)' = None
  PROVE  Lawful(p)
<1> USE DEF SessionsOK
<1>1. Only(p) /\ procs'[p] = Idle /\ UNCHANGED <<tokens, drawn>>
  BY FinishShape DEF Judged
<1>2. procs'[p].pc = "idle" /\ procs'[p].next = None
  BY <1>1, IdleFacts
<1>3. drawn' \in Pairs /\ drawn' >= drawn /\ tokens' \in SUBSET Issued /\ uses \in [Pairs -> Nat]
      /\ isProbing' \in BOOLEAN
  BY <1>1, LoginAssumption DEF TypeOK, Pairs, LoginAssumption
<1>4. CASE procs[p].req.kind # "refresh"
  <2>1. uses' = uses
    BY <1>4 DEF Judged
  <2> QED
    BY <1>1, <1>2, <1>3, <2>1, IdleIsFine DEF Lawful, Issues, Draws, Spends, Effect
<1>5. CASE procs[p].req.kind = "refresh"
  <2>1. PICK t \in tokens : t = procs[p].req.token
    BY <1>5
  <2>2. Held(t.id)' = None
    BY <1>5, <2>1
  <2>3. t.pair \in Pairs
    BY DEF TypeOK, Issued
  <2>4. uses' = [uses EXCEPT ![t.pair] = uses[t.pair] + 1]
    BY <1>3, <1>5, <2>1, <2>3 DEF Judged
  <2>5. uses' \in [Pairs -> Nat]
    BY <1>3, <2>3, <2>4
  <2>6. Spends(p)
    BY <1>1, <1>2, <2>2, <2>4 DEF Spends
  <2> QED
    BY <1>1, <1>2, <1>3, <2>5, <2>6, IdleIsFine DEF Lawful, Issues, Draws, Effect
<1> QED
  BY <1>4, <1>5

\* The goroutine goes on reading the session, to revoke it.
LEMMA GoesToRevoke ==
  ASSUME SessionsOK, NEW p \in Procs, Read(p, "revoke"), Shrinks, UNCHANGED <<now, isProbing>>,
         procs[p].pc \in TokenSteps
  PROVE  Lawful(p)
<1> USE DEF SessionsOK
<1>1. /\ Only(p) /\ procs'[p].pc = "get" /\ procs'[p].cont = "revoke" /\ SameWork(p)
      /\ UNCHANGED <<uses, tokens, drawn>>
  BY ReadShape
<1>g. GoroutineOK(p)
  OBVIOUS
<1>2. RequestFits(p)'
  BY <1>1, <1>g DEF GoroutineOK, RequestFits, SameWork, TokenSteps, ReadingSteps
<1>3. DrawnForItself(p)'
  BY <1>1 DEF DrawnForItself, Rotating
<1>4. DrawnIsNew(p)'
  BY <1>1, <1>g DEF GoroutineOK, DrawnIsNew, SameWork, Shrinks, TokenSteps, ReadingSteps
<1>5. ReadsHold(p)'
  BY <1>1 DEF ReadsHold, ReadingSteps
<1>6. RepliesFit(p)'
  BY <1>1, <1>g
  DEF GoroutineOK, RepliesFit, SameWork, TokenSteps, ReadingSteps, RiskSteps
<1>7. drawn' \in Pairs /\ drawn' >= drawn /\ tokens' \in SUBSET Issued /\ uses' \in [Pairs -> Nat]
      /\ isProbing' \in BOOLEAN
  BY <1>1, LoginAssumption DEF TypeOK, Pairs, LoginAssumption
<1> QED
  BY <1>1, <1>2, <1>3, <1>4, <1>5, <1>6, <1>7
  DEF Lawful, GoroutineOK, Issues, Draws, Spends, Effect, SameWork

\* The goroutine goes on to another step with what it has read.
LEMMA GoesOn ==
  ASSUME SessionsOK, NEW p \in Procs, NEW pc \in Steps \ (RiskSteps \cup {"commit", "save"}),
         NEW rec \in Records, Step(p, pc, rec), Shrinks, UNCHANGED <<now, isProbing>>,
         procs[p].pc \in TokenSteps, pc \in TokenSteps,
         pc = "hget" => procs[p].pc = "get",
         pc = "resolve" => procs[p].req.kind = "refresh",
         pc = "rotate" => procs[p].pc = "hget" /\ procs[p].cont = "rotate",
         pc \in ReadingSteps =>
           \E id \in SessionIds :
             /\ procs[p].req.token.id = id
             /\ isRedis /\ rec \in Known /\ UserOf(id)' \in {None, rec.user}
             /\ pc = "rotate" => /\ rec.content # None
                                 /\ rec.content.pair = procs[p].req.token.pair
                                 /\ Held(id)' = rec.content => rec.content.exp > now
             /\ pc = "delSession" => \/ Held(id)' = None
                                     \/ Held(id)' = rec.content /\ rec.content.exp <= now
             /\ pc = "delLocator" => Held(id)' = None,
         pc # "get"
  PROVE  Lawful(p)
<1> USE DEF SessionsOK
<1>1. /\ Only(p) /\ procs'[p].pc = pc /\ procs'[p].rec = rec
      /\ procs'[p].cont = procs[p].cont /\ SameWork(p)
      /\ UNCHANGED <<uses, tokens, drawn>>
  BY StepShape
<1>g. GoroutineOK(p)
  OBVIOUS
<1>2. RequestFits(p)'
  BY <1>1, <1>g DEF GoroutineOK, RequestFits, SameWork, TokenSteps, ReadingSteps
<1>3. DrawnForItself(p)'
  BY <1>1, <1>g DEF GoroutineOK, DrawnForItself, Rotating, SameWork
<1>4. DrawnIsNew(p)'
  BY <1>1, <1>g DEF GoroutineOK, DrawnIsNew, SameWork, Shrinks, TokenSteps, ReadingSteps
<1>5. ReadsHold(p)'
  <2>1. CASE pc \notin ReadingSteps
    BY <1>1, <2>1 DEF ReadsHold, ReadingSteps
  <2>2. CASE pc \in ReadingSteps
    <3>1. isRedis' /\ now' = now
      BY <2>2 DEF Shrinks
    <3> QED
      BY <1>1, <2>2, <3>1 DEF ReadsHold, SameWork
  <2> QED
    BY <2>1, <2>2
<1>6. RepliesFit(p)'
  BY <1>1, <1>g
  DEF GoroutineOK, RepliesFit, SameWork, TokenSteps, ReadingSteps, RiskSteps
<1>7. drawn' \in Pairs /\ drawn' >= drawn /\ tokens' \in SUBSET Issued /\ uses' \in [Pairs -> Nat]
      /\ isProbing' \in BOOLEAN
  BY <1>1, LoginAssumption DEF TypeOK, Pairs, LoginAssumption
<1> QED
  BY <1>1, <1>2, <1>3, <1>4, <1>5, <1>6, <1>7
  DEF Lawful, GoroutineOK, Issues, Draws, Spends, Effect, SameWork

\* The session is stored, by a login or by a refresh.
LEMMA GoesToCommit ==
  ASSUME SessionsOK, NEW p \in Procs, Step(p, "commit", None), UNCHANGED <<now, isProbing>>,
         Saves(p) \/ Rotates(p)
  PROVE  Lawful(p)
<1> USE DEF SessionsOK
<1>0. "commit" \in Steps /\ None \in Records
  BY DEF Steps, Records
<1>1. /\ Only(p) /\ procs'[p].pc = "commit" /\ SameWork(p)
      /\ UNCHANGED <<uses, tokens, drawn>>
  BY <1>0, StepShape
<1>g. GoroutineOK(p)
  OBVIOUS
<1>2. RequestFits(p)'
  BY <1>1, <1>g
  DEF GoroutineOK, RequestFits, SameWork, TokenSteps, ReadingSteps, Saves, Rotates
<1>3. DrawnForItself(p)'
  <2>1. CASE Saves(p)
    <3>1. PICK id \in SessionIds, user \in Users, next \in Drawn :
            /\ procs[p].pc = "save" /\ procs[p].next = next /\ next.id = id
            /\ Puts(id, user, next)
      BY <2>1 DEF Saves
    <3>2. id \in stored'.ids /\ next.pair \in stored'.pairs /\ next # None
      BY <3>1, <1>g DEF Puts, GoroutineOK, DrawnForItself
    <3>3. procs[p].req \notin TokenRequests
      BY <3>1, <1>g, GoroutineFacts DEF GoroutineOK, RequestFits
    <3> QED
      BY <1>1, <3>1, <3>2, <3>3 DEF DrawnForItself, Rotating, SameWork
  <2>2. CASE Rotates(p)
    <3>1. PICK id \in SessionIds, user \in Users, next \in Drawn :
            /\ Rotating(p) /\ procs[p].next = next /\ procs[p].req.token.id = id
            /\ Puts(id, user, next)
      BY <2>2 DEF Rotates
    <3>2. id \in stored'.ids /\ next.pair \in stored'.pairs
      BY <3>1 DEF Puts
    <3> QED
      BY <1>1, <1>g, <3>1, <3>2 DEF GoroutineOK, DrawnForItself, Rotating, SameWork
  <2> QED
    BY <2>1, <2>2
<1>4. DrawnIsNew(p)'
  BY <1>1, <1>g DEF GoroutineOK, DrawnIsNew, SameWork
<1>5. ReadsHold(p)'
  BY <1>1 DEF ReadsHold, ReadingSteps
<1>6. RepliesFit(p)'
  <2>1. procs[p].pc \notin RiskSteps
    BY DEF Saves, Rotates, RiskSteps
  <2> QED
    BY <1>1, <1>g, <2>1 DEF GoroutineOK, RepliesFit, SameWork
<1>7. drawn' \in Pairs /\ drawn' >= drawn /\ tokens' \in SUBSET Issued /\ uses' \in [Pairs -> Nat]
      /\ isProbing' \in BOOLEAN
  BY <1>1, LoginAssumption DEF TypeOK, Pairs, LoginAssumption
<1>8. Spends(p)
  <2>1. CASE Saves(p)
    <3>1. procs[p].req \notin TokenRequests
      BY <2>1, <1>g, GoroutineFacts DEF Saves, GoroutineOK, RequestFits
    <3> QED
      BY <1>1, <3>1 DEF Spends, SameWork
  <2>2. CASE Rotates(p)
    BY <1>1, <2>2 DEF Spends, SameWork
  <2> QED
    BY <2>1, <2>2
<1> QED
  BY <1>1, <1>2, <1>3, <1>4, <1>5, <1>6, <1>7, <1>8
  DEF Lawful, GoroutineOK, Issues, Draws, Effect, SameWork

-----------------------------------------------------------------------------
(* The steps of the Redis session store.                                   *)

LEMMA TokenFacts ==
  ASSUME SessionsOK, NEW p \in Procs, procs[p].pc \in TokenSteps
  PROVE  /\ procs[p].req \in TokenRequests /\ procs[p].req.token \in tokens
         /\ procs[p].req.token.id \in SessionIds /\ procs[p].req.token.id \in stored.ids
         /\ procs[p].req.kind \in {"refresh", "access", "logout"}
<1>1. procs[p].req \in TokenRequests /\ procs[p].req.token \in tokens
  BY DEF SessionsOK, GoroutineOK, RequestFits
<1> QED
  BY <1>1 DEF SessionsOK, TypeOK, TokensReal, TokenRequests, Issued

LEMMA SameLeft ==
  ASSUME SessionsOK, Left(Same), SessionUnchanged, UNCHANGED sessions
  PROVE  /\ Shrinks /\ UNCHANGED <<now, isRedis, isProbing, locator, hash, stored>>
         /\ \A id \in SessionIds : Held(id)' = Held(id) /\ UserOf(id)' = UserOf(id)
<1>1. UNCHANGED <<now, isRedis, isProbing, locator, hash, stored>>
  BY DEF Left, Same, Store, SessionUnchanged, riskVars
<1>2. \A id \in SessionIds : Held(id)' = Held(id) /\ UserOf(id)' = UserOf(id)
  BY <1>1 DEF Held, UserOf, Kept
<1> QED
  BY <1>1, <1>2, Untouched DEF SessionsOK

LEMMA ReadLocatorLawful ==
  ASSUME SessionsOK, NEW p \in Procs, ReadLocator(p)
  PROVE  Lawful(p)
<1>0. procs[p].pc = "get" /\ isRedis /\ SessionUnchanged /\ procs[p].pc \in TokenSteps
  BY DEF ReadLocator, TokenSteps
<1>1. PICK id \in SessionIds : id = procs[p].req.token.id
  BY <1>0, TokenFacts
<1>2. /\ Left(Same) /\ UNCHANGED sessions
      /\ \/ UserOf(id) = None /\ Judged(p)
         \/ UserOf(id) # None /\ Step(p, "hget", [user |-> UserOf(id), content |-> None])
         \/ Finish(p) /\ UNCHANGED <<uses, tokens, drawn>>
  BY <1>1 DEF ReadLocator, Redis, Reply
<1>3. /\ Shrinks /\ UNCHANGED <<now, isRedis, isProbing>>
      /\ Held(id)' = Held(id) /\ UserOf(id)' = UserOf(id)
  BY <1>0, <1>2, SameLeft
<1>4. CASE UserOf(id) = None /\ Judged(p)
  <2>1. Held(id)' = None
    BY <1>0, <1>3, <1>4 DEF Held
  <2> QED
    BY <1>0, <1>1, <1>3, <1>4, <2>1, TokenFacts, EndsJudged
<1>5. CASE UserOf(id) # None /\ Step(p, "hget", [user |-> UserOf(id), content |-> None])
  <2>1. UserOf(id) \in Users
    BY <1>5, HeldFacts DEF SessionsOK
  <2>2. PICK rec : rec = [user |-> UserOf(id), content |-> None]
    OBVIOUS
  <2>3. rec \in Known /\ rec \in Records /\ rec.user = UserOf(id)
    BY <2>1, <2>2 DEF Records, Known
  <2>5. "hget" \in Steps \ (RiskSteps \cup {"commit", "save"}) /\ "hget" \in TokenSteps
    BY DEF Steps, RiskSteps, TokenSteps, ReadingSteps
  <2>6. Step(p, "hget", rec)
    BY <1>5, <2>2
  <2> QED
    BY <1>0, <1>1, <1>3, <2>3, <2>5, <2>6, GoesOn
<1>6. CASE Finish(p) /\ UNCHANGED <<uses, tokens, drawn>>
  BY <1>3, <1>6, EndsUnjudged DEF Effect, SessionsOK, TypeOK
<1> QED
  BY <1>2, <1>4, <1>5, <1>6

\* What verify, RotateRefresh and Revoke do with a session that was read just
\* now, from Redis or from memory.
LEMMA PresentLawful ==
  ASSUME SessionsOK, NEW p \in Procs, procs[p].pc \in {"get", "hget"},
         NEW user \in Users, NEW content, Present(p, user, content),
         Shrinks, UNCHANGED <<now, isProbing>>,
         \/ procs[p].pc = "get" /\ procs[p].cont = "verify"
         \/ /\ procs[p].pc = "hget" /\ isRedis
            /\ content \in Content /\ content # None /\ decode(content) = "valid"
            /\ \E id \in SessionIds : id = procs[p].req.token.id /\ UserOf(id)' \in {None, user}
  PROVE  Lawful(p)
<1>t. procs[p].pc \in TokenSteps
  BY DEF TokenSteps, ReadingSteps
<1>f. procs[p].cont \in {"verify", "rotate", "revoke"}
  BY DEF SessionsOK, GoroutineOK, RequestFits
<1>s. \A pc \in {"resolve", "rotate", "revoke"} :
        pc \in Steps \ (RiskSteps \cup {"commit", "save"}) /\ pc \in TokenSteps /\ pc # "get" /\ pc # "hget"
  BY DEF Steps, RiskSteps, TokenSteps, ReadingSteps
<1> DEFINE rec == [user |-> user, content |-> content]
<1>1. CASE Read(p, "revoke")
  BY <1>1, <1>t, GoesToRevoke
<1>2. CASE Judged(p) /\ procs[p].req.kind # "refresh"
  BY <1>2, EndsJudged
<1>3. CASE Failed(p)
  BY <1>3, EndsUnjudged DEF Failed, Effect, SessionsOK, TypeOK
<1>4. CASE Step(p, "resolve", None) /\ procs[p].req.kind = "refresh"
  <2>1. None \in Records /\ "resolve" \notin ReadingSteps
    BY DEF Records, ReadingSteps
  <2> QED
    BY <1>4, <1>t, <1>s, <2>1, GoesOn
<1>5. CASE /\ procs[p].cont = "rotate" /\ checkClaims(procs[p].req.token, content)
           /\ Step(p, "rotate", rec)
  <2>1. rec \in Known /\ rec \in Records /\ rec.user = user /\ rec.content = content
    BY <1>5 DEF Known, Records
  <2>2. /\ procs[p].pc = "hget" /\ isRedis /\ content # None /\ content.pair = procs[p].req.token.pair
        /\ content.exp > now
    <3>1. now \in Nat /\ (content \in Content => content.exp \in Nat)
      BY DEF SessionsOK, TypeOK, Content
    <3> QED
      BY <1>5, <3>1 DEF checkClaims, decode
  <2>3. PICK g : g = rec
    OBVIOUS
  <2>4. \E id \in SessionIds :
             /\ procs[p].req.token.id = id
             /\ isRedis /\ g \in Known /\ UserOf(id)' \in {None, g.user}
             /\ g.content # None
             /\ g.content.pair = procs[p].req.token.pair
             /\ Held(id)' = g.content => g.content.exp > now
    BY <1>5, <2>1, <2>2, <2>3
  <2>5. Step(p, "rotate", g) /\ g \in Records
    BY <1>5, <2>1, <2>3
  <2> HIDE DEF rec
  <2> QED
    BY <1>5, <1>t, <1>s, <2>2, <2>4, <2>5, GoesOn
<1>6. CASE procs[p].cont = "revoke" /\ Step(p, "revoke", rec)
  <2>1. rec \in Known /\ rec \in Records /\ rec.user = user
    BY <1>6 DEF Known, Records
  <2>3. PICK g : g = rec
    OBVIOUS
  <2>4. \E id \in SessionIds :
             /\ procs[p].req.token.id = id
             /\ isRedis /\ g \in Known /\ UserOf(id)' \in {None, g.user}
    BY <1>6, <2>1, <2>3
  <2>5. Step(p, "revoke", g) /\ g \in Records
    BY <1>6, <2>1, <2>3
  <2> HIDE DEF rec
  <2> QED
    BY <1>6, <1>t, <1>s, <2>4, <2>5, GoesOn
<1>7. CASE procs[p].cont = "verify"
  <2>1. checkClaims(procs[p].req.token, content) \in BOOLEAN
    BY DEF checkClaims
  <2> QED
    BY <1>1, <1>2, <1>4, <1>7, <2>1 DEF Present
<1>8. CASE procs[p].cont = "rotate"
  BY <1>1, <1>3, <1>5, <1>8 DEF Present
<1>9. CASE procs[p].cont = "revoke"
  BY <1>6, <1>9 DEF Present
<1> QED
  BY <1>f, <1>7, <1>8, <1>9

LEMMA ReadContentLawful ==
  ASSUME SessionsOK, NEW p \in Procs, ReadContent(p)
  PROVE  Lawful(p)
<1>0. procs[p].pc = "hget" /\ SessionUnchanged /\ procs[p].pc \in TokenSteps
  BY DEF ReadContent, TokenSteps, ReadingSteps
<1>1. PICK id \in SessionIds : id = procs[p].req.token.id
  BY <1>0, TokenFacts
<1>r. isRedis /\ procs[p].rec \in Known /\ UserOf(id) \in {None, procs[p].rec.user}
  BY <1>0, <1>1 DEF SessionsOK, GoroutineOK, ReadsHold, ReadingSteps
<1>2. PICK user \in Users : user = procs[p].rec.user
  BY <1>r DEF Known
<1>3. PICK content \in Content \cup {None} : content = hash[user].fields[id]
  BY <1>1, <1>2, SMTT(40) DEF SessionsOK, TypeOK
<1>4. /\ Left(Same) /\ UNCHANGED sessions
      /\ \/ content = None /\ Step(p, "delLocator", procs[p].rec)
         \/ /\ content # None /\ decode(content) = "expired"
            /\ Step(p, "delSession", [user |-> user, content |-> content])
         \/ content # None /\ decode(content) # "expired" /\ Present(p, user, content)
         \/ Finish(p) /\ UNCHANGED <<uses, tokens, drawn>>
  BY <1>1, <1>2, <1>3 DEF ReadContent, Redis, Reply
<1>5. /\ Shrinks /\ UNCHANGED <<now, isRedis, isProbing>>
      /\ Held(id)' = Held(id) /\ UserOf(id)' = UserOf(id)
  BY <1>0, <1>4, SameLeft
<1>6. Held(id) = IF UserOf(id) = None THEN None ELSE content
  BY <1>r, <1>2, <1>3 DEF Held
<1>s. \A pc \in {"delLocator", "delSession"} :
        pc \in Steps \ (RiskSteps \cup {"commit", "save"}) /\ pc \in TokenSteps
  BY DEF Steps, RiskSteps, TokenSteps, ReadingSteps
<1>7. CASE content = None /\ Step(p, "delLocator", procs[p].rec)
  <2>1. PICK g : g = procs[p].rec
    OBVIOUS
  <2>2. g \in Known /\ g \in Records /\ Step(p, "delLocator", g)
    BY <1>7, <1>r, <2>1 DEF Records
  <2>3. isRedis /\ UserOf(id)' \in {None, g.user} /\ Held(id)' = None
    BY <1>r, <1>5, <1>6, <1>7, <2>1
  <2> QED
    BY <1>0, <1>1, <1>5, <1>s, <2>2, <2>3, GoesOn
<1>8. CASE /\ content # None /\ decode(content) = "expired"
           /\ Step(p, "delSession", [user |-> user, content |-> content])
  <2>1. PICK g : g = [user |-> user, content |-> content]
    OBVIOUS
  <2>2. g \in Known /\ g \in Records /\ Step(p, "delSession", g) /\ g.user = user /\ g.content = content
    BY <1>8, <2>1 DEF Records, Known
  <2>3. content.exp <= now
    BY <1>8 DEF decode
  <2>4. /\ isRedis /\ UserOf(id)' \in {None, g.user}
        /\ Held(id)' = None \/ (Held(id)' = g.content /\ g.content.exp <= now)
    BY <1>r, <1>2, <1>5, <1>6, <2>2, <2>3
  <2> QED
    BY <1>0, <1>1, <1>5, <1>s, <2>2, <2>4, GoesOn
<1>9. CASE content # None /\ decode(content) # "expired" /\ Present(p, user, content)
  <2>1. decode(content) = "valid"
    BY <1>9 DEF decode
  <2>2. \E i \in SessionIds : i = procs[p].req.token.id /\ UserOf(i)' \in {None, user}
    BY <1>1, <1>2, <1>r, <1>5
  <2> QED
    BY <1>0, <1>r, <1>3, <1>5, <1>9, <2>1, <2>2, PresentLawful
<1>10. CASE Finish(p) /\ UNCHANGED <<uses, tokens, drawn>>
  BY <1>5, <1>10, EndsUnjudged DEF Effect, SessionsOK, TypeOK
<1> QED
  BY <1>4, <1>7, <1>8, <1>9, <1>10, SMTT(40)

LEMMA RiskApart ==
  ASSUME SessionsOK, SessionUnchanged
  PROVE  UNCHANGED <<now, isRedis, isProbing>> /\ isProbing' \in BOOLEAN
  BY DEF SessionUnchanged, riskVars, SessionsOK, TypeOK

\* A script whose keys go or stay, whatever becomes of its answer; afterwards
\* the session it names is gone when the request is judged.
LEMMA RedisEnds ==
  ASSUME SessionsOK, NEW p \in Procs, SessionUnchanged, UNCHANGED sessions, Shrinks,
         \/ Judged(p)
         \/ Finish(p) /\ UNCHANGED <<uses, tokens, drawn>>,
         Judged(p) /\ procs[p].req.kind = "refresh" =>
           procs[p].req.token \in tokens /\
           \E id \in SessionIds : procs[p].req.token.id = id /\ Held(id)' = None
  PROVE  Lawful(p)
<1>1. UNCHANGED <<now, isRedis, isProbing>> /\ isProbing' \in BOOLEAN
  BY RiskApart
<1>2. CASE Judged(p)
  BY <1>1, <1>2, EndsJudged
<1>3. CASE Finish(p) /\ UNCHANGED <<uses, tokens, drawn>>
  BY <1>1, <1>3, EndsUnjudged DEF Effect
<1> QED
  BY <1>2, <1>3

LEMMA CleanUpLawful ==
  ASSUME SessionsOK, NEW p \in Procs, CleanUp(p)
  PROVE  Lawful(p)
<1>0. procs[p].pc \in {"delLocator", "delSession"} /\ procs[p].pc \in TokenSteps /\ SessionUnchanged
  BY DEF CleanUp, TokenSteps, ReadingSteps
<1>1. PICK id \in SessionIds : id = procs[p].req.token.id
  BY <1>0, TokenFacts
<1>r. /\ isRedis /\ procs[p].rec \in Known /\ UserOf(id) \in {None, procs[p].rec.user}
      /\ procs[p].pc = "delLocator" => Held(id) = None
      /\ procs[p].pc = "delSession" =>
           Held(id) = None \/ Held(id) = procs[p].rec.content
  BY <1>0, <1>1 DEF SessionsOK, GoroutineOK, ReadsHold, ReadingSteps
<1>2. PICK user \in Users, content \in Content \cup {None} :
        user = procs[p].rec.user /\ content = procs[p].rec.content
  BY <1>r DEF Known
<1>u. UNCHANGED <<now, isRedis>>
  BY <1>0, RiskApart
<1>3. CASE procs[p].pc = "delLocator"
  <2>1. /\ UNCHANGED sessions
        /\ Left(Same) \/ Left(Store([locator EXCEPT ![id] = None], hash, stored))
        /\ Judged(p) \/ (Finish(p) /\ UNCHANGED <<uses, tokens, drawn>>)
    BY <1>1, <1>2, <1>3 DEF CleanUp, Redis, delLocatorScript, Reply
  <2>2. Shrinks
    BY <1>r, <1>u, <1>0, <2>1, SameLeft, LocatorGone DEF SessionsOK
  <2>3. Held(id)' = None
    BY <1>r, <1>3, <2>2 DEF Shrinks
  <2> QED
    BY <1>0, <1>1, <2>1, <2>2, <2>3, TokenFacts, RedisEnds
<1>4. CASE procs[p].pc = "delSession"
  <2>h. Held(id) = IF UserOf(id) = None THEN None ELSE hash[user].fields[id]
    BY <1>r, <1>2 DEF Held
  <2>1. /\ UNCHANGED sessions
        /\ \/ Left(Same)
           \/ UserOf(id) = user /\ Left(Drop(id, user))
           \/ UserOf(id) # user /\ Left(Store(locator, [hash EXCEPT ![user].fields[id] = None], stored))
        /\ \/ Judged(p) /\ (Left(Same) => hash[user].fields[id] # content \/ Held(id)' = None)
           \/ Finish(p) /\ UNCHANGED <<uses, tokens, drawn>>
    <3>1. \/ UNCHANGED sessions /\ Judged(p)
             /\ Left(delSessionScript(id, user, content).store)
          \/ /\ UNCHANGED sessions /\ Finish(p) /\ UNCHANGED <<uses, tokens, drawn>>
             /\ Left(Same) \/ Left(delSessionScript(id, user, content).store)
      BY <1>1, <1>2, <1>4 DEF CleanUp, Redis
    <3>2. CASE hash[user].fields[id] # content
      BY <3>1, <3>2 DEF delSessionScript, Reply
    <3>3. CASE hash[user].fields[id] = content /\ UserOf(id) = user
      <4>1. delSessionScript(id, user, content).store = Drop(id, user)
        BY <3>3 DEF delSessionScript, Reply
      <4>2. Left(Drop(id, user)) /\ UNCHANGED sessions => Held(id)' = None
        BY <1>r, <1>u, DropFacts DEF SessionsOK
      <4> QED
        BY <3>1, <3>3, <4>1, <4>2
    <3>4. CASE hash[user].fields[id] = content /\ UserOf(id) # user
      <4>1. delSessionScript(id, user, content).store =
              Store(locator, [hash EXCEPT ![user].fields[id] = None], stored)
        BY <3>4 DEF delSessionScript, Reply
      <4>2. Held(id) = None
        BY <1>r, <1>2, <2>h, <3>4
      <4>3. Left(Same) /\ UNCHANGED sessions => Held(id)' = None
        BY <1>0, <4>2, SameLeft
      <4> QED
        BY <3>1, <3>4, <4>1, <4>3
    <3> QED
      BY <3>2, <3>3, <3>4
  <2>2. Shrinks /\ (Left(Drop(id, user)) => Held(id)' = None)
    BY <1>r, <1>u, <1>0, <2>1, SameLeft, DropFacts, FieldGone DEF SessionsOK
  <2>3. Held(id)' \in {None, Held(id)}
    BY <2>2, SMTT(40) DEF Shrinks
  <2>4. Judged(p) /\ ~(Finish(p) /\ UNCHANGED <<uses, tokens, drawn>>) => Held(id)' = None
    BY <1>r, <1>2, <1>4, <2>h, <2>1, <2>2, <2>3
  <2>5. CASE Finish(p) /\ UNCHANGED <<uses, tokens, drawn>>
    BY <1>0, <2>2, <2>5, RiskApart, EndsUnjudged, SMTT(40) DEF Effect
  <2>6. CASE ~(Finish(p) /\ UNCHANGED <<uses, tokens, drawn>>)
    BY <1>0, <1>1, <2>1, <2>2, <2>4, <2>6, TokenFacts, RedisEnds
  <2> QED
    BY <2>5, <2>6
<1> QED
  BY <1>0, <1>3, <1>4

LEMMA RevokeLawful ==
  ASSUME SessionsOK, NEW p \in Procs, Revoke(p)
  PROVE  Lawful(p)
<1>0. procs[p].pc = "revoke" /\ procs[p].pc \in TokenSteps /\ SessionUnchanged
  BY DEF Revoke, TokenSteps, ReadingSteps
<1>1. PICK id \in SessionIds : id = procs[p].req.token.id
  BY <1>0, TokenFacts
<1>r. isRedis /\ procs[p].rec \in Known /\ UserOf(id) \in {None, procs[p].rec.user}
  BY <1>0, <1>1 DEF SessionsOK, GoroutineOK, ReadsHold, ReadingSteps
<1>2. PICK user \in Users : user = procs[p].rec.user
  BY <1>r DEF Known
<1>u. UNCHANGED <<now, isRedis>> /\ user # None
  BY <1>0, RiskApart, LoginAssumption DEF LoginAssumption
<1>3. \/ /\ UNCHANGED sessions /\ Judged(p)
         /\ IF UserOf(id) # user THEN Left(Same) ELSE Left(Drop(id, user))
      \/ /\ UNCHANGED sessions /\ Finish(p) /\ UNCHANGED <<uses, tokens, drawn>>
         /\ Left(Same) \/ Left(Drop(id, user))
  BY <1>1, <1>2 DEF Revoke, Redis, revokeSessionScript, Reply
<1>4. Shrinks /\ UNCHANGED sessions
  BY <1>0, <1>r, <1>u, <1>3, SameLeft, DropFacts DEF SessionsOK
<1>5. CASE Finish(p) /\ UNCHANGED <<uses, tokens, drawn>>
  BY <1>0, <1>4, <1>5, RiskApart, EndsUnjudged DEF Effect
<1>6. CASE ~(Finish(p) /\ UNCHANGED <<uses, tokens, drawn>>)
  <2>1. CASE UserOf(id) # user /\ Left(Same)
    <3>1. Held(id) = None
      BY <1>r, <1>2, <2>1 DEF Held
    <3>2. Held(id)' = None
      BY <1>4, <3>1 DEF Shrinks
    <3> QED
      BY <1>0, <1>1, <1>3, <1>4, <3>2, TokenFacts, RedisEnds
  <2>2. CASE Left(Drop(id, user))
    <3>1. Held(id)' = None
      BY <1>r, <1>u, <1>4, <2>2, DropFacts DEF SessionsOK
    <3> QED
      BY <1>0, <1>1, <1>3, <1>4, <3>1, TokenFacts, RedisEnds
  <2> QED
    BY <1>3, <1>6, <2>1, <2>2
<1> QED
  BY <1>5, <1>6

LEMMA RotateLawful ==
  ASSUME SessionsOK, NEW p \in Procs, Rotate(p)
  PROVE  Lawful(p)
<1>0. procs[p].pc = "rotate" /\ procs[p].pc \in TokenSteps /\ SessionUnchanged /\ Rotating(p)
  BY DEF Rotate, TokenSteps, ReadingSteps, Rotating
<1>1. PICK id \in SessionIds : id = procs[p].req.token.id
  BY <1>0, TokenFacts
<1>r. /\ isRedis /\ procs[p].rec \in Known /\ UserOf(id) \in {None, procs[p].rec.user}
      /\ procs[p].rec.content # None /\ procs[p].rec.content.pair = procs[p].req.token.pair
      /\ Held(id) = procs[p].rec.content => procs[p].rec.content.exp > now
  BY <1>0, <1>1 DEF SessionsOK, GoroutineOK, ReadsHold, ReadingSteps
<1>2. PICK user \in Users, content \in Content :
        user = procs[p].rec.user /\ content = procs[p].rec.content
  BY <1>r DEF Known
<1>n. procs[p].next # None
  BY <1>0 DEF SessionsOK, GoroutineOK, DrawnForItself
<1>3. PICK next \in Drawn : next = procs[p].next
  BY <1>n, GoroutineFacts DEF SessionsOK
<1>u. UNCHANGED <<now, isRedis, isProbing>> /\ user # None /\ content # None
  BY <1>0, <1>r, <1>2, RiskApart, LoginAssumption DEF LoginAssumption
<1> DEFINE reply == rotateRefreshScript(id, user, content, [exp |-> next.exp, pair |-> next.pair])
           new == Put(id, user, [exp |-> next.exp, pair |-> next.pair])
<1>4. /\ UNCHANGED sessions
      /\ \/ /\ Left(reply.store)
            /\ CASE reply.res = 0 -> Judged(p)
                 [] reply.res = 1 -> Step(p, "commit", None)
                 [] reply.res = 2 -> Read(p, "revoke")
         \/ /\ Left(Same) \/ Left(reply.store)
            /\ Finish(p) /\ UNCHANGED <<uses, tokens, drawn>>
  BY <1>1, <1>2, <1>3 DEF Rotate, Redis
<1>h. Held(id) = IF UserOf(id) = None THEN None ELSE hash[user].fields[id]
  BY <1>r, <1>2 DEF Held
<1>5. ASSUME Left(Same) PROVE Shrinks
  BY <1>0, <1>4, <1>5, SameLeft
<1>6. ASSUME UserOf(id) = user, hash[user].fields[id] = content, Left(new) PROVE Rotates(p)
  <2>1. Puts(id, user, next)
    BY <1>r, <1>u, <1>4, <1>6, PutFacts DEF SessionsOK
  <2>2. Held(id) = content /\ Owner(id) = user
    BY <1>r, <1>u, <1>h, <1>6 DEF Owner
  <2> QED
    BY <1>0, <1>1, <1>r, <1>2, <1>3, <1>u, <2>1, <2>2 DEF Rotates
<1>7. CASE UserOf(id) # user \/ hash[user].fields[id] = None
  <2>1. reply = Reply(0, Same)
    BY <1>7 DEF rotateRefreshScript
  <2>2. reply.res = 0 /\ reply.store = Same
    BY <2>1 DEF Reply
  <2> HIDE DEF reply, new
  <2>3. Shrinks /\ (Judged(p) \/ (Finish(p) /\ UNCHANGED <<uses, tokens, drawn>>))
    BY <1>4, <1>5, <2>2
  <2>4. Held(id) = None
    BY <1>r, <1>2, <1>h, <1>7
  <2>5. Held(id)' = None
    BY <2>3, <2>4 DEF Shrinks
  <2> QED
    BY <1>0, <1>1, <1>4, <2>3, <2>5, TokenFacts, RedisEnds
<1>8. CASE UserOf(id) = user /\ hash[user].fields[id] # None /\ hash[user].fields[id] # content
  <2>1. reply = Reply(2, Same)
    BY <1>8 DEF rotateRefreshScript
  <2>2. reply.res = 2 /\ reply.store = Same
    BY <2>1 DEF Reply
  <2> HIDE DEF reply, new
  <2>3. Shrinks /\ (Read(p, "revoke") \/ (Finish(p) /\ UNCHANGED <<uses, tokens, drawn>>))
    BY <1>4, <1>5, <2>2
  <2>4. CASE Read(p, "revoke")
    BY <1>0, <1>u, <2>3, <2>4, GoesToRevoke
  <2>5. CASE Finish(p) /\ UNCHANGED <<uses, tokens, drawn>>
    BY <1>0, <2>3, <2>5, RiskApart, EndsUnjudged DEF Effect
  <2> QED
    BY <2>3, <2>4, <2>5
<1>9. CASE UserOf(id) = user /\ hash[user].fields[id] = content
  <2>1. reply = Reply(1, new)
    BY <1>u, <1>9 DEF rotateRefreshScript
  <2>2. reply.res = 1 /\ reply.store = new
    BY <2>1 DEF Reply
  <2> HIDE DEF reply, new
  <2>3. \/ Rotates(p) /\ Step(p, "commit", None)
        \/ (Rotates(p) \/ Shrinks) /\ Finish(p) /\ UNCHANGED <<uses, tokens, drawn>>
    BY <1>4, <1>5, <1>6, <1>9, <2>2
  <2>4. CASE Rotates(p) /\ Step(p, "commit", None)
    BY <1>u, <2>4, GoesToCommit
  <2>5. CASE (Rotates(p) \/ Shrinks) /\ Finish(p) /\ UNCHANGED <<uses, tokens, drawn>>
    BY <1>0, <1>u, <2>5, RiskApart, EndsUnjudged DEF Effect
  <2> QED
    BY <2>3, <2>4, <2>5
<1> QED
  BY <1>7, <1>8, <1>9

LEMMA SaveFacts ==
  ASSUME SessionsOK, NEW p \in Procs, procs[p].pc = "save"
  PROVE  /\ procs[p].next \in Drawn /\ procs[p].next.id \in SessionIds
         /\ procs[p].req.account \in Users /\ procs[p].req.kind = "login"
<1>1. procs[p].next # None /\ procs[p].req \in LoginRequests /\ procs[p].req.password = "right"
  BY DEF SessionsOK, GoroutineOK, DrawnForItself, RequestFits
<1>2. procs[p].next \in Drawn
  BY <1>1, GoroutineFacts DEF SessionsOK
<1> QED
  BY <1>1, <1>2 DEF Drawn, LoginRequests

LEMMA SaveLawful ==
  ASSUME SessionsOK, NEW p \in Procs, Save(p)
  PROVE  Lawful(p)
<1>0. procs[p].pc = "save" /\ isRedis /\ SessionUnchanged
  BY DEF Save
<1>1. PICK next \in Drawn, id \in SessionIds, user \in Users :
        next = procs[p].next /\ id = next.id /\ user = procs[p].req.account
  BY <1>0, SaveFacts
<1>u. UNCHANGED <<now, isRedis, isProbing>> /\ isProbing' \in BOOLEAN
  BY <1>0, RiskApart
<1> DEFINE reply == saveSessionScript(id, user, [exp |-> next.exp, pair |-> next.pair])
           new == Put(id, user, [exp |-> next.exp, pair |-> next.pair])
<1>2. \/ /\ UNCHANGED sessions
         /\ \/ Left(reply.store) /\ IF reply.res = 1 THEN Step(p, "commit", None) ELSE Failed(p)
            \/ /\ Left(Same) \/ Left(reply.store)
               /\ Failed(p)
      \/ Failed(p) /\ UNCHANGED storeVars
  BY <1>1 DEF Save, Redis, Failed
<1>3. \/ reply.res = 0 /\ reply.store = Same
      \/ reply.res = 1 /\ reply.store = new
  BY DEF saveSessionScript, Reply
<1>4. ASSUME Left(Same), UNCHANGED sessions PROVE Shrinks
  BY <1>0, <1>4, SameLeft
<1>5. ASSUME Left(new), UNCHANGED sessions PROVE Saves(p)
  <2>1. Puts(id, user, next)
    BY <1>0, <1>u, <1>5, PutFacts DEF SessionsOK
  <2> QED
    BY <1>0, <1>1, <2>1 DEF Saves
<1>6. ASSUME UNCHANGED storeVars PROVE Shrinks
  BY <1>u, <1>6, Untouched DEF storeVars, SessionsOK
<1> HIDE DEF reply, new
<1>7. \/ Saves(p) /\ Step(p, "commit", None)
      \/ (Saves(p) \/ Shrinks) /\ Failed(p)
  BY <1>2, <1>3, <1>4, <1>5, <1>6
<1>8. CASE Saves(p) /\ Step(p, "commit", None)
  BY <1>u, <1>8, GoesToCommit
<1>9. CASE (Saves(p) \/ Shrinks) /\ Failed(p)
  BY <1>u, <1>9, EndsUnjudged DEF Effect, Failed
<1> QED
  BY <1>7, <1>8, <1>9

LEMMA RevokeUsersLawful ==
  ASSUME SessionsOK, NEW p \in Procs, RevokeUsers(p)
  PROVE  Lawful(p)
<1>0. procs[p].pc = "revokeUsers" /\ isRedis /\ SessionUnchanged
  BY DEF RevokeUsers
<1>1. procs[p].req.account \in Users /\ procs[p].req.kind = "revokeUsers"
  BY <1>0 DEF SessionsOK, GoroutineOK, RequestFits, Revocations
<1>2. PICK user \in Users : user = procs[p].req.account
  BY <1>1
<1>3. /\ UNCHANGED sessions
      /\ Left(Same) \/ Left(unlinkUser(user).store)
      /\ Judged(p) \/ (Finish(p) /\ UNCHANGED <<uses, tokens, drawn>>)
  BY <1>2 DEF RevokeUsers, Redis
<1>4. Shrinks
  BY <1>0, <1>3, RiskApart, SameLeft, UserGone DEF SessionsOK
<1> QED
  BY <1>0, <1>1, <1>3, <1>4, RedisEnds

-----------------------------------------------------------------------------
(* The steps of the session store in memory.                               *)

LEMMA KeptFacts ==
  ASSUME SessionsOK
  PROVE  /\ Kept \in [SessionIds -> Session \cup {None}]
         /\ ~isRedis => \A id \in SessionIds : Held(id) = Kept[id]
  BY DEF SessionsOK, TypeOK, Kept, Held

\* Entries are removed, or only those that have expired.
LEMMA MemoryLoses ==
  ASSUME SessionsOK, ~isRedis, SessionUnchanged, UNCHANGED <<locator, hash, stored>>,
         sessions' \in [SessionIds -> Session \cup {None}],
         \A id \in SessionIds : sessions'[id] \in {None, sessions[id], Kept[id]}
  PROVE  Shrinks /\ \A id \in SessionIds : sessions'[id] = None => Held(id)' = None
<1>1. UNCHANGED <<now, isRedis>> /\ now \in Nat
  BY RiskApart DEF SessionsOK, TypeOK
<1>2. StoreTypes'
  BY DEF SessionsOK, TypeOK, StoreTypes
<1>3. Shrinks
  BY <1>1, <1>2, MemoryShrinks DEF SessionsOK
<1> QED
  BY <1>1, <1>3 DEF Held, Kept

LEMMA MemoryPuts ==
  ASSUME SessionsOK, ~isRedis, SessionUnchanged, UNCHANGED <<locator, hash>>,
         NEW id \in SessionIds, NEW user \in Users, NEW next \in Drawn, next.id = id,
         encode(next), sessions' = SaveIn(Kept, id, user, next), Storing(next)
  PROVE  Puts(id, user, next)
<1>1. UNCHANGED <<now, isRedis>> /\ now \in Nat
  BY RiskApart DEF SessionsOK, TypeOK
<1> DEFINE s == [exp |-> next.exp, user |-> user, pair |-> next.pair]
<1>2. /\ s \in Session /\ s # None /\ s.user = user /\ s.pair = next.pair
      /\ s.exp \in Nat /\ s.exp > now
  BY LoginAssumption DEF Session, Drawn, encode, LoginAssumption
<1>3. sessions' = [Kept EXCEPT ![id] = s]
  BY DEF SaveIn
<1> HIDE DEF s
<1>4. sessions' \in [SessionIds -> Session \cup {None}]
  BY <1>2, <1>3, KeptFacts
<1>5. stored' = [ids |-> stored.ids \cup {id}, pairs |-> stored.pairs \cup {next.pair}]
  BY DEF Storing
<1>6. StoreTypes'
  BY <1>4, <1>5 DEF SessionsOK, TypeOK, StoreTypes, Drawn
<1>7. Kept'[id] = s
  BY <1>1, <1>2, <1>3, <1>4, KeptFacts DEF Kept
<1>8. ASSUME NEW j \in SessionIds \ {id} PROVE Kept'[j] = Kept[j]
  <2>1. sessions'[j] = Kept[j]
    BY <1>3, KeptFacts
  <2> QED
    BY <1>1, <2>1 DEF Kept
<1> QED
  BY <1>1, <1>2, <1>5, <1>6, <1>7, <1>8 DEF Puts, Held, Owner

LEMMA MemoryGetLawful ==
  ASSUME SessionsOK, NEW p \in Procs, MemoryGet(p)
  PROVE  Lawful(p)
<1>0. /\ procs[p].pc = "get" /\ ~isRedis /\ procs[p].cont = "verify" /\ SessionUnchanged
      /\ procs[p].pc \in TokenSteps /\ sessions' = Kept /\ UNCHANGED <<locator, hash, stored>>
  BY DEF MemoryGet, TokenSteps
<1>1. PICK id \in SessionIds : id = procs[p].req.token.id
  BY <1>0, TokenFacts
<1>2. Shrinks /\ (Kept[id] = None => Held(id)' = None) /\ UNCHANGED <<now, isProbing>>
  BY <1>0, KeptFacts, MemoryLoses, RiskApart
<1>3. CASE Kept[id] = None /\ Judged(p)
  BY <1>0, <1>1, <1>2, <1>3, TokenFacts, EndsJudged
<1>4. CASE Kept[id] # None /\ Present(p, Kept[id].user, Kept[id])
  <2>1. PICK user \in Users, content \in {Kept[id]} : user = Kept[id].user
    BY <1>4, KeptFacts DEF Session
  <2>2. Present(p, user, content)
    BY <1>4, <2>1
  <2> QED
    BY <1>0, <1>2, <2>2, PresentLawful
<1> QED
  BY <1>1, <1>3, <1>4 DEF MemoryGet

LEMMA MemoryRotateRefreshLawful ==
  ASSUME SessionsOK, NEW p \in Procs, MemoryRotateRefresh(p)
  PROVE  Lawful(p)
<1>0. /\ procs[p].pc = "get" /\ ~isRedis /\ procs[p].cont = "rotate" /\ SessionUnchanged
      /\ procs[p].pc \in TokenSteps /\ UNCHANGED <<locator, hash>> /\ Rotating(p)
  BY DEF MemoryRotateRefresh, TokenSteps, Rotating
<1>1. PICK id \in SessionIds : id = procs[p].req.token.id
  BY <1>0, TokenFacts
<1>n. procs[p].next # None /\ procs[p].next.id = id
  BY <1>0, <1>1 DEF SessionsOK, GoroutineOK, DrawnForItself
<1>2. PICK next \in Drawn : next = procs[p].next
  BY <1>n, GoroutineFacts DEF SessionsOK
<1>u. UNCHANGED <<now, isRedis, isProbing>> /\ isProbing' \in BOOLEAN
  BY <1>0, RiskApart
<1>3. ASSUME sessions' = Kept, UNCHANGED stored
      PROVE  Shrinks /\ (Kept[id] = None => Held(id)' = None)
  BY <1>0, <1>3, KeptFacts, MemoryLoses
<1>4. CASE Failed(p) /\ UNCHANGED <<sessions, stored>>
  <2>1. Shrinks
    BY <1>0, <1>u, <1>4, Untouched DEF SessionsOK
  <2> QED
    BY <1>u, <1>4, <2>1, EndsUnjudged DEF Failed, Effect
<1>5. CASE Kept[id] = None /\ Judged(p) /\ sessions' = Kept /\ UNCHANGED stored
  BY <1>0, <1>1, <1>u, <1>3, <1>5, TokenFacts, EndsJudged
<1>6. CASE Read(p, "revoke") /\ sessions' = Kept /\ UNCHANGED stored
  BY <1>0, <1>u, <1>3, <1>6, GoesToRevoke
<1>7. CASE /\ encode(next) /\ Kept[id] # None
           /\ checkClaims(procs[p].req.token, Kept[id])
           /\ sessions' = SaveIn(Kept, id, Kept[id].user, next)
           /\ Storing(next) /\ Step(p, "commit", None)
  <2>1. PICK user \in Users : user = Kept[id].user
    BY <1>7, KeptFacts DEF Session
  <2>2. sessions' = SaveIn(Kept, id, user, next)
    BY <1>7, <2>1
  <2>3. Puts(id, user, next)
    BY <1>0, <1>n, <1>2, <1>7, <2>2, MemoryPuts
  <2>4. Held(id) # None /\ Owner(id) = user /\ Held(id).pair = procs[p].req.token.pair
    BY <1>0, <1>7, <2>1 DEF Held, Owner, checkClaims
  <2>5. Rotates(p)
    BY <1>0, <1>1, <1>2, <2>3, <2>4 DEF Rotates
  <2> QED
    BY <1>u, <1>7, <2>5, GoesToCommit
<1> QED
  BY <1>1, <1>2, <1>4, <1>5, <1>6, <1>7 DEF MemoryRotateRefresh

LEMMA MemoryRevokeLawful ==
  ASSUME SessionsOK, NEW p \in Procs, MemoryRevoke(p)
  PROVE  Lawful(p)
<1>0. /\ procs[p].pc = "get" /\ ~isRedis /\ SessionUnchanged /\ Judged(p)
      /\ procs[p].pc \in TokenSteps /\ UNCHANGED <<locator, hash, stored>>
  BY DEF MemoryRevoke, TokenSteps
<1>1. PICK id \in SessionIds : id = procs[p].req.token.id
  BY <1>0, TokenFacts
<1>2. sessions' = [sessions EXCEPT ![id] = None]
  BY <1>1 DEF MemoryRevoke
<1>3. /\ sessions' \in [SessionIds -> Session \cup {None}] /\ sessions'[id] = None
      /\ \A j \in SessionIds : sessions'[j] \in {None, sessions[j]}
  BY <1>2 DEF SessionsOK, TypeOK
<1>4. Shrinks /\ Held(id)' = None
  BY <1>0, <1>3, MemoryLoses
<1> QED
  BY <1>0, <1>1, <1>4, TokenFacts, RiskApart, EndsJudged

LEMMA MemorySaveLawful ==
  ASSUME SessionsOK, NEW p \in Procs, MemorySave(p)
  PROVE  Lawful(p)
<1>0. procs[p].pc = "save" /\ ~isRedis /\ SessionUnchanged /\ UNCHANGED <<locator, hash>>
  BY DEF MemorySave
<1>1. PICK next \in Drawn, id \in SessionIds, user \in Users :
        next = procs[p].next /\ id = next.id /\ user = procs[p].req.account
  BY <1>0, SaveFacts
<1>u. UNCHANGED <<now, isRedis, isProbing>> /\ isProbing' \in BOOLEAN
  BY <1>0, RiskApart
<1>2. CASE Failed(p) /\ UNCHANGED <<sessions, stored>>
  <2>1. Shrinks
    BY <1>0, <1>u, <1>2, Untouched DEF SessionsOK
  <2> QED
    BY <1>u, <1>2, <2>1, EndsUnjudged DEF Failed, Effect
<1>3. CASE /\ encode(next) /\ sessions' = SaveIn(Kept, id, user, next)
           /\ Storing(next) /\ Step(p, "commit", None)
  <2>1. Puts(id, user, next)
    BY <1>0, <1>1, <1>3, MemoryPuts
  <2>2. Saves(p)
    BY <1>0, <1>1, <2>1 DEF Saves
  <2> QED
    BY <1>u, <1>3, <2>2, GoesToCommit
<1> QED
  BY <1>1, <1>2, <1>3 DEF MemorySave

LEMMA MemoryRevokeUsersLawful ==
  ASSUME SessionsOK, NEW p \in Procs, MemoryRevokeUsers(p)
  PROVE  Lawful(p)
<1>0. /\ procs[p].pc = "revokeUsers" /\ ~isRedis /\ SessionUnchanged /\ Judged(p)
      /\ UNCHANGED <<locator, hash, stored>>
  BY DEF MemoryRevokeUsers
<1>1. procs[p].req.kind = "revokeUsers"
  BY <1>0 DEF SessionsOK, GoroutineOK, RequestFits, Revocations
<1>2. sessions' = [id \in SessionIds |->
        IF Kept[id] # None /\ Kept[id].user = procs[p].req.account THEN None ELSE Kept[id]]
  BY DEF MemoryRevokeUsers
<1>3. /\ sessions' \in [SessionIds -> Session \cup {None}]
      /\ \A j \in SessionIds : sessions'[j] \in {None, Kept[j]}
  BY <1>2, KeptFacts
<1>4. Shrinks
  BY <1>0, <1>3, MemoryLoses
<1> QED
  BY <1>0, <1>1, <1>4, RiskApart, EndsJudged

-----------------------------------------------------------------------------
(* Drawing a pair, committing, and the requests.                           *)

\* The goroutine changes and nothing of the sessions or the tokens does.
LEMMA Unseen ==
  ASSUME SessionsOK, UNCHANGED <<now, isRedis, storeVars, tokens, uses>>
  PROVE  /\ Shrinks /\ tokens' \in SUBSET Issued /\ uses' \in [Pairs -> Nat]
         /\ \A p \in Procs : Effect(p) /\ Issues(p)
<1>1. Shrinks
  BY Untouched DEF SessionsOK, storeVars
<1> QED
  BY <1>1 DEF SessionsOK, TypeOK, Effect, Issues

LEMMA DrawLawful ==
  ASSUME SessionsOK, NEW p \in Procs, NEW id \in SessionIds, Draw(p, id),
         UNCHANGED <<storeVars, faults, uses, tokens>>, SessionUnchanged,
         \/ procs[p].pc = "resolve" /\ id = procs[p].req.token.id
         \/ /\ procs[p].pc = "issueLogin" /\ id \notin stored.ids
            /\ \A q \in {r \in Procs : procs[r].next # None} : procs[q].next.id # id
  PROVE  Lawful(p)
<1>u. UNCHANGED <<now, isRedis, isProbing>> /\ isProbing' \in BOOLEAN
  BY RiskApart
<1>v. /\ Shrinks /\ tokens' \in SUBSET Issued /\ uses' \in [Pairs -> Nat]
      /\ Effect(p) /\ Issues(p)
  BY <1>u, Unseen
<1>g. procs[p] \in Goroutine /\ GoroutineOK(p)
  BY GoroutineFacts DEF SessionsOK
<1>d. drawn \in Pairs /\ drawn' = drawn + 1 /\ drawn' \in Pairs /\ drawn \in Nat /\ drawn' \in Nat
  BY LoginAssumption DEF Draw, SessionsOK, TypeOK, Pairs, LoginAssumption
<1> DEFINE next == [exp |-> now + RefreshTTL, pair |-> drawn + 1, id |-> id, at |-> now]
           pc == IF procs[p].pc = "resolve" THEN "get" ELSE "save"
           g == [procs[p] EXCEPT !.next = next, !.pc = pc, !.cont = "rotate"]
<1>1. next \in Drawn /\ next # None /\ next.id = id /\ next.pair = drawn'
  BY <1>d, LoginAssumption DEF Drawn, SessionsOK, TypeOK, LoginAssumption
<1>2. pc \in Steps
  BY DEF Steps, LoginSteps, TokenSteps
<1>3. procs' = [procs EXCEPT ![p] = g]
  BY DEF Draw, SessionsOK, TypeOK
<1> HIDE DEF next
<1>4. /\ g \in Goroutine /\ g.next = next /\ g.pc = pc /\ g.cont = "rotate"
      /\ g.req = procs[p].req /\ g.reply = procs[p].reply
  <2> HIDE DEF pc
  <2> QED
    BY <1>g, <1>1, <1>2 DEF Goroutine
<1> HIDE DEF g
<1>5. Only(p) /\ procs'[p] = g
  BY <1>3, <1>4, OnlyOne DEF SessionsOK
<1>6. stored' = stored /\ \A n \in stored.pairs : n < drawn' /\ n \in Nat
  <2>1. \A n \in stored.pairs : n <= drawn /\ n \in Nat
    BY LoginAssumption DEF SessionsOK, TokensReal, TypeOK, Pairs, LoginAssumption
  <2> QED
    BY <1>d, <2>1 DEF storeVars
<1>7. RequestFits(p)'
  <2>1. CASE procs[p].pc = "resolve"
    BY <2>1, <1>4, <1>5, <1>g
    DEF RequestFits, GoroutineOK, TokenSteps, ReadingSteps
  <2>2. CASE procs[p].pc = "issueLogin"
    BY <2>2, <1>4, <1>5, <1>g
    DEF RequestFits, GoroutineOK, TokenSteps, ReadingSteps
  <2> QED
    BY <2>1, <2>2
<1>8. DrawnForItself(p)'
  BY <1>1, <1>4, <1>5, <1>6, <1>g DEF DrawnForItself, Rotating, GoroutineOK, RequestFits
<1>9. DrawnIsNew(p)'
  BY <1>1, <1>4, <1>5, <1>6, <1>d DEF DrawnIsNew, SessionsOK, TokensReal
<1>10. ReadsHold(p)'
  BY <1>4, <1>5 DEF ReadsHold, ReadingSteps
<1>11. RepliesFit(p)'
  BY <1>4, <1>5, <1>g DEF RepliesFit, GoroutineOK, RiskSteps
<1>12. Draws(p)
  BY <1>1, <1>4, <1>5, <1>d DEF Draws
<1>13. Spends(p)
  BY <1>4, <1>5 DEF Spends
<1> QED
  BY <1>u, <1>v, <1>5, <1>7, <1>8, <1>9, <1>10, <1>11, <1>12, <1>13 DEF Lawful, GoroutineOK

LEMMA ResolveLawful ==
  ASSUME SessionsOK, NEW p \in Procs, Resolve(p)
  PROVE  Lawful(p)
<1>0. /\ procs[p].pc = "resolve" /\ procs[p].pc \in TokenSteps /\ SessionUnchanged
      /\ UNCHANGED <<storeVars, faults, uses, tokens>>
  BY DEF Resolve, TokenSteps
<1>1. PICK id \in SessionIds : id = procs[p].req.token.id
  BY <1>0, TokenFacts
<1>2. CASE Finish(p) /\ UNCHANGED drawn
  BY <1>0, <1>2, RiskApart, Unseen, EndsUnjudged
<1>3. CASE Draw(p, id)
  BY <1>0, <1>1, <1>3, DrawLawful
<1> QED
  BY <1>1, <1>2, <1>3 DEF Resolve

LEMMA IssueLoginLawful ==
  ASSUME SessionsOK, NEW p \in Procs, IssueLogin(p)
  PROVE  Lawful(p)
<1>0. /\ procs[p].pc = "issueLogin" /\ SessionUnchanged
      /\ UNCHANGED <<storeVars, faults, uses, tokens>>
  BY DEF IssueLogin
<1>1. CASE Finish(p) /\ UNCHANGED drawn
  BY <1>0, <1>1, RiskApart, Unseen, EndsUnjudged
<1>2. ASSUME NEW id \in SessionIds \ stored.ids, Draw(p, id),
             \A q \in {r \in Procs : procs[r].next # None} : procs[q].next.id # id
      PROVE  Lawful(p)
  BY <1>0, <1>2, DrawLawful
<1> QED
  BY <1>1, <1>2 DEF IssueLogin

LEMMA CommitLawful ==
  ASSUME SessionsOK, NEW p \in Procs, Commit(p)
  PROVE  Lawful(p)
<1>0. procs[p].pc = "commit" /\ SessionUnchanged /\ UNCHANGED storeVars
  BY DEF Commit
<1>u. UNCHANGED <<now, isRedis, isProbing>> /\ isProbing' \in BOOLEAN
  BY <1>0, RiskApart
<1>v. Shrinks
  BY <1>0, <1>u, Untouched DEF storeVars, SessionsOK
<1>g. RequestFits(p) /\ DrawnForItself(p)
  BY DEF SessionsOK, GoroutineOK
<1>1. CASE Failed(p)
  BY <1>u, <1>v, <1>1, EndsUnjudged DEF Failed, Effect
<1>2. CASE ~Failed(p)
  <2>1. PICK next \in Drawn : next = procs[p].next /\ next # None
    BY <1>0, <1>g, GoroutineFacts DEF DrawnForItself, SessionsOK
  <2>2. /\ Finish(p) /\ UNCHANGED drawn
        /\ uses' = IF procs[p].req.kind = "refresh"
                   THEN [uses EXCEPT ![procs[p].req.token.pair] = uses[procs[p].req.token.pair] + 1]
                   ELSE uses
        /\ tokens' = tokens \cup {Token(next.id, next.pair, next.at, TRUE),
                                  Token(next.id, next.pair, next.at, FALSE)}
    <3>1. uses \in [Pairs -> Nat]
      BY DEF SessionsOK, TypeOK
    <3> QED
      BY <1>2, <2>1, <3>1 DEF Commit
  <2>3. Only(p) /\ procs'[p] = Idle
    BY <2>2, FinishShape DEF SessionsOK
  <2>4. procs'[p].pc = "idle" /\ procs'[p].next = None
    BY <2>3, IdleFacts
  <2>5. \A b \in BOOLEAN : /\ Token(next.id, next.pair, next.at, b) \in Issued
                           /\ Token(next.id, next.pair, next.at, b).id = next.id
                           /\ Token(next.id, next.pair, next.at, b).pair = next.pair
    BY DEF Token, Issued, Drawn
  <2>6. tokens' \in SUBSET Issued /\ Issues(p)
    <3>1. \A t \in tokens' : t \in tokens \/ \E b \in BOOLEAN : t = Token(next.id, next.pair, next.at, b)
      BY <2>2
    <3>2. tokens \subseteq tokens' /\ tokens \in SUBSET Issued
      BY <2>2 DEF SessionsOK, TypeOK
    <3>3. \A t \in tokens' \ tokens : t \in Issued /\ t.id = next.id /\ t.pair = next.pair
      BY <2>5, <3>1
    <3>4. tokens' \in SUBSET Issued
      BY <3>2, <3>3
    <3>5. Issues(p)
      BY <1>0, <2>1, <3>2, <3>3 DEF Issues
    <3> QED
      BY <3>4, <3>5
  <2>7. /\ procs[p].req \in TokenRequests =>
             procs[p].req.kind = "refresh" /\ procs[p].req.token.pair \in Pairs
        /\ procs[p].req \notin TokenRequests => procs[p].req.kind # "refresh"
    BY <1>0, <1>g, GoroutineFacts
    DEF RequestFits, DrawnForItself, Rotating, SessionsOK, TokenRequests, Issued
  <2>8. uses' \in [Pairs -> Nat] /\ Spends(p)
    <3>1. uses \in [Pairs -> Nat]
      BY DEF SessionsOK, TypeOK
    <3>2. CASE procs[p].req \in TokenRequests
      <4>1. uses' = [uses EXCEPT ![procs[p].req.token.pair] = uses[procs[p].req.token.pair] + 1]
        BY <2>2, <2>7, <3>2
      <4>2. uses' \in [Pairs -> Nat]
        BY <2>7, <3>1, <3>2, <4>1
      <4> QED
        BY <1>0, <1>v, <2>4, <3>2, <4>1, <4>2 DEF Spends
    <3>3. CASE procs[p].req \notin TokenRequests
      BY <1>0, <1>v, <2>2, <2>4, <2>7, <3>1, <3>3 DEF Spends
    <3> QED
      BY <3>2, <3>3
  <2>9. Draws(p)
    BY <2>2, <2>4, LoginAssumption DEF Draws, SessionsOK, TypeOK, Pairs, LoginAssumption
  <2> QED
    BY <1>u, <1>v, <2>3, <2>6, <2>8, <2>9, IdleIsFine DEF Lawful, Effect
<1> QED
  BY <1>1, <1>2

\* A step within the login: the request and the drawn pair stay.
LEMMA LoginStepLawful ==
  ASSUME SessionsOK, NEW p \in Procs, UNCHANGED <<now, isRedis, storeVars, drawn, tokens, uses>>,
         Only(p), isProbing' \in BOOLEAN, procs[p].pc # "commit",
         procs'[p].pc \in RiskSteps \cup {"candidate", "issueLogin"},
         procs'[p].next = procs[p].next, RequestFits(p)', RepliesFit(p)'
  PROVE  Lawful(p)
<1>1. procs'[p].pc \notin ReadingSteps \cup {"get", "save", "commit"}
  BY DEF RiskSteps, ReadingSteps
<1>2. DrawnForItself(p)' /\ ReadsHold(p)'
  BY <1>1 DEF DrawnForItself, Rotating, ReadsHold, ReadingSteps
<1>3. DrawnIsNew(p)'
  BY DEF SessionsOK, GoroutineOK, DrawnIsNew, storeVars
<1>4. Draws(p)
  BY <1>1, LoginAssumption DEF Draws, SessionsOK, TypeOK, Pairs, LoginAssumption
<1>5. Spends(p)
  BY <1>1 DEF Spends
<1> QED
  BY <1>2, <1>3, <1>4, <1>5, Unseen DEF Lawful, GoroutineOK

LEMMA EndsAlone ==
  ASSUME SessionsOK, NEW p \in Procs, UNCHANGED <<now, isRedis, storeVars, drawn, tokens, uses>>,
         Finish(p), isProbing' \in BOOLEAN
  PROVE  Lawful(p) /\ procs'[p].reply = None
  BY Unseen, EndsUnjudged, FinishShape, IdleFacts DEF SessionsOK

LEMMA AfterLawful ==
  ASSUME SessionsOK, NEW p \in Procs, UNCHANGED <<now, isRedis, storeVars, drawn, tokens, uses>>,
         isProbing' \in BOOLEAN, procs[p].pc \in RiskSteps, NEW res,
         procs' = [procs EXCEPT ![p] = After(procs[p], res)]
  PROVE  Lawful(p) /\ procs'[p].reply = None
<1>1. procs[p] \in Goroutine /\ RequestFits(p)
  BY GoroutineFacts DEF SessionsOK, GoroutineOK
<1> DEFINE g == After(procs[p], res)
<1>2. /\ g \in Goroutine
      /\ g.reply = None
      /\ \/ g = Idle
         \/ /\ g.req = procs[p].req /\ g.next = procs[p].next
            /\ \/ procs[p].pc = "allowCaptcha" /\ g.pc = "saveCaptcha"
               \/ procs[p].pc = "allowLogin" /\ g.pc = "consumeCaptcha"
               \/ procs[p].pc = "consumeCaptcha" /\ g.pc = "candidate"
               \/ procs[p].pc = "clearLoginFailure" /\ g.pc = "issueLogin"
  BY <1>1, AfterFacts
<1> HIDE DEF g
<1>3. Only(p) /\ procs'[p] = g
  <2>1. procs' = [procs EXCEPT ![p] = g]
    BY DEF g
  <2> QED
    BY <1>2, <2>1, OnlyOne DEF SessionsOK
<1>4. CASE g = Idle
  <2>1. Finish(p)
    BY <1>4 DEF Finish, g
  <2> QED
    BY <2>1, EndsAlone
<1>5. CASE g # Idle
  <2>1. g.pc \in {"saveCaptcha", "consumeCaptcha", "candidate", "issueLogin"}
    BY <1>2, <1>5
  <2>2. RequestFits(p)'
    BY <1>1, <1>2, <1>3, <1>5, <2>1 DEF RequestFits, TokenSteps, ReadingSteps
  <2>3. RepliesFit(p)'
    BY <1>2, <1>3 DEF RepliesFit
  <2>4. procs[p].pc # "commit" /\ procs'[p].pc \in RiskSteps \cup {"candidate", "issueLogin"}
    BY <1>3, <2>1 DEF RiskSteps
  <2> QED
    BY <1>2, <1>3, <1>5, <2>2, <2>3, <2>4, LoginStepLawful
<1> QED
  BY <1>4, <1>5

\* Redis was asked: the goroutine keeps what it got.
LEMMA ReplyLawful ==
  ASSUME SessionsOK, NEW p \in Procs, UNCHANGED <<now, isRedis, storeVars, drawn, tokens, uses>>,
         isProbing' \in BOOLEAN, procs[p].pc \in RiskSteps, isRedis,
         NEW a \in Attempt, a.got = "local" => ~a.isProbe,
         procs' = [procs EXCEPT ![p].reply = a]
  PROVE  Lawful(p) /\ procs'[p].reply = a /\ a # None
<1>1. procs[p] \in Goroutine /\ RequestFits(p)
  BY GoroutineFacts DEF SessionsOK, GoroutineOK
<1> DEFINE g == [procs[p] EXCEPT !.reply = a]
<1>2. /\ g \in Goroutine /\ g.reply = a /\ g.pc = procs[p].pc /\ g.req = procs[p].req
      /\ g.next = procs[p].next /\ g.cont = procs[p].cont
  BY <1>1 DEF Goroutine, Replies
<1>3. procs' = [procs EXCEPT ![p] = g]
  BY DEF SessionsOK, TypeOK
<1> HIDE DEF g
<1>4. Only(p) /\ procs'[p] = g
  BY <1>2, <1>3, OnlyOne DEF SessionsOK
<1>5. RequestFits(p)'
  BY <1>1, <1>2, <1>4 DEF RequestFits
<1>6. RepliesFit(p)'
  BY <1>2, <1>4 DEF RepliesFit
<1>7. procs[p].pc # "commit"
  BY DEF RiskSteps
<1>8. a # None
  BY LoginAssumption DEF LoginAssumption, Attempt, Results
<1> QED
  BY <1>2, <1>4, <1>5, <1>6, <1>7, <1>8, LoginStepLawful

LEMMA RedisResults ==
  ASSUME NEW op \in RiskSteps, NEW req
  PROVE  RedisOperation(op, req).res \in Results
<1> USE DEF Results
<1>1. \A c : allowCaptchaScript(redis, c, now).res \in Results
  BY DEF allowCaptchaScript, Answer
<1>2. \A c, k : saveCaptchaScript(redis, c, k, now).res \in Results
  BY DEF saveCaptchaScript, Answer
<1>3. \A k, b : useCaptchaScript(redis, k, b).res \in Results
  BY DEF useCaptchaScript, Answer
<1>4. \A c, a : allowLoginScript(redis, c, a, now).res \in Results
  BY DEF allowLoginScript, Answer
<1>5. \A a : recordLoginScript(redis, a, now).res \in Results
  BY DEF recordLoginScript, Answer
<1>6. \A a : clearLoginScript(redis, a).res \in Results
  BY DEF clearLoginScript, Answer
<1> QED
  BY <1>1, <1>2, <1>3, <1>4, <1>5, <1>6 DEF RedisOperation, RiskSteps

\* A step that leaves the flag alone, of a goroutine that was not probing.
LEMMA ProbeGoesOn ==
  ASSUME ProbeIsLive, NEW p \in Procs, Only(p), UNCHANGED isProbing,
         procs[p].reply = None \/ ~procs[p].reply.isProbe
  PROVE  ProbeIsLive'
  BY DEF ProbeIsLive, Only

-----------------------------------------------------------------------------
(* The steps of the risk control.                                          *)

LEMMA RiskAttemptLawful ==
  ASSUME SessionsOK, ProbeIsLive, NEW p \in Procs, RiskAttempt(p)
  PROVE  Lawful(p) /\ ProbeIsLive'
<1>0. /\ procs[p].pc \in RiskSteps /\ isRedis /\ procs[p].reply = None
      /\ isProbing' = (isProbing \/ IsProbe) /\ IsProbe \in BOOLEAN
      /\ UNCHANGED <<now, isRedis, storeVars, drawn, tokens, uses>>
  BY DEF RiskAttempt, RiskUnchanged, IsProbe
<1>1. isProbing' \in BOOLEAN /\ (~IsProbe => isProbing' = isProbing)
  BY <1>0 DEF SessionsOK, TypeOK
<1>2. PICK answer : answer = RedisOperation(procs[p].pc, procs[p].req)
  OBVIOUS
<1>3. answer.res \in Results /\ None \in Results
  BY <1>0, <1>2, RedisResults DEF Results
<1>4. \/ /\ IsProbe
         /\ procs' = [procs EXCEPT ![p].reply = [got |-> "ok", res |-> answer.res, isProbe |-> TRUE]]
      \/ ~IsProbe /\ procs' = [procs EXCEPT ![p] = After(procs[p], answer.res)]
      \/ Got(p, "error") \/ Got(p, "cancelled")
  BY <1>2 DEF RiskAttempt, Continue
<1>5. ASSUME NEW a \in Attempt, a.got # "local", a.isProbe = IsProbe,
             procs' = [procs EXCEPT ![p].reply = a]
      PROVE  Lawful(p) /\ ProbeIsLive'
  <2>1. Lawful(p) /\ procs'[p].reply = a /\ a # None
    BY <1>0, <1>1, <1>5, ReplyLawful
  <2>2. CASE IsProbe
    BY <1>5, <2>1, <2>2 DEF ProbeIsLive
  <2>3. CASE ~IsProbe
    BY <1>0, <1>1, <2>1, <2>3, ProbeGoesOn DEF Lawful
  <2> QED
    BY <2>1, <2>2, <2>3
<1>6. CASE /\ IsProbe
           /\ procs' = [procs EXCEPT ![p].reply = [got |-> "ok", res |-> answer.res, isProbe |-> TRUE]]
  <2>1. PICK a : a = [got |-> "ok", res |-> answer.res, isProbe |-> TRUE]
    OBVIOUS
  <2>2. a \in Attempt /\ a.got # "local" /\ a.isProbe = IsProbe
    BY <1>3, <1>6, <2>1 DEF Attempt, IsProbe
  <2> QED
    BY <1>5, <1>6, <2>1, <2>2
<1>7. CASE ~IsProbe /\ procs' = [procs EXCEPT ![p] = After(procs[p], answer.res)]
  <2>1. Lawful(p)
    BY <1>0, <1>1, <1>7, AfterLawful
  <2> QED
    BY <1>0, <1>1, <1>7, <2>1, ProbeGoesOn DEF Lawful
<1>8. ASSUME NEW got \in {"error", "cancelled"}, Got(p, got)
      PROVE  Lawful(p) /\ ProbeIsLive'
  <2>1. PICK a : a = [got |-> got, res |-> None, isProbe |-> IsProbe]
    OBVIOUS
  <2>2. a \in Attempt /\ a.got # "local" /\ a.isProbe = IsProbe
    BY <1>0, <1>3, <2>1 DEF Attempt
  <2>3. procs' = [procs EXCEPT ![p].reply = a]
    BY <1>8, <2>1 DEF Got
  <2> QED
    BY <1>5, <2>2, <2>3
<1> QED
  BY <1>4, <1>6, <1>7, <1>8

LEMMA RiskSettleLawful ==
  ASSUME SessionsOK, ProbeIsLive, NEW p \in Procs, RiskSettle(p)
  PROVE  Lawful(p) /\ ProbeIsLive'
<1>0. /\ procs[p].pc \in RiskSteps /\ procs[p].reply # None
      /\ UNCHANGED <<now, isRedis, storeVars, drawn, tokens, uses>>
  BY DEF RiskSettle, RiskUnchanged
<1>1. PICK a \in Attempt : a = procs[p].reply
  BY <1>0, GoroutineFacts DEF SessionsOK
<1>r. isRedis
  BY <1>0 DEF SessionsOK, GoroutineOK, RepliesFit
<1>b. isProbing \in BOOLEAN /\ a.isProbe \in BOOLEAN
  BY DEF SessionsOK, TypeOK, Attempt
<1>2. CASE /\ isProbing' = FALSE
           /\ procs' = [procs EXCEPT ![p] = After(procs[p], a.res)]
  BY <1>0, <1>2, AfterLawful DEF ProbeIsLive
<1>3. CASE cancelRedisProbe(a.isProbe) /\ Finish(p)
  <2>1. isProbing' = IF a.isProbe THEN FALSE ELSE isProbing
    BY <1>3 DEF cancelRedisProbe
  <2>2. Lawful(p)
    BY <1>0, <1>b, <1>3, <2>1, EndsAlone
  <2>3. CASE a.isProbe
    BY <2>1, <2>2, <2>3 DEF ProbeIsLive
  <2>4. CASE ~a.isProbe
    BY <1>1, <2>1, <2>2, <2>4, ProbeGoesOn DEF Lawful
  <2> QED
    BY <2>2, <2>3, <2>4
<1>4. CASE isProbing' = FALSE /\ Finish(p)
  BY <1>0, <1>4, EndsAlone DEF ProbeIsLive
<1>5. CASE /\ isProbing' = FALSE
           /\ procs' = [procs EXCEPT ![p].reply = [got |-> "local", res |-> None, isProbe |-> FALSE]]
  <2>1. PICK c : c = [got |-> "local", res |-> None, isProbe |-> FALSE]
    OBVIOUS
  <2>2. c \in Attempt /\ ~c.isProbe
    BY <2>1 DEF Attempt, Results
  <2> QED
    BY <1>0, <1>r, <1>5, <2>1, <2>2, ReplyLawful DEF ProbeIsLive
<1> QED
  BY <1>1, <1>2, <1>3, <1>4, <1>5 DEF RiskSettle, markRedisSuccess, markRedisFailure, Continue

LEMMA RiskLocalLawful ==
  ASSUME SessionsOK, ProbeIsLive, NEW p \in Procs, RiskLocal(p)
  PROVE  Lawful(p) /\ ProbeIsLive'
<1>0. /\ procs[p].pc \in RiskSteps /\ UNCHANGED isProbing
      /\ UNCHANGED <<now, isRedis, storeVars, drawn, tokens, uses>>
  BY DEF RiskLocal, RiskUnchanged
<1>1. isProbing' \in BOOLEAN
  BY <1>0 DEF SessionsOK, TypeOK
<1>2. procs[p].reply = None \/ ~procs[p].reply.isProbe
  <2>1. procs[p].reply # None => isRedis /\ (procs[p].reply.got = "local" => ~procs[p].reply.isProbe)
    BY DEF SessionsOK, GoroutineOK, RepliesFit
  <2> QED
    BY <2>1 DEF RiskLocal
<1>3. PICK answer : answer = MemoryOperation(procs[p].pc, procs[p].req)
  OBVIOUS
<1>4. Finish(p) \/ procs' = [procs EXCEPT ![p] = After(procs[p], answer.res)]
  BY <1>3 DEF RiskLocal, Continue
<1>5. Lawful(p)
  BY <1>0, <1>1, <1>4, EndsAlone, AfterLawful
<1> QED
  BY <1>0, <1>2, <1>5, ProbeGoesOn DEF Lawful

LEMMA CandidateLawful ==
  ASSUME SessionsOK, NEW p \in Procs, Candidate(p)
  PROVE  Lawful(p)
<1>0. /\ procs[p].pc = "candidate"
      /\ UNCHANGED <<now, isRedis, storeVars, drawn, tokens, uses, isProbing>>
  BY DEF Candidate, riskVars
<1>1. isProbing' \in BOOLEAN
  BY <1>0 DEF SessionsOK, TypeOK
<1>g. RequestFits(p) /\ RepliesFit(p)
  BY DEF SessionsOK, GoroutineOK
<1>2. CASE Finish(p)
  BY <1>0, <1>1, <1>2, EndsAlone
<1>3. CASE ~Finish(p)
  <2>1. PICK pc \in {"clearLoginFailure", "recordLoginFailure"} :
          Goto(p, pc) /\ (pc = "clearLoginFailure" => procs[p].req.password = "right")
    BY <1>3 DEF Candidate
  <2>2. pc \in Steps /\ pc \in RiskSteps
    BY DEF Steps, LoginSteps, RiskSteps
  <2>3. Only(p) /\ procs'[p].pc = pc /\ SameWork(p)
    BY <2>1, <2>2, GotoShape DEF SessionsOK
  <2>4. RequestFits(p)'
    BY <1>0, <1>g, <2>1, <2>3 DEF RequestFits, SameWork, TokenSteps, ReadingSteps
  <2>5. RepliesFit(p)'
    BY <1>0, <1>g, <2>3 DEF RepliesFit, SameWork, RiskSteps
  <2> QED
    BY <1>0, <1>1, <2>2, <2>3, <2>4, <2>5, LoginStepLawful DEF SameWork
<1> QED
  BY <1>2, <1>3

\* A request arrives at an idle goroutine.
LEMMA StartLawful ==
  ASSUME SessionsOK, NEW p \in Procs, NEW req \in Work,
         NEW pc \in {"allowCaptcha", "allowLogin", "get", "revokeUsers"}, Start(p, req, pc),
         pc = "allowLogin" => req \in LoginRequests,
         pc = "get" => req \in TokenRequests /\ req.token \in tokens,
         pc = "revokeUsers" => req \in Revocations
  PROVE  Lawful(p) /\ UNCHANGED isProbing /\ procs[p].pc = "idle"
<1>0. /\ procs[p].pc = "idle"
      /\ UNCHANGED <<now, isRedis, storeVars, drawn, tokens, uses, isProbing>>
  BY DEF Start, riskVars
<1>1. isProbing' \in BOOLEAN
  BY <1>0 DEF SessionsOK, TypeOK
<1> DEFINE g == [Idle EXCEPT !.pc = pc, !.req = req, !.cont = "verify"]
<1>2. pc \in Steps
  BY DEF Steps, LoginSteps, RiskSteps, TokenSteps
<1>3. /\ g \in Goroutine /\ g.pc = pc /\ g.req = req /\ g.cont = "verify"
      /\ g.next = None /\ g.reply = None
  BY <1>2 DEF Idle, Goroutine, Records, Replies
<1>4. procs' = [procs EXCEPT ![p] = g]
  BY DEF Start
<1> HIDE DEF g
<1>5. Only(p) /\ procs'[p] = g
  BY <1>3, <1>4, OnlyOne DEF SessionsOK
<1>6. RequestFits(p)'
  BY <1>0, <1>3, <1>5 DEF RequestFits, TokenSteps, ReadingSteps
<1>7. DrawnForItself(p)' /\ DrawnIsNew(p)' /\ RepliesFit(p)'
  BY <1>3, <1>5 DEF DrawnForItself, Rotating, DrawnIsNew, RepliesFit
<1>8. ReadsHold(p)'
  BY <1>3, <1>5 DEF ReadsHold, ReadingSteps
<1>9. Draws(p) /\ Spends(p)
  BY <1>0, <1>3, <1>5, LoginAssumption DEF Draws, Spends, SessionsOK, TypeOK, Pairs, LoginAssumption
<1> QED
  BY <1>0, <1>1, <1>5, <1>6, <1>7, <1>8, <1>9, Unseen DEF Lawful, GoroutineOK

LEMMA RequestLawful ==
  ASSUME SessionsOK, NEW p \in Procs, Request(p)
  PROVE  Lawful(p) /\ UNCHANGED isProbing /\ procs[p].pc = "idle"
<1>1. CASE RequestCaptcha(p)
  <2>1. PICK o \in Origins, k \in Captchas :
          Start(p, [client |-> ResolveClientIP(o), captcha |-> k, kind |-> "captcha"], "allowCaptcha")
    BY <1>1 DEF RequestCaptcha
  <2>2. [client |-> ResolveClientIP(o), captcha |-> k, kind |-> "captcha"] \in Work
    BY DEF Work, CaptchaRequests, Addresses
  <2> QED
    BY <2>1, <2>2, StartLawful
<1>2. CASE RequestLogin(p)
  <2>1. PICK o \in Origins, a \in Accounts, k \in Captchas, password \in {"right", "wrong"} :
          Start(p, [client |-> ResolveClientIP(o), captcha |-> k, isRight |-> TRUE, account |-> a,
                    password |-> IF a \in Users THEN password ELSE "wrong", kind |-> "login"],
                "allowLogin")
    BY <1>2 DEF RequestLogin
  <2>2. PICK req : req = [client |-> ResolveClientIP(o), captcha |-> k, isRight |-> TRUE, account |-> a,
                          password |-> IF a \in Users THEN password ELSE "wrong", kind |-> "login"]
    OBVIOUS
  <2>3. req \in LoginRequests /\ req \in Work
    BY <2>2 DEF Work, LoginRequests, Addresses
  <2> QED
    BY <2>1, <2>2, <2>3, StartLawful
<1>3. CASE RequestRevokeUsers(p)
  <2>1. PICK u \in Users : Start(p, [account |-> u, kind |-> "revokeUsers"], "revokeUsers")
    BY <1>3 DEF RequestRevokeUsers
  <2>2. [account |-> u, kind |-> "revokeUsers"] \in Revocations
    BY DEF Revocations
  <2> QED
    BY <2>1, <2>2, StartLawful DEF Work
<1>4. ASSUME NEW kind \in {"refresh", "access", "logout"}, RequestWithToken(p, kind)
      PROVE  Lawful(p) /\ UNCHANGED isProbing /\ procs[p].pc = "idle"
  <2>1. PICK t \in tokens : Start(p, [token |-> t, kind |-> kind], "get")
    BY <1>4 DEF RequestWithToken
  <2>2. PICK req : req = [token |-> t, kind |-> kind]
    OBVIOUS
  <2>3. req \in TokenRequests /\ req.token \in tokens /\ req \in Work
    BY <2>2 DEF TokenRequests, SessionsOK, TypeOK, Work
  <2> QED
    BY <2>1, <2>2, <2>3, StartLawful
<1> QED
  BY <1>1, <1>2, <1>3, <1>4 DEF Request

-----------------------------------------------------------------------------
(* The clock, and the invariant.                                           *)

LEMMA TickShrinks ==
  ASSUME SessionsOK, Tick
  PROVE  /\ Shrinks /\ now' = now + 1 /\ now \in Nat
         /\ \A id \in SessionIds : locator'[id] # None => locator'[id].exp > now'
<1>1. now' = now + 1 /\ now \in Nat /\ UNCHANGED <<isRedis, sessions, stored>>
  BY DEF Tick, SessionsOK, TypeOK
<1>2. /\ locator \in [SessionIds -> Located \cup {None}]
      /\ hash \in [Users -> [exp : Nat, fields : [SessionIds -> Content \cup {None}]]]
  BY DEF SessionsOK, TypeOK
<1>3. /\ locator' = [id \in SessionIds |->
                       IF locator[id] # None /\ locator[id].exp <= now + 1 THEN None ELSE locator[id]]
      /\ hash' = [u \in Users |-> IF hash[u].exp <= now + 1 THEN NoSessionsOf ELSE hash[u]]
  BY DEF Tick
<1>4. /\ NoSessionsOf \in [exp : Nat, fields : [SessionIds -> Content \cup {None}]]
      /\ \A id \in SessionIds : NoSessionsOf.fields[id] = None
  BY DEF NoSessionsOf
<1>5. locator' \in [SessionIds -> Located \cup {None}]
  BY <1>2, <1>3
<1>6. hash' \in [Users -> [exp : Nat, fields : [SessionIds -> Content \cup {None}]]]
  BY <1>2, <1>3, <1>4
<1>7. StoreTypes'
  BY <1>1, <1>5, <1>6 DEF SessionsOK, TypeOK, StoreTypes
<1>8. \A id \in SessionIds : locator'[id] \in {None, locator[id]}
  BY <1>3
<1>9. \A id \in SessionIds, u \in Users : hash'[u].fields[id] \in {None, hash[u].fields[id]}
  BY <1>3, <1>4
<1>10. Shrinks
  <2>1. CASE isRedis
    BY <1>1, <1>7, <1>8, <1>9, <2>1, RedisShrinks DEF SessionsOK
  <2>2. CASE ~isRedis
    BY <1>1, <1>7, <1>8, <2>2, MemoryShrinks DEF SessionsOK
  <2> QED
    BY <2>1, <2>2 DEF SessionsOK, TypeOK
<1>11. \A id \in SessionIds : locator'[id] # None => locator'[id].exp > now'
  <2> SUFFICES ASSUME NEW id \in SessionIds, locator'[id] # None PROVE locator'[id].exp > now + 1
    BY <1>1
  <2>1. locator'[id] = locator[id] /\ ~(locator[id].exp <= now + 1) /\ locator[id] # None
    BY <1>3
  <2>2. locator[id].exp \in Nat
    BY <1>2, <2>1 DEF Located
  <2> QED
    BY <1>1, <2>1, <2>2
<1> QED
  BY <1>1, <1>10, <1>11

LEMMA TickLawful ==
  ASSUME SessionsOK, Tick
  PROVE  SessionsOK'
<1>t. UNCHANGED <<isRedis, stored, isProbing, procs, drawn, tokens, uses>>
  BY DEF Tick
<1>s. /\ Shrinks /\ now' = now + 1 /\ now \in Nat
      /\ \A id \in SessionIds : locator'[id] # None => locator'[id].exp > now'
  BY TickShrinks
<1>1. TypeOK'
  BY <1>t, <1>s DEF SessionsOK, TypeOK, Shrinks, StoreTypes
<1>2. LocatorsTrue'
  BY <1>s, ShrinkKeepsLocators DEF SessionsOK
<1>3. ASSUME NEW q \in Procs PROVE GoroutineOK(q)'
  <2>g. /\ RequestFits(q) /\ DrawnForItself(q) /\ DrawnIsNew(q) /\ ReadsHold(q) /\ RepliesFit(q)
    BY DEF SessionsOK, GoroutineOK
  <2>1. RequestFits(q)' /\ DrawnForItself(q)' /\ DrawnIsNew(q)' /\ RepliesFit(q)'
    BY <1>t, <2>g DEF RequestFits, DrawnForItself, Rotating, DrawnIsNew, RepliesFit
  <2>2. CASE procs[q].pc \notin ReadingSteps
    BY <1>t, <2>1, <2>2 DEF ReadsHold, ReadingSteps, GoroutineOK
  <2>3. CASE procs[q].pc \in ReadingSteps
    <3>1. procs[q].pc \in TokenSteps
      BY <2>3 DEF TokenSteps
    <3>2. PICK id \in SessionIds : id = procs[q].req.token.id
      BY <3>1, TokenFacts
    <3>3. PICK rec \in Known : rec = procs[q].rec
      BY <2>g, <2>3 DEF ReadsHold
    <3>4. /\ isRedis /\ UserOf(id) \in {None, rec.user}
          /\ procs[q].pc = "rotate" =>
               rec.content # None /\ rec.content.pair = procs[q].req.token.pair
          /\ procs[q].pc = "delSession" =>
               \/ Held(id) = None
               \/ Held(id) = rec.content /\ rec.content.exp <= now
          /\ procs[q].pc = "delLocator" => Held(id) = None
      BY <2>g, <2>3, <3>2, <3>3 DEF ReadsHold
    <3>5. Held(id)' \in {None, Held(id)} /\ UserOf(id)' \in {None, UserOf(id)} /\ isRedis'
      BY <1>s, <1>t, <3>4 DEF Shrinks, Owner
    <3>6. Held(id)' # None => Held(id)'.exp > now'
      <4>1. Held(id)' # None => locator'[id] # None
        BY <3>5 DEF Held, UserOf
      <4> QED
        BY <1>2, <1>s, <3>5, <4>1, SMTT(40) DEF LocatorsTrue
    <3>7. procs[q].pc = "delSession" =>
               \/ Held(id)' = None
               \/ Held(id)' = rec.content /\ rec.content.exp <= now'
      <4>1. rec.content # None => rec.content.exp \in Nat
        BY DEF Known, Content
      <4> QED
        BY <1>s, <3>4, <3>5, <4>1
    <3>8. procs'[q] = procs[q]
      BY <1>t
    <3>9. ReadsHold(q)'
      <4> SUFFICES /\ isRedis' /\ rec \in Known /\ UserOf(id)' \in {None, rec.user}
                   /\ procs[q].pc = "rotate" =>
                        /\ rec.content # None
                        /\ rec.content.pair = procs[q].req.token.pair
                        /\ Held(id)' = rec.content => rec.content.exp > now'
                   /\ procs[q].pc = "delSession" =>
                        \/ Held(id)' = None
                        \/ Held(id)' = rec.content /\ rec.content.exp <= now'
                   /\ procs[q].pc = "delLocator" => Held(id)' = None
        BY <3>2, <3>3, <3>8 DEF ReadsHold
      <4> QED
        BY <3>4, <3>5, <3>6, <3>7
    <3> QED
      BY <2>1, <3>9 DEF GoroutineOK
  <2> QED
    BY <2>2, <2>3
<1>4. DrawnDiffer' /\ TokensReal'
  BY <1>t DEF SessionsOK, DrawnDiffer, TokensReal
<1>5. PairsSpentOnce'
  <2>1. \A t \in tokens : Held(t.id)' \in {None, Held(t.id)}
    BY <1>s DEF SessionsOK, TypeOK, Issued, Shrinks
  <2>2. \A p \in Procs, n \in Pairs : Committing(p, n)' <=> Committing(p, n)
    BY <1>t DEF Committing
  <2>3. \A t \in tokens : t.pair \in Pairs
    BY DEF SessionsOK, TypeOK, Issued
  <2> QED
    BY <1>t, <2>1, <2>2, <2>3 DEF SessionsOK, PairsSpentOnce
<1> QED
  BY <1>1, <1>2, <1>3, <1>4, <1>5 DEF SessionsOK

\* The steps that do not belong to the risk control.
LEMMA ServeLawful ==
  ASSUME SessionsOK, ProbeIsLive, NEW p \in Procs, Serve(p)
  PROVE  Lawful(p) /\ ProbeIsLive'
<1>1. CASE RiskAttempt(p) \/ RiskSettle(p) \/ RiskLocal(p)
  BY <1>1, RiskAttemptLawful, RiskSettleLawful, RiskLocalLawful
<1>2. CASE \/ Candidate(p) \/ IssueLogin(p) \/ Resolve(p) \/ Commit(p)
           \/ ReadLocator(p) \/ ReadContent(p) \/ CleanUp(p)
           \/ Rotate(p) \/ Revoke(p) \/ Save(p) \/ RevokeUsers(p)
           \/ MemoryGet(p) \/ MemoryRotateRefresh(p) \/ MemoryRevoke(p)
           \/ MemorySave(p) \/ MemoryRevokeUsers(p)
  <2>1. Lawful(p)
    BY <1>2, CandidateLawful, IssueLoginLawful, ResolveLawful, CommitLawful, ReadLocatorLawful,
       ReadContentLawful, CleanUpLawful, RotateLawful, RevokeLawful, SaveLawful, RevokeUsersLawful,
       MemoryGetLawful, MemoryRotateRefreshLawful, MemoryRevokeLawful, MemorySaveLawful,
       MemoryRevokeUsersLawful, SMTT(40)
  <2>2. procs[p].pc \notin RiskSteps /\ UNCHANGED isProbing
    BY <1>2
    DEF Candidate, IssueLogin, Resolve, Commit, ReadLocator, ReadContent, CleanUp, Rotate, Revoke,
        Save, RevokeUsers, MemoryGet, MemoryRotateRefresh, MemoryRevoke, MemorySave,
        MemoryRevokeUsers, SessionUnchanged, riskVars, RiskSteps
  <2>3. procs[p].reply = None
    BY <2>2 DEF SessionsOK, GoroutineOK, RepliesFit
  <2> QED
    BY <2>1, <2>2, <2>3, ProbeGoesOn DEF Lawful
<1> QED
  BY <1>1, <1>2 DEF Serve

LEMMA InitOK == Init => Inv
<1> SUFFICES ASSUME Init PROVE Inv
  OBVIOUS
<1>0. PICK u \in Users, id \in SessionIds, content \in {[exp |-> RefreshTTL, pair |-> 1]} :
        /\ now = 1
        /\ isRedis \in BOOLEAN
        /\ locator = [i \in SessionIds |->
                        IF isRedis /\ i = id THEN [exp |-> content.exp, user |-> u] ELSE None]
        /\ hash = [v \in Users |->
                     IF isRedis /\ v = u
                     THEN [exp |-> content.exp,
                           fields |-> [i \in SessionIds |->
                                         IF i = id THEN content ELSE None]]
                     ELSE NoSessionsOf]
        /\ sessions = [i \in SessionIds |->
                         IF ~isRedis /\ i = id THEN [exp |-> content.exp, user |-> u, pair |-> 1] ELSE None]
        /\ isProbing = FALSE
        /\ procs = [p \in Procs |-> Idle]
        /\ drawn = 1
        /\ tokens = {Token(id, 1, 0, isRefresh) : isRefresh \in BOOLEAN}
        /\ stored = [ids |-> {id}, pairs |-> {1}]
        /\ uses = [n \in Pairs |-> 0]
  BY Zenon DEF Init
<1>c. content = [exp |-> RefreshTTL, pair |-> 1] /\ content.exp = RefreshTTL
  BY <1>0
<1>1. /\ now = 1
      /\ isRedis \in BOOLEAN
      /\ locator = [i \in SessionIds |->
                      IF isRedis /\ i = id THEN [exp |-> RefreshTTL, user |-> u] ELSE None]
      /\ hash = [v \in Users |->
                   IF isRedis /\ v = u
                   THEN [exp |-> RefreshTTL,
                         fields |-> [i \in SessionIds |->
                                       IF i = id THEN [exp |-> RefreshTTL, pair |-> 1] ELSE None]]
                   ELSE NoSessionsOf]
      /\ sessions = [i \in SessionIds |->
                       IF ~isRedis /\ i = id THEN [exp |-> RefreshTTL, user |-> u, pair |-> 1] ELSE None]
      /\ isProbing = FALSE
      /\ procs = [p \in Procs |-> Idle]
      /\ drawn = 1
      /\ tokens = {Token(id, 1, 0, isRefresh) : isRefresh \in BOOLEAN}
      /\ stored = [ids |-> {id}, pairs |-> {1}]
      /\ uses = [n \in Pairs |-> 0]
  BY <1>0, <1>c
<1>2. RefreshTTL \in Nat /\ 1 \in Pairs
  BY LoginAssumption DEF LoginAssumption, Pairs
<1>3. NoSessionsOf \in [exp : Nat, fields : [SessionIds -> Content \cup {None}]]
  BY DEF NoSessionsOf
<1>4. [exp |-> RefreshTTL, pair |-> 1] \in Content /\ [exp |-> RefreshTTL, user |-> u] \in Located
      /\ [exp |-> RefreshTTL, user |-> u, pair |-> 1] \in Session
  BY <1>2 DEF Content, Located, Session
<1>5. \A b \in BOOLEAN : /\ Token(id, 1, 0, b) \in Issued /\ Token(id, 1, 0, b).id = id
                         /\ Token(id, 1, 0, b).pair = 1
  BY <1>2 DEF Token, Issued
<1>6. tokens \in SUBSET Issued /\ \A t \in tokens : t.id = id /\ t.pair = 1
  BY <1>1, <1>5
<1>7. \A p \in Procs : procs[p] = Idle /\ procs[p].pc = "idle" /\ procs[p].next = None /\ procs[p].reply = None
  BY <1>1, IdleFacts
<1>8. TypeOK
  <2>1. locator \in [SessionIds -> Located \cup {None}]
    BY <1>1, <1>4
  <2>2. hash \in [Users -> [exp : Nat, fields : [SessionIds -> Content \cup {None}]]]
    BY <1>1, <1>2, <1>3, <1>4
  <2>3. sessions \in [SessionIds -> Session \cup {None}]
    BY <1>1, <1>4
  <2>4. procs \in [Procs -> Goroutine]
    BY <1>1, IdleFacts
  <2> QED
    BY <1>1, <1>2, <1>6, <2>1, <2>2, <2>3, <2>4 DEF TypeOK
<1>9. ASSUME NEW p \in Procs PROVE GoroutineOK(p)
  BY <1>7
  DEF GoroutineOK, RequestFits, DrawnForItself, Rotating, DrawnIsNew, ReadsHold, RepliesFit,
      TokenSteps, ReadingSteps
<1>10. DrawnDiffer /\ TokensReal /\ ProbeIsLive
  BY <1>1, <1>6, <1>7 DEF DrawnDiffer, TokensReal, ProbeIsLive
<1>11. LocatorsTrue
  <2> SUFFICES ASSUME isRedis, NEW i \in SessionIds, Held(i) # None PROVE Held(i).exp = locator[i].exp
    BY DEF LocatorsTrue
  <2>1. i = id
    BY <1>1 DEF Held, UserOf
  <2>2. UserOf(id) = u
    BY <1>1, <1>4, LoginAssumption DEF UserOf, LoginAssumption, Located
  <2> QED
    BY <1>1, <2>1, <2>2 DEF Held
<1>12. PairsSpentOnce
  BY <1>1, <1>2, <1>6, <1>7 DEF PairsSpentOnce, Committing
<1> QED
  BY <1>8, <1>9, <1>10, <1>11, <1>12 DEF Inv, SessionsOK

LEMMA NextOK == Inv /\ [Next]_vars => Inv'
<1> SUFFICES ASSUME Inv, [Next]_vars PROVE Inv'
  OBVIOUS
<1> USE DEF Inv
<1>1. CASE Tick
  <2>1. ProbeIsLive'
    BY <1>1 DEF Tick, ProbeIsLive
  <2> QED
    BY <1>1, <2>1, TickLawful
<1>2. ASSUME NEW p \in Procs, Request(p) PROVE Inv'
  <2>1. Lawful(p) /\ UNCHANGED isProbing /\ procs[p].pc = "idle"
    BY <1>2, RequestLawful
  <2>2. procs[p].reply = None
    BY <2>1 DEF SessionsOK, GoroutineOK, RepliesFit, RiskSteps
  <2> QED
    BY <2>1, <2>2, LawfulStep, ProbeGoesOn DEF Lawful
<1>3. ASSUME NEW p \in Procs, Serve(p) PROVE Inv'
  BY <1>3, ServeLawful, LawfulStep
<1>4. CASE UNCHANGED vars
  <2>1. /\ UNCHANGED <<now, isRedis, isProbing, procs, drawn, tokens, uses>>
        /\ UNCHANGED <<locator, hash, sessions, stored>>
    BY <1>4 DEF vars, storeVars, riskVars
  <2>2. \A id : Held(id)' = Held(id) /\ UserOf(id)' = UserOf(id)
    BY <2>1 DEF Held, UserOf, Kept
  <2>3. TypeOK' /\ DrawnDiffer' /\ TokensReal' /\ ProbeIsLive'
    BY <2>1 DEF SessionsOK, TypeOK, DrawnDiffer, TokensReal, ProbeIsLive
  <2>4. LocatorsTrue' /\ PairsSpentOnce'
    BY <2>1, <2>2 DEF SessionsOK, LocatorsTrue, PairsSpentOnce, Committing
  <2>5. ASSUME NEW p \in Procs PROVE GoroutineOK(p)'
    <3>1. GoroutineOK(p)
      BY DEF SessionsOK
    <3>2. RequestFits(p)' /\ DrawnForItself(p)' /\ DrawnIsNew(p)' /\ RepliesFit(p)'
      BY <2>1, <3>1
      DEF GoroutineOK, RequestFits, DrawnForItself, Rotating, DrawnIsNew, RepliesFit
    <3>3. ReadsHold(p)'
      BY <2>1, <2>2, <3>1 DEF GoroutineOK, ReadsHold
    <3> QED
      BY <3>2, <3>3 DEF GoroutineOK
  <2> QED
    BY <2>3, <2>4, <2>5 DEF SessionsOK
<1> QED
  BY <1>1, <1>2, <1>3, <1>4 DEF Next

THEOREM InvHolds == Spec => []Inv
  BY InitOK, NextOK, PTL DEF Spec

-----------------------------------------------------------------------------
(* The theorems.                                                           *)

\* Every variable of the sessions and goroutines keeps its type: in particular
\* no step stores a session for somebody who is no user.
THEOREM TypeCorrect == Spec => []TypeOK
  BY InvHolds, PTL DEF Inv, SessionsOK

\* The probing flag is set only while a goroutine is probing (execute of
\* risk/risk.go), for any number of goroutines, cancellations and failures.
THEOREM ProbesEnd == Spec => []ProbeIsLive
  BY InvHolds, PTL DEF Inv

\* A refresh token that was judged twice has ended its session (RefreshWith and
\* revokeReplay of auth/identity.go), whoever raced or failed in between.
THEOREM ReplaysEndSessions == Spec => []TheftDetected
<1>1. Inv => TheftDetected
  <2> SUFFICES ASSUME Inv, NEW t \in tokens, uses[t.pair] >= 2 PROVE Visible[t.id] = None
    BY DEF TheftDetected
  <2>1. t.id \in SessionIds /\ t.pair \in Pairs /\ uses \in [Pairs -> Nat]
    BY DEF Inv, SessionsOK, TypeOK, Issued
  <2>2. Held(t.id) = None
    BY <2>1 DEF Inv, SessionsOK, PairsSpentOnce
  <2> QED
    BY <2>1, <2>2 DEF Visible, Held
<1> QED
  BY <1>1, InvHolds, PTL

-----------------------------------------------------------------------------
(* Both stores implement the session store.                                *)

Snapshot(id) ==
  IF Held(id) = None THEN None ELSE [user |-> Owner(id), pair |-> Held(id).pair]

LEMMA VisibleIs == Visible = [id \in SessionIds |-> Snapshot(id)]
<1>1. \A id \in SessionIds :
        (IF isRedis
         THEN IF UserOf(id) = None THEN None
              ELSE IF hash[UserOf(id)].fields[id] = None THEN None
              ELSE [user |-> UserOf(id), pair |-> hash[UserOf(id)].fields[id].pair]
         ELSE IF Kept[id] = None THEN None
              ELSE [user |-> Kept[id].user, pair |-> Kept[id].pair]) = Snapshot(id)
  BY DEF Snapshot, Held, Owner
<1> QED
  BY <1>1 DEF Visible

LEMMA VisibleNext == Visible' = [id \in SessionIds |-> Snapshot(id)']
<1>1. \A id \in SessionIds :
        (IF isRedis
         THEN IF UserOf(id) = None THEN None
              ELSE IF hash[UserOf(id)].fields[id] = None THEN None
              ELSE [user |-> UserOf(id), pair |-> hash[UserOf(id)].fields[id].pair]
         ELSE IF Kept[id] = None THEN None
              ELSE [user |-> Kept[id].user, pair |-> Kept[id].pair])' = Snapshot(id)'
  BY DEF Snapshot, Held, Owner
<1> QED
  BY <1>1 DEF Visible

LEMMA SnapshotFacts ==
  ASSUME TypeOK, NEW id \in SessionIds, Held(id) # None
  PROVE  /\ Snapshot(id) = [user |-> Owner(id), pair |-> Held(id).pair]
         /\ Snapshot(id) # None /\ Snapshot(id).pair = Held(id).pair
         /\ Owner(id) \in Users /\ Held(id).pair \in Pairs
<1>1. Owner(id) \in Users /\ Held(id).pair \in Pairs
  BY HeldFacts
<1>2. [user |-> Owner(id), pair |-> Held(id).pair] # None
  BY <1>1, LoginAssumption DEF LoginAssumption
<1> QED
  BY <1>1, <1>2 DEF Snapshot

LEMMA ShrinkImplements ==
  ASSUME TypeOK, TypeOK', Shrinks
  PROVE  [Abstract!Next]_(Abstract!vars)
<1> DEFINE ended == {id \in SessionIds : Visible[id] # None /\ Visible'[id] = None}
<1>1. Visible = [id \in SessionIds |-> Snapshot(id)] /\ Visible' = [id \in SessionIds |-> Snapshot(id)']
  BY VisibleIs, VisibleNext
<1>2. \A id \in SessionIds : Visible'[id] \in {None, Visible[id]}
  BY <1>1 DEF Snapshot, Shrinks
<1>3. Visible' = [id \in SessionIds |-> IF id \in ended THEN None ELSE Visible[id]]
  BY <1>1, <1>2
<1>4. stored' = stored
  BY DEF Shrinks
<1>5. CASE ended = {}
  <2>1. Visible' = Visible
    BY <1>1, <1>3, <1>5
  <2> QED
    BY <1>4, <2>1 DEF Abstract!vars
<1>6. CASE ended # {}
  <2>1. PICK gone \in SUBSET SessionIds : gone = ended
    OBVIOUS
  <2>2. /\ \A id \in gone : Visible[id] # None
        /\ gone # {} /\ Visible' = [id \in SessionIds |-> IF id \in gone THEN None ELSE Visible[id]]
    BY <1>3, <1>6, <2>1
  <2>3. Abstract!Remove(gone)
    BY <1>4, <2>2 DEF Abstract!Remove
  <2> QED
    BY <2>3 DEF Abstract!Next
<1> QED
  BY <1>5, <1>6

LEMMA PutShows ==
  ASSUME TypeOK, TypeOK', NEW id \in SessionIds, NEW user \in Users, NEW next \in Drawn,
         Puts(id, user, next)
  PROVE  /\ Visible' = [Visible EXCEPT ![id] = [user |-> user, pair |-> next.pair]]
         /\ next.pair \in Pairs
<1>1. Visible = [j \in SessionIds |-> Snapshot(j)] /\ Visible' = [j \in SessionIds |-> Snapshot(j)']
  BY VisibleIs, VisibleNext
<1>2. Snapshot(id)' = [user |-> user, pair |-> next.pair]
  BY DEF Snapshot, Puts
<1>3. \A j \in SessionIds \ {id} : Snapshot(j)' = Snapshot(j)
  BY DEF Snapshot, Puts
<1> QED
  BY <1>1, <1>2, <1>3 DEF Drawn

LEMMA EffectImplements ==
  ASSUME SessionsOK, SessionsOK', NEW p \in Procs, Effect(p)
  PROVE  [Abstract!Next]_(Abstract!vars)
<1> USE DEF SessionsOK
<1>g. GoroutineOK(p)
  OBVIOUS
<1>1. CASE Shrinks
  BY <1>1, ShrinkImplements
<1>2. CASE Saves(p)
  <2>1. PICK id \in SessionIds, user \in Users, next \in Drawn :
          /\ procs[p].pc = "save" /\ procs[p].next = next /\ next.id = id
          /\ Puts(id, user, next)
    BY <1>2 DEF Saves
  <2>2. id \notin stored.ids /\ next.pair \notin stored.pairs
    BY <1>g, <2>1 DEF GoroutineOK, DrawnForItself, DrawnIsNew
  <2>3. PICK pair \in Pairs : pair = next.pair
    BY <2>1 DEF Drawn
  <2>4. /\ Visible' = [Visible EXCEPT ![id] = [user |-> user, pair |-> pair]]
        /\ stored' = [ids |-> stored.ids \cup {id}, pairs |-> stored.pairs \cup {pair}]
    BY <2>1, <2>3, PutShows DEF Puts
  <2>5. Abstract!Save(id, user, pair)
    BY <2>2, <2>3, <2>4 DEF Abstract!Save
  <2> QED
    BY <2>5 DEF Abstract!Next
<1>3. CASE Rotates(p)
  <2>1. PICK id \in SessionIds, user \in Users, next \in Drawn :
          /\ Rotating(p) /\ procs[p].pc \in {"get", "rotate"}
          /\ procs[p].next = next /\ procs[p].req.token.id = id
          /\ Held(id) # None /\ Owner(id) = user
          /\ Puts(id, user, next)
    BY <1>3 DEF Rotates
  <2>2. procs[p].pc \in TokenSteps
    BY <2>1 DEF TokenSteps, ReadingSteps
  <2>3. id \in stored.ids /\ next.pair \notin stored.pairs
    BY <1>g, <2>1, <2>2, TokenFacts DEF GoroutineOK, DrawnForItself, DrawnIsNew
  <2>4. PICK pair \in Pairs, old \in Pairs : pair = next.pair /\ old = Held(id).pair
    BY <2>1, SnapshotFacts DEF Drawn
  <2>5. Visible \in [SessionIds -> {Snapshot(j) : j \in SessionIds}] /\ Visible[id] = Snapshot(id)
    BY VisibleIs
  <2>6. Visible[id] = [user |-> user, pair |-> old] /\ Visible[id] # None
    BY <2>1, <2>4, <2>5, SnapshotFacts
  <2>7. Visible' = [Visible EXCEPT ![id] = [user |-> user, pair |-> pair]]
    BY <2>1, <2>4, PutShows
  <2>8. Visible' = [Visible EXCEPT ![id].pair = pair]
    <3>1. [Visible[id] EXCEPT !.pair = pair] = [user |-> user, pair |-> pair]
      BY <2>6
    <3> QED
      BY <2>5, <2>7, <3>1
  <2>9. stored' = [stored EXCEPT !.pairs = stored.pairs \cup {pair}]
    <3>1. stored' = [ids |-> stored.ids \cup {id}, pairs |-> stored.pairs \cup {pair}]
      BY <2>1, <2>4 DEF Puts
    <3>2. stored.ids \cup {id} = stored.ids
      BY <2>3
    <3>3. PICK ids \in SUBSET SessionIds, pairs \in SUBSET Pairs :
            stored = [ids |-> ids, pairs |-> pairs]
      BY DEF TypeOK
    <3> QED
      BY <3>1, <3>2, <3>3
  <2>10. Abstract!RotateRefresh(id, old, pair)
    BY <2>3, <2>4, <2>6, <2>8, <2>9 DEF Abstract!RotateRefresh
  <2> QED
    BY <2>10 DEF Abstract!Next
<1> QED
  BY <1>1, <1>2, <1>3 DEF Effect

LEMMA StepImplements ==
  ASSUME Inv, Inv', [Next]_vars
  PROVE  [Abstract!Next]_(Abstract!vars)
<1> USE DEF Inv
<1>1. CASE Tick
  BY <1>1, TickShrinks, ShrinkImplements DEF SessionsOK
<1>2. ASSUME NEW p \in Procs, Request(p) \/ Serve(p) PROVE [Abstract!Next]_(Abstract!vars)
  <2>1. Effect(p)
    BY <1>2, RequestLawful, ServeLawful DEF Lawful
  <2> QED
    BY <2>1, EffectImplements
<1>3. CASE UNCHANGED vars
  BY <1>3, Untouched, ShrinkImplements DEF vars, storeVars, SessionsOK
<1> QED
  BY <1>1, <1>2, <1>3 DEF Next

LEMMA InitImplements == Init => Abstract!Init
<1> SUFFICES ASSUME Init PROVE Abstract!Init
  OBVIOUS
<1>t. TypeOK
  BY InitOK DEF Inv, SessionsOK
<1>0. PICK u \in Users, id \in SessionIds, content \in {[exp |-> RefreshTTL, pair |-> 1]} :
        /\ now = 1
        /\ locator = [i \in SessionIds |->
                        IF isRedis /\ i = id THEN [exp |-> content.exp, user |-> u] ELSE None]
        /\ hash = [v \in Users |->
                     IF isRedis /\ v = u
                     THEN [exp |-> content.exp,
                           fields |-> [i \in SessionIds |-> IF i = id THEN content ELSE None]]
                     ELSE NoSessionsOf]
        /\ sessions = [i \in SessionIds |->
                         IF ~isRedis /\ i = id THEN [exp |-> content.exp, user |-> u, pair |-> 1] ELSE None]
        /\ stored = [ids |-> {id}, pairs |-> {1}]
  BY Zenon DEF Init
<1>1. content = [exp |-> RefreshTTL, pair |-> 1] /\ content.exp = RefreshTTL /\ content.pair = 1
  BY <1>0
<1>2. RefreshTTL \in Nat /\ RefreshTTL > 1 /\ 1 \in Pairs
  BY LoginAssumption, TokenConfig DEF LoginAssumption, JWTConfigValid, Pairs
<1>3. content # None
  BY <1>1, <1>2, LoginAssumption DEF LoginAssumption
<1>4. PICK l : l = [exp |-> RefreshTTL, user |-> u]
  OBVIOUS
<1>5. l # None /\ l.user = u
  BY <1>2, <1>4, LoginAssumption DEF LoginAssumption
<1>6. PICK s : s = [exp |-> RefreshTTL, user |-> u, pair |-> 1]
  OBVIOUS
<1>7. s # None /\ s.user = u /\ s.pair = 1 /\ s.exp = RefreshTTL
  BY <1>2, <1>6, LoginAssumption DEF LoginAssumption
<1>8. ASSUME NEW i \in SessionIds, i # id PROVE Snapshot(i) = None
  <2>1. locator[i] = None /\ sessions[i] = None
    BY <1>0, <1>8
  <2> QED
    BY <2>1 DEF Snapshot, Held, UserOf, Kept
<1>9. Snapshot(id) = [user |-> u, pair |-> 1]
  <2>1. CASE isRedis
    <3>1. locator[id] = l
      BY <1>0, <1>1, <1>4, <2>1
    <3>2. UserOf(id) = u
      BY <1>5, <3>1 DEF UserOf
    <3>3. u # None
      BY LoginAssumption DEF LoginAssumption
    <3>4. hash[u].fields[id] = content
      BY <1>0, <2>1
    <3>5. Held(id) = content /\ Owner(id) = u
      BY <2>1, <3>2, <3>3, <3>4 DEF Held, Owner
    <3> QED
      BY <1>1, <1>3, <3>5 DEF Snapshot
  <2>2. CASE ~isRedis
    <3>1. sessions[id] = s
      BY <1>0, <1>1, <1>6, <2>2
    <3>2. Kept[id] = s
      BY <1>0, <1>2, <1>7, <3>1 DEF Kept
    <3> QED
      BY <1>7, <2>2, <3>2 DEF Snapshot, Held, Owner
  <2> QED
    BY <1>t, <2>1, <2>2 DEF TypeOK
<1>10. PICK v : v = [user |-> u, pair |-> 1]
  OBVIOUS
<1>11. v # None /\ v.pair = 1 /\ v \in Abstract!Snapshot
  BY <1>2, <1>10, LoginAssumption DEF LoginAssumption, Abstract!Snapshot
<1>12. Visible = [i \in SessionIds |-> IF i = id THEN v ELSE None]
  BY <1>t, <1>8, <1>9, <1>10, VisibleIs
<1>13. Visible \in [SessionIds -> Abstract!Snapshot \cup {None}]
  BY <1>11, <1>12
<1>14. {i \in SessionIds : Visible[i] # None} = {id}
  BY <1>11, <1>12
<1>15. {Visible[j].pair : j \in {i \in SessionIds : Visible[i] # None}} = {1}
  BY <1>11, <1>12, <1>14
<1> QED
  BY <1>0, <1>13, <1>14, <1>15 DEF Abstract!Init

\* No interleaving, lost reply or expiry rotates a pair twice, moves a session
\* to another user or brings a revoked session back: RedisStore (auth/redis.go)
\* and MemoryStore (auth/store.go) implement the session store.
THEOREM StoresImplement == Spec => ImplementsSessionStore
<1>1. Init => Abstract!Init
  BY InitImplements
<1>2. Inv /\ Inv' /\ [Next]_vars => [Abstract!Next]_(Abstract!vars)
  BY StepImplements
<1> QED
  BY <1>1, <1>2, InvHolds, PTL DEF Spec, Abstract!Spec, ImplementsSessionStore

-----------------------------------------------------------------------------
(* How many passwords are guessed: the failures both backends keep.        *)

AccountEntry == [exp : Nat, failures : Nat, lock : Nat, last : Nat]

\* An account remembers its last failure for a window and is locked, from that
\* failure on, when there were too many.
EntryOK(e) ==
  e # Absent =>
    /\ e \in AccountEntry
    /\ e.last <= now /\ e.last + FailureWindow <= e.exp
    /\ e.lock <= e.exp
    /\ e.failures >= FailureLimit => e.lock > e.last

AccountsOK(accounts) ==
  /\ accounts \in [Accounts -> AccountEntry \cup {Absent}]
  /\ \A a \in Accounts : EntryOK(accounts[a])

Locked(e) == e # Absent /\ e.lock > now

Lapsed(e) == e = Absent \/ e.exp <= now

\* The fields the backends have.
MemoryShape(st) == st = [captchas |-> st.captchas, clients |-> st.clients, accounts |-> st.accounts]

RedisShape(st) ==
  st = [captcha |-> st.captcha, captchas |-> st.captchas, clients |-> st.clients,
        accounts |-> st.accounts, login |-> st.login]

\* The account's entry after one more failure.
Fails(e, f) ==
  /\ ~Locked(e)
  /\ EntryOK(f) /\ f # Absent /\ f.last = now
  /\ f.failures = IF e = Absent \/ now - e.last >= FailureWindow THEN 1 ELSE e.failures + 1

\* What an operation for the account a does to the accounts, and its answer.
AccountsStep(op, a, old, new, res) ==
  /\ \A x \in Accounts \ {a} : new[x] = old[x] \/ (new[x] = Absent /\ Lapsed(old[x]))
  /\ op = "recordLoginFailure" =>
       \/ new[a] = old[a] /\ Locked(old[a])
       \/ (new[a] = old[a] \/ (new[a] = Absent /\ Lapsed(old[a]))) /\ res # "allowed"
       \/ Fails(old[a], new[a])
  /\ op = "clearLoginFailure" => new[a] = Absent
  /\ op \notin {"recordLoginFailure", "clearLoginFailure"} =>
       new[a] = old[a] \/ (new[a] = Absent /\ Lapsed(old[a]))
  /\ op = "allowLogin" /\ res = "allowed" => ~Locked(new[a])

LEMMA LimitFacts ==
  /\ FailureLimit \in Nat \ {0} /\ FailureWindow \in Nat \ {0}
  /\ LockBase \in Nat \ {0} /\ LockMax \in Nat \ {0} /\ LockBase <= LockMax
  BY RiskConfig DEF ConfigValid

LEMMA AbsentIsNone == Absent \notin AccountEntry
  BY RiskAbsent DEF AccountEntry

\* A lock lasts, and not longer than LockMax.
LEMMA LockLasts ==
  ASSUME NEW failures \in Nat
  PROVE  riskLockDuration(failures) \in 1..LockMax
<1>1. PICK doubled : riskLockDuration(failures) = IF doubled \in LockBase..LockMax THEN doubled ELSE LockMax
  BY DEF riskLockDuration
<1> QED
  BY <1>1, LimitFacts

LEMMA FailedAgainFacts ==
  ASSUME now \in Nat, NEW e, EntryOK(e), ~Locked(e)
  PROVE  /\ Fails(e, FailedAgain(e, now))
         /\ FailedAgain(e, now) \in AccountEntry
<1> DEFINE failures == (IF e = Absent \/ now - e.last >= FailureWindow THEN 0 ELSE e.failures) + 1
           lock == IF failures >= FailureLimit THEN now + riskLockDuration(failures)
                   ELSE IF e = Absent THEN 0 ELSE e.lock
           exp == Max({now + FailureWindow, lock})
<1>1. failures \in Nat
  BY DEF EntryOK, AccountEntry
<1>2. riskLockDuration(failures) \in Nat \ {0}
  BY <1>1, LockLasts, LimitFacts
<1>3. lock \in Nat /\ (failures >= FailureLimit => lock > now)
  <2> HIDE DEF failures
  <2> QED
    BY <1>1, <1>2 DEF EntryOK, AccountEntry
<1>4. exp \in Nat /\ exp >= now + FailureWindow /\ exp >= lock
  <2> HIDE DEF lock
  <2> QED
    BY <1>3, LimitFacts DEF Max
<1>5. FailedAgain(e, now) = [exp |-> exp, failures |-> failures, lock |-> lock, last |-> now]
  BY DEF FailedAgain
<1> DEFINE f == [exp |-> exp, failures |-> failures, lock |-> lock, last |-> now]
<1>6. failures = IF e = Absent \/ now - e.last >= FailureWindow THEN 1 ELSE e.failures + 1
  BY DEF EntryOK, AccountEntry
<1> HIDE DEF failures, lock, exp
<1>7. f \in AccountEntry
  BY <1>1, <1>3, <1>4 DEF AccountEntry
<1>8. EntryOK(f)
  BY <1>3, <1>4, <1>7 DEF EntryOK
<1> QED
  BY <1>5, <1>6, <1>7, <1>8, AbsentIsNone DEF Fails

-----------------------------------------------------------------------------
(* The operations of the memory backend.                                   *)

\* The parts that look after clients and captchas leave the accounts alone.
Keeps(new, st) == MemoryShape(new) /\ new.accounts = st.accounts

LEMMA CleaningKeeps ==
  ASSUME NEW st, MemoryShape(st), NEW c, NEW t
  PROVE  /\ \A ids : Keeps(RemoveCaptchas(st, ids), st)
         /\ Keeps(cleanCaptchasLocked(st, c, t), st)
         /\ Keeps(cleanAllLocked(st, t), st)
         /\ Keeps(cleanClientLocked(st, c, t), st)
         /\ Keeps(cleanClientsLocked(st, t), st)
<1>1. \A ids : Keeps(RemoveCaptchas(st, ids), st)
  BY DEF MemoryShape, Keeps, RemoveCaptchas
<1>2. Keeps(cleanCaptchasLocked(st, c, t), st) /\ Keeps(cleanAllLocked(st, t), st)
  BY <1>1 DEF cleanCaptchasLocked, cleanAllLocked
<1>3. ASSUME NEW new, Keeps(new, st), NEW clients
      PROVE  Keeps([new EXCEPT !.clients = clients], st)
  BY <1>3 DEF MemoryShape, Keeps
<1>4. ASSUME NEW new, Keeps(new, st), NEW state
      PROVE  Keeps([new EXCEPT !.clients[c] = state], st)
  BY <1>4 DEF MemoryShape, Keeps
<1>5. Keeps(st, st)
  BY DEF Keeps
<1>6. Keeps(cleanClientLocked(st, c, t), st)
  BY <1>2, <1>4, <1>5 DEF cleanClientLocked
<1>7. Keeps(cleanClientsLocked(st, t), st)
  BY <1>2, <1>3 DEF cleanClientsLocked
<1> QED
  BY <1>1, <1>2, <1>6, <1>7

LEMMA ClientKeeps ==
  ASSUME NEW st, MemoryShape(st), NEW c, NEW t
  PROVE  Keeps(clientLocked(st, c, t).st, st)
<1> DEFINE own == cleanClientLocked(st, c, t)
           room == IF ClientCount(own) >= ClientCapacity THEN cleanClientsLocked(own, t) ELSE own
           new == [room EXCEPT !.clients[c] = [captcha |-> NoWindow, login |-> NoWindow]]
<1>1. Keeps(own, st)
  BY CleaningKeeps
<1>2. Keeps(room, st)
  BY <1>1, CleaningKeeps DEF Keeps
<1>3. Keeps(new, st)
  <2> HIDE DEF room
  <2> QED
    BY <1>2 DEF Keeps, MemoryShape
<1>4. clientLocked(st, c, t).st \in {own, room, new}
  BY DEF clientLocked, Answer
<1> QED
  BY <1>1, <1>2, <1>3, <1>4

LEMMA RoomKeeps ==
  ASSUME NEW st, MemoryShape(st), NEW c, NEW t
  PROVE  Keeps(CaptchaRoom(st, c, t).st, st)
<1> DEFINE own == cleanCaptchasLocked(st, c, t)
           all == IF Cardinality(AllCaptchas(own)) >= CaptchaCapacity THEN cleanAllLocked(own, t) ELSE own
<1>1. Keeps(own, st)
  BY CleaningKeeps
<1>2. Keeps(all, st)
  BY <1>1, CleaningKeeps DEF Keeps
<1>3. CaptchaRoom(st, c, t).st \in {own, all}
  BY DEF CaptchaRoom, Answer
<1> QED
  BY <1>1, <1>2, <1>3

\* A client's windows may be counted up or a captcha stored.
LEMMA CountingKeeps ==
  ASSUME NEW st, NEW old, Keeps(old, st), NEW c, NEW window, NEW k, NEW captcha
  PROVE  /\ Keeps([old EXCEPT !.clients[c].captcha = window], st)
         /\ Keeps([old EXCEPT !.clients[c].login = window], st)
         /\ Keeps([old EXCEPT !.captchas[k] = captcha], st)
  BY DEF MemoryShape, Keeps

LEMMA CaptchasKeep ==
  ASSUME NEW st, MemoryShape(st), NEW c, NEW k, NEW isRight, NEW t
  PROVE  /\ Keeps(MemAllowCaptcha(st, c, t).st, st)
         /\ Keeps(MemSaveCaptcha(st, c, k, t).st, st)
         /\ Keeps(MemConsumeCaptcha(st, k, isRight, t).st, st)
<1>1. PICK client : client = clientLocked(st, c, t)
  OBVIOUS
<1>2. Keeps(client.st, st) /\ Keeps(st, st)
  BY <1>1, ClientKeeps DEF Keeps
<1>3. Keeps(MemAllowCaptcha(st, c, t).st, st)
  <2> DEFINE window == increaseRiskWindow(client.st.clients[c].captcha, t, CaptchaRateWindow)
             counted == [client.st EXCEPT !.clients[c].captcha = window]
  <2>1. Keeps(counted, st)
    <3> HIDE DEF window
    <3> QED
      BY <1>2, CountingKeeps, Zenon
  <2>2. Keeps(CaptchaRoom(counted, c, t).st, st)
    <3> HIDE DEF counted
    <3> QED
      BY <2>1, RoomKeeps DEF Keeps
  <2>3. MemAllowCaptcha(st, c, t).st \in {client.st, counted, CaptchaRoom(counted, c, t).st}
    BY <1>1 DEF MemAllowCaptcha, Answer
  <2> QED
    BY <1>2, <2>1, <2>2, <2>3
<1>4. Keeps(MemSaveCaptcha(st, c, k, t).st, st)
  <2>1. PICK room : room = CaptchaRoom(client.st, c, t)
    OBVIOUS
  <2>2. Keeps(room.st, st)
    BY <1>2, <2>1, RoomKeeps DEF Keeps
  <2> DEFINE saved == [room.st EXCEPT !.captchas[k] = [client |-> c, exp |-> t + CaptchaTTL]]
  <2>3. Keeps(saved, st)
    BY <2>2, CountingKeeps, Zenon
  <2>4. MemSaveCaptcha(st, c, k, t).st \in {st, client.st, room.st, saved}
    BY <1>1, <2>1 DEF MemSaveCaptcha, Answer
  <2> QED
    BY <1>2, <2>2, <2>3, <2>4
<1>5. Keeps(MemConsumeCaptcha(st, k, isRight, t).st, st)
  BY CleaningKeeps DEF MemConsumeCaptcha, Answer
<1> QED
  BY <1>3, <1>4, <1>5

LEMMA MemAllowLoginStep ==
  ASSUME NEW st, MemoryShape(st), AccountsOK(st.accounts), NEW c, NEW a \in Accounts,
         NEW answer, answer = MemAllowLogin(st, c, a, now)
  PROVE  /\ MemoryShape(answer.st) /\ AccountsOK(answer.st.accounts)
         /\ AccountsStep("allowLogin", a, st.accounts, answer.st.accounts, answer.res)
<1>1. PICK client : client = clientLocked(st, c, now)
  OBVIOUS
<1>2. Keeps(client.st, st)
  BY <1>1, ClientKeeps
<1> DEFINE window == increaseRiskWindow(client.st.clients[c].login, now, IPRateWindow)
           counted == [client.st EXCEPT !.clients[c].login = window]
           cleared == [counted EXCEPT !.accounts[a] = Absent]
           account == st.accounts[a]
<1>3. Keeps(counted, st)
  <2> HIDE DEF window
  <2> QED
    BY <1>2, CountingKeeps, Zenon
<1>4. \/ answer.res # "allowed" /\ answer.st \in {client.st, counted}
      \/ answer.st = counted /\ ~Locked(account)
      \/ answer.st = cleared /\ Lapsed(account)
  <2>1. counted.accounts[a] = account
    BY <1>3 DEF Keeps
  <2> HIDE DEF counted, cleared, account
  <2>2. answer \in {client, Answer("limited", counted), Answer("allowed", counted), Answer("allowed", cleared)}
    BY <1>1 DEF MemAllowLogin, counted, cleared, account
  <2> QED
    BY <1>1, <2>1 DEF MemAllowLogin, Answer, Locked, Lapsed, counted, cleared, window
<1>5. MemoryShape(cleared) /\ cleared.accounts = [st.accounts EXCEPT ![a] = Absent]
  <2> HIDE DEF counted
  <2> QED
    BY <1>3 DEF Keeps, MemoryShape
<1>6. CASE answer.st \in {client.st, counted}
  <2>1. answer.st.accounts = st.accounts /\ MemoryShape(answer.st)
    BY <1>2, <1>3, <1>6 DEF Keeps
  <2> HIDE DEF counted, cleared
  <2> QED
    BY <1>4, <2>1, <1>5 DEF AccountsStep, Lapsed, Locked, AccountsOK
<1>7. CASE answer.st = cleared /\ Lapsed(account)
  <2> HIDE DEF counted, cleared
  <2>1. AccountsOK(cleared.accounts) /\ cleared.accounts[a] = Absent
    BY <1>5 DEF AccountsOK, EntryOK
  <2> QED
    BY <1>5, <1>7, <2>1 DEF AccountsStep, Locked, AccountsOK, account
<1> QED
  BY <1>4, <1>6, <1>7

LEMMA MemRecordLoginFailureStep ==
  ASSUME now \in Nat, NEW st, MemoryShape(st), AccountsOK(st.accounts), NEW a \in Accounts,
         NEW answer, answer = MemRecordLoginFailure(st, a, now)
  PROVE  /\ MemoryShape(answer.st) /\ AccountsOK(answer.st.accounts)
         /\ AccountsStep("recordLoginFailure", a, st.accounts, answer.st.accounts, answer.res)
<1> DEFINE known == Live(st.accounts[a], now)
           own == IF known THEN st ELSE [st EXCEPT !.accounts[a] = Absent]
           count(s) == Cardinality({x \in Accounts : s.accounts[x] # Absent})
           cleaned == [own EXCEPT !.accounts =
                         [x \in Accounts |-> IF Live(own.accounts[x], now) THEN own.accounts[x] ELSE Absent]]
           room == IF ~known /\ count(own) >= AccountCapacity THEN cleaned ELSE own
           failed == [room EXCEPT !.accounts[a] = FailedAgain(room.accounts[a], now)]
<1>1. MemRecordLoginFailure(st, a, now) =
        IF ~known /\ count(room) >= AccountCapacity THEN Answer("limited", room)
        ELSE IF known /\ st.accounts[a].lock > now THEN Answer("allowed", st)
        ELSE Answer("allowed", failed)
  BY DEF MemRecordLoginFailure
<1>e. \A x \in Accounts : /\ EntryOK(st.accounts[x])
                          /\ ~Live(st.accounts[x], now) => Lapsed(st.accounts[x])
                          /\ st.accounts[x] # Absent => st.accounts[x] \in AccountEntry
  BY DEF AccountsOK, Live, Lapsed, AccountEntry, EntryOK
<1>2. /\ MemoryShape(own) /\ own.accounts \in [Accounts -> AccountEntry \cup {Absent}]
      /\ \A x \in Accounts \ {a} : own.accounts[x] = st.accounts[x]
      /\ own.accounts[a] = IF known THEN st.accounts[a] ELSE Absent
  <2> HIDE DEF known
  <2> QED
    BY DEF MemoryShape, AccountsOK
<1>3. /\ MemoryShape(cleaned) /\ cleaned.accounts \in [Accounts -> AccountEntry \cup {Absent}]
      /\ \A x \in Accounts : cleaned.accounts[x] = IF Live(own.accounts[x], now) THEN own.accounts[x] ELSE Absent
  <2> HIDE DEF own
  <2> QED
    BY <1>2 DEF MemoryShape
<1>4. /\ MemoryShape(room) /\ room.accounts \in [Accounts -> AccountEntry \cup {Absent}]
      /\ \A x \in Accounts \ {a} : \/ room.accounts[x] = st.accounts[x]
                                   \/ room.accounts[x] = Absent /\ Lapsed(st.accounts[x])
      /\ room.accounts[a] = IF known THEN st.accounts[a] ELSE Absent
  <2>1. ~Live(Absent, now)
    BY DEF Live
  <2> HIDE DEF own, cleaned, count
  <2> QED
    BY <1>2, <1>3, <1>e, <2>1
<1> HIDE DEF own, cleaned, count, room
<1>5. CASE answer = Answer("limited", room) /\ ~known
  <2>1. answer.st = room /\ answer.res = "limited"
    BY <1>5 DEF Answer
  <2>2. AccountsOK(room.accounts)
    BY <1>4, <1>e DEF AccountsOK, EntryOK
  <2>3. room.accounts[a] = Absent /\ Lapsed(st.accounts[a])
    BY <1>4, <1>5, <1>e
  <2> HIDE DEF known
  <2> QED
    BY <1>4, <2>1, <2>2, <2>3 DEF AccountsStep
<1>6. CASE answer = Answer("allowed", st) /\ known /\ st.accounts[a].lock > now
  BY <1>6 DEF Answer, AccountsStep, Locked, Live
<1>7. CASE answer = Answer("allowed", failed) /\ ~(known /\ st.accounts[a].lock > now)
  <2>1. answer.st = failed
    BY <1>7 DEF Answer
  <2>2. ~Locked(room.accounts[a]) /\ EntryOK(room.accounts[a]) /\ ~Locked(st.accounts[a])
    BY <1>4, <1>7, <1>e DEF Locked, EntryOK, Live, AccountEntry
  <2>3. PICK f \in AccountEntry : f = FailedAgain(room.accounts[a], now) /\ Fails(room.accounts[a], f)
    BY <2>2, FailedAgainFacts
  <2>4. MemoryShape(failed) /\ failed.accounts = [room.accounts EXCEPT ![a] = f]
    BY <1>4, <2>3 DEF MemoryShape
  <2>5. EntryOK(f) /\ f # Absent
    BY <2>3 DEF Fails
  <2>6. AccountsOK(failed.accounts)
    <3> HIDE DEF failed
    <3> QED
      BY <1>4, <1>e, <2>4, <2>5 DEF AccountsOK, EntryOK
  <2>7. Fails(st.accounts[a], f)
    <3>1. CASE known
      BY <1>4, <2>3, <3>1
    <3>2. CASE ~known
      <4>1. Lapsed(st.accounts[a]) /\ EntryOK(st.accounts[a])
        BY <1>e, <3>2
      <4>2. room.accounts[a] = Absent
        BY <1>4, <3>2
      <4>3. st.accounts[a] = Absent \/ now - st.accounts[a].last >= FailureWindow
        BY <4>1, LimitFacts DEF Lapsed, EntryOK, AccountEntry
      <4> QED
        BY <2>2, <2>3, <4>2, <4>3 DEF Fails
    <3> QED
      BY <3>1, <3>2
  <2> HIDE DEF failed, known
  <2> QED
    BY <1>4, <2>1, <2>4, <2>6, <2>7 DEF AccountsStep
<1> QED
  BY <1>1, <1>5, <1>6, <1>7

\* Every operation of the memory backend.
LEMMA MemoryStep ==
  ASSUME now \in Nat, MemoryShape(fallback), AccountsOK(fallback.accounts),
         NEW op \in RiskSteps, NEW req,
         op \in {"allowLogin", "recordLoginFailure", "clearLoginFailure"} => req.account \in Accounts,
         NEW answer, answer = MemoryOperation(op, req)
  PROVE  /\ MemoryShape(answer.st) /\ AccountsOK(answer.st.accounts)
         /\ AccountsStep(op, req.account, fallback.accounts, answer.st.accounts, answer.res)
<1>1. CASE op \in {"allowCaptcha", "saveCaptcha", "consumeCaptcha"}
  <2>1. Keeps(answer.st, fallback)
    BY <1>1, CaptchasKeep DEF MemoryOperation
  <2> QED
    BY <1>1, <2>1 DEF Keeps, AccountsStep
<1>2. CASE op = "allowLogin"
  BY <1>2, MemAllowLoginStep DEF MemoryOperation
<1>3. CASE op = "recordLoginFailure"
  BY <1>3, MemRecordLoginFailureStep DEF MemoryOperation
<1>4. CASE op = "clearLoginFailure"
  <2> DEFINE a == req.account
  <2>1. answer.st = [fallback EXCEPT !.accounts[a] = Absent]
    BY <1>4 DEF MemoryOperation, MemClearLoginFailure, Answer
  <2>2. MemoryShape(answer.st) /\ answer.st.accounts = [fallback.accounts EXCEPT ![a] = Absent]
    BY <2>1 DEF MemoryShape
  <2>3. AccountsOK(answer.st.accounts)
    BY <2>2 DEF AccountsOK, EntryOK
  <2> QED
    BY <1>4, <2>2, <2>3 DEF AccountsStep, AccountsOK
<1> QED
  BY <1>1, <1>2, <1>3, <1>4 DEF RiskSteps

-----------------------------------------------------------------------------
(* The scripts of the Redis backend.                                       *)

\* The parts that count windows, clients and captchas leave the accounts alone.
Leaves(new, st) == RedisShape(new) /\ new.accounts = st.accounts

LEMMA ScriptsKeep ==
  ASSUME NEW st, NEW old, Leaves(old, st), NEW c, NEW window, NEW k, NEW captcha
  PROVE  /\ Leaves([old EXCEPT !.captcha[c] = window], st)
         /\ Leaves([old EXCEPT !.login[c] = window], st)
         /\ Leaves([old EXCEPT !.clients[c] = window], st)
         /\ Leaves([old EXCEPT !.captchas[k] = captcha], st)
         /\ \A ids : Leaves(RemoveCaptchas(old, ids), st)
<1>1. \A ids : Leaves(RemoveCaptchas(old, ids), st)
  BY DEF RedisShape, Leaves, RemoveCaptchas
<1> QED
  BY <1>1 DEF RedisShape, Leaves

LEMMA ScoreKeeps ==
  ASSUME NEW st, NEW old, Leaves(old, st), NEW c, NEW exp
  PROVE  Leaves(ScoreAtLeast(old, c, exp), st)
<1>1. PICK score : score = Max({old.clients[c], exp})
  OBVIOUS
<1>2. ScoreAtLeast(old, c, exp) = [old EXCEPT !.clients[c] = score]
  BY <1>1 DEF ScoreAtLeast
<1>3. Leaves([old EXCEPT !.clients[c] = score], st)
  BY ScriptsKeep, Zenon
<1> QED
  BY <1>2, <1>3, Zenon

LEMMA RedisCaptchasKeep ==
  ASSUME NEW st, RedisShape(st), NEW c, NEW k, NEW isRight, NEW t,
         NEW answer \in {allowCaptchaScript(st, c, t), saveCaptchaScript(st, c, k, t),
                         useCaptchaScript(st, k, isRight)}
  PROVE  Leaves(answer.st, st)
<1>0. Leaves(st, st)
  BY DEF Leaves
<1>1. CASE answer = allowCaptchaScript(st, c, t)
  <2>1. PICK window : window = increaseRiskWindow(st.captcha[c], t, CaptchaRateWindow)
    OBVIOUS
  <2>2. PICK one : one = [st EXCEPT !.captcha[c] = window]
    OBVIOUS
  <2>3. Leaves(one, st)
    BY <1>0, <2>2, ScriptsKeep, Zenon
  <2>4. PICK counted : counted = ScoreAtLeast(one, c, window.exp)
    OBVIOUS
  <2>5. Leaves(counted, st)
    BY <2>3, <2>4, ScoreKeeps, Zenon
  <2>6. answer.st \in {st, counted}
    BY <1>1, <2>1, <2>2, <2>4 DEF allowCaptchaScript, Answer
  <2> QED
    BY <1>0, <2>5, <2>6
<1>2. CASE answer = saveCaptchaScript(st, c, k, t)
  <2>1. PICK one : one = [st EXCEPT !.captchas[k] = [client |-> c, exp |-> t + CaptchaTTL]]
    OBVIOUS
  <2>2. Leaves(one, st)
    BY <1>0, <2>1, ScriptsKeep, Zenon
  <2>3. PICK saved : saved = ScoreAtLeast(one, c, t + CaptchaTTL)
    OBVIOUS
  <2>4. Leaves(saved, st)
    BY <2>2, <2>3, ScoreKeeps, Zenon
  <2>5. answer.st \in {st, saved}
    BY <1>2, <2>1, <2>3 DEF saveCaptchaScript, Answer
  <2> QED
    BY <1>0, <2>4, <2>5
<1>3. CASE answer = useCaptchaScript(st, k, isRight)
  BY <1>0, <1>3, ScriptsKeep DEF useCaptchaScript, Answer
<1> QED
  BY <1>1, <1>2, <1>3

LEMMA RedisAllowLoginStep ==
  ASSUME NEW st, RedisShape(st), NEW c, NEW a,
         NEW answer, answer = allowLoginScript(st, c, a, now)
  PROVE  /\ RedisShape(answer.st) /\ answer.st.accounts = st.accounts
         /\ answer.res = "allowed" => ~Locked(st.accounts[a])
<1>0. Leaves(st, st)
  BY DEF Leaves
<1>1. PICK window : window = increaseRiskWindow(st.login[c], now, IPRateWindow)
  OBVIOUS
<1>2. PICK one : one = [st EXCEPT !.login[c] = window]
  OBVIOUS
<1>3. Leaves(one, st)
  BY <1>0, <1>2, ScriptsKeep, Zenon
<1>4. PICK counted : counted = ScoreAtLeast(one, c, window.exp)
  OBVIOUS
<1>5. Leaves(counted, st)
  BY <1>3, <1>4, ScoreKeeps, Zenon
<1>6. answer.st \in {st, counted} /\ (answer.res = "allowed" => ~Locked(st.accounts[a]))
  BY <1>1, <1>2, <1>4 DEF allowLoginScript, Answer, Locked
<1> QED
  BY <1>0, <1>5, <1>6 DEF Leaves

LEMMA RedisRecordLoginFailureStep ==
  ASSUME now \in Nat, NEW st, RedisShape(st), AccountsOK(st.accounts), NEW a \in Accounts,
         NEW answer, answer = recordLoginScript(st, a, now)
  PROVE  /\ RedisShape(answer.st) /\ AccountsOK(answer.st.accounts)
         /\ AccountsStep("recordLoginFailure", a, st.accounts, answer.st.accounts, answer.res)
<1> DEFINE account == st.accounts[a]
           again == FailedAgain(account, now)
           unlocked == IF again.failures < FailureLimit THEN [again EXCEPT !.lock = 0] ELSE again
           failed == [st EXCEPT !.accounts[a] = unlocked]
<1>1. \/ answer = Answer("limited", st)
      \/ answer = Answer("allowed", st) /\ Locked(account)
      \/ answer = Answer("allowed", failed) /\ ~Locked(account)
  BY DEF recordLoginScript, Locked
<1>2. CASE answer = Answer("limited", st)
  BY <1>2 DEF Answer, AccountsStep
<1>3. CASE answer = Answer("allowed", st) /\ Locked(account)
  BY <1>3 DEF Answer, AccountsStep
<1>4. CASE answer = Answer("allowed", failed) /\ ~Locked(account)
  <2>1. EntryOK(account)
    BY DEF AccountsOK
  <2>2. PICK f \in AccountEntry : f = again /\ Fails(account, f)
    BY <1>4, <2>1, FailedAgainFacts
  <2>3. PICK g : g = IF f.failures < FailureLimit THEN [f EXCEPT !.lock = 0] ELSE f
    OBVIOUS
  <2>4. g \in AccountEntry /\ g.failures = f.failures /\ g.last = f.last /\ g.exp = f.exp
        /\ g.lock = IF f.failures < FailureLimit THEN 0 ELSE f.lock
    BY <2>2, <2>3 DEF AccountEntry
  <2>5. Fails(account, g)
    BY <2>2, <2>4, LimitFacts, AbsentIsNone DEF Fails, EntryOK, AccountEntry
  <2>6. RedisShape(failed) /\ failed.accounts = [st.accounts EXCEPT ![a] = g]
    BY <2>2, <2>3 DEF RedisShape
  <2>7. AccountsOK(failed.accounts) /\ failed.accounts[a] = g
    BY <2>4, <2>5, <2>6 DEF AccountsOK, Fails
  <2>8. \A x \in Accounts \ {a} : failed.accounts[x] = st.accounts[x]
    BY <2>6 DEF AccountsOK
  <2>9. answer.st = failed
    BY <1>4 DEF Answer
  <2> HIDE DEF failed
  <2> QED
    BY <2>5, <2>6, <2>7, <2>8, <2>9 DEF AccountsStep
<1> QED
  BY <1>1, <1>2, <1>3, <1>4

\* Every script.
LEMMA RedisStep ==
  ASSUME now \in Nat, RedisShape(redis), AccountsOK(redis.accounts),
         NEW op \in RiskSteps, NEW req,
         op \in {"allowLogin", "recordLoginFailure", "clearLoginFailure"} => req.account \in Accounts,
         NEW answer, answer = RedisOperation(op, req)
  PROVE  /\ RedisShape(answer.st) /\ AccountsOK(answer.st.accounts)
         /\ AccountsStep(op, req.account, redis.accounts, answer.st.accounts, answer.res)
<1>1. CASE op \in {"allowCaptcha", "saveCaptcha", "consumeCaptcha"}
  <2>1. answer \in {allowCaptchaScript(redis, req.client, now),
                    saveCaptchaScript(redis, req.client, req.captcha, now),
                    useCaptchaScript(redis, req.captcha, req.isRight)}
    BY <1>1 DEF RedisOperation
  <2>2. RedisShape(answer.st) /\ answer.st.accounts = redis.accounts
    BY <2>1, RedisCaptchasKeep DEF Leaves
  <2> QED
    BY <1>1, <2>2 DEF AccountsStep
<1>2. CASE op = "allowLogin"
  <2> DEFINE a == req.account
  <2>1. answer = allowLoginScript(redis, req.client, a, now)
    BY <1>2 DEF RedisOperation
  <2>2. /\ RedisShape(answer.st) /\ answer.st.accounts = redis.accounts
        /\ answer.res = "allowed" => ~Locked(redis.accounts[a])
    BY <2>1, RedisAllowLoginStep
  <2> QED
    BY <1>2, <2>2 DEF AccountsStep
<1>3. CASE op = "recordLoginFailure"
  BY <1>3, RedisRecordLoginFailureStep DEF RedisOperation
<1>4. CASE op = "clearLoginFailure"
  <2> DEFINE a == req.account
  <2>1. answer.st = [redis EXCEPT !.accounts[a] = Absent]
    BY <1>4 DEF RedisOperation, clearLoginScript, Answer
  <2>2. RedisShape(answer.st) /\ answer.st.accounts = [redis.accounts EXCEPT ![a] = Absent]
    BY <2>1 DEF RedisShape
  <2>3. AccountsOK(answer.st.accounts)
    BY <2>2 DEF AccountsOK, EntryOK
  <2> QED
    BY <1>4, <2>2, <2>3 DEF AccountsStep, AccountsOK
<1> QED
  BY <1>1, <1>2, <1>3, <1>4 DEF RiskSteps

-----------------------------------------------------------------------------
(* The limit on guesses.                                                   *)

BackendsOK ==
  /\ MemoryShape(fallback) /\ AccountsOK(fallback.accounts)
  /\ RedisShape(redis) /\ AccountsOK(redis.accounts)

\* The accounts of the backend that is asked at present.
InForce == IF isRedis /\ degradedUntil = 0 THEN redis.accounts ELSE fallback.accounts

Admitting == {"consumeCaptcha", "candidate", "recordLoginFailure"}

\* The goroutines that may still answer a wrong password of the account.
Admitted(a) == {p \in Procs : procs[p].pc \in Admitting /\ procs[p].req.account = a}

\* A locked account admits nobody else; one that is not remembers every guess.
LimitHolds(a) ==
  IF Locked(InForce[a])
  THEN guesses[a] + Cardinality(Admitted(a)) <= FailureLimit + Cardinality(Procs) - 1
  ELSE guesses[a] = 0 \/ (InForce[a] # Absent /\ InForce[a].last = now /\ guesses[a] <= InForce[a].failures)

GuessesOK ==
  /\ guesses \in [Accounts -> Nat]
  /\ BackendsOK
  /\ \A a \in Accounts : LimitHolds(a)

LEMMA AdmittedFacts ==
  ASSUME NEW a
  PROVE  /\ Cardinality(Procs) \in Nat
         /\ IsFiniteSet(Admitted(a)) /\ Cardinality(Admitted(a)) \in Nat
         /\ Cardinality(Admitted(a)) <= Cardinality(Procs)
<1>1. IsFiniteSet(Procs)
  BY LoginAssumption DEF LoginAssumption
<1>2. Admitted(a) \subseteq Procs
  BY DEF Admitted
<1> QED
  BY <1>1, <1>2, FS_Subset, FS_CardinalityType

LEMMA AdmittedNext ==
  ASSUME NEW a
  PROVE  /\ IsFiniteSet(Admitted(a)') /\ Cardinality(Admitted(a)') \in Nat
         /\ Cardinality(Admitted(a)') <= Cardinality(Procs)
<1>1. IsFiniteSet(Procs)
  BY LoginAssumption DEF LoginAssumption
<1>2. Admitted(a)' \subseteq Procs
  BY DEF Admitted
<1> QED
  BY <1>1, <1>2, FS_Subset, FS_CardinalityType

LEMMA LimitStarts ==
  ASSUME guesses' = NoGuesses, NEW a \in Accounts
  PROVE  LimitHolds(a)'
<1>1. guesses'[a] = 0
  BY DEF NoGuesses
<1> QED
  BY <1>1, AdmittedNext, LimitFacts, AdmittedFacts DEF LimitHolds

LEMMA LimitKept ==
  ASSUME now \in Nat, now' = now, NEW a \in Accounts, LimitHolds(a), EntryOK(InForce[a]),
         guesses[a] \in Nat, guesses'[a] \in {guesses[a], 0},
         InForce'[a] = InForce[a] \/ (InForce'[a] = Absent /\ Lapsed(InForce[a])),
         Admitted(a)' \subseteq Admitted(a) \/ ~Locked(InForce'[a])
  PROVE  LimitHolds(a)'
<1>1. CASE Locked(InForce'[a])
  <2>1. InForce'[a] = InForce[a] /\ Locked(InForce[a]) /\ Admitted(a)' \subseteq Admitted(a)
    BY <1>1 DEF Locked
  <2>2. Cardinality(Admitted(a)') <= Cardinality(Admitted(a))
    BY <2>1, AdmittedFacts, FS_Subset
  <2>3. guesses'[a] <= guesses[a] /\ guesses'[a] \in Nat
    OBVIOUS
  <2>4. guesses[a] + Cardinality(Admitted(a)) <= FailureLimit + Cardinality(Procs) - 1
    BY <2>1 DEF LimitHolds
  <2>5. guesses'[a] + Cardinality(Admitted(a)') <= FailureLimit + Cardinality(Procs) - 1
    BY <2>2, <2>3, <2>4, AdmittedFacts, AdmittedNext, LimitFacts
  <2>6. Locked(InForce[a])'
    BY <1>1 DEF Locked
  <2> QED
    BY <2>5, <2>6 DEF LimitHolds
<1>2. CASE ~Locked(InForce'[a])
  <2>1. ~Locked(InForce[a])'
    BY <1>2 DEF Locked
  <2>2. CASE guesses'[a] = 0
    BY <2>1, <2>2 DEF LimitHolds
  <2>3. CASE guesses'[a] # 0
    <3>1. ~Locked(InForce[a])
      BY <1>2 DEF Locked, Lapsed, EntryOK, AccountEntry
    <3>2. guesses'[a] = guesses[a] /\ InForce[a] # Absent /\ InForce[a].last = now
          /\ guesses[a] <= InForce[a].failures
      BY <2>3, <3>1 DEF LimitHolds
    <3>3. InForce'[a] = InForce[a]
      BY <3>2, LimitFacts DEF EntryOK, AccountEntry, Lapsed
    <3> QED
      BY <2>1, <3>2, <3>3 DEF LimitHolds
  <2> QED
    BY <2>2, <2>3
<1> QED
  BY <1>1, <1>2

\* One more failure, whether or not its answer arrives.
LEMMA LimitAdds ==
  ASSUME now \in Nat, now' = now, NEW a \in Accounts, LimitHolds(a), EntryOK(InForce[a]),
         guesses[a] \in Nat, Fails(InForce[a], InForce'[a]),
         \/ guesses'[a] = guesses[a]
         \/ guesses'[a] = guesses[a] + 1 /\ Cardinality(Admitted(a)') < Cardinality(Procs)
  PROVE  LimitHolds(a)'
<1> DEFINE e == InForce[a]
           f == InForce'[a]
<1>1. ~Locked(e) /\ EntryOK(f) /\ f # Absent /\ f.last = now
      /\ f.failures = IF e = Absent \/ now - e.last >= FailureWindow THEN 1 ELSE e.failures + 1
  BY DEF Fails
<1>2. guesses[a] = 0 \/ (e # Absent /\ e.last = now /\ guesses[a] <= e.failures)
  BY <1>1 DEF LimitHolds
<1>3. guesses[a] <= FailureLimit - 1
  BY <1>1, <1>2, LimitFacts DEF EntryOK, Locked, AccountEntry
<1>4. guesses[a] + 1 <= f.failures
  BY <1>1, <1>2, LimitFacts DEF EntryOK, AccountEntry
<1>n. Cardinality(Procs) \in Nat /\ Cardinality(Admitted(a)') \in Nat
      /\ Cardinality(Admitted(a)') <= Cardinality(Procs)
  BY AdmittedNext, AdmittedFacts
<1>5. guesses'[a] + Cardinality(Admitted(a)') <= FailureLimit + Cardinality(Procs) - 1
  BY <1>3, <1>n, LimitFacts
<1>6. guesses'[a] <= f.failures
  BY <1>1, <1>4 DEF EntryOK, AccountEntry
<1> QED
  BY <1>1, <1>5, <1>6 DEF LimitHolds

LEMMA AdmittedStays ==
  ASSUME NEW p \in Procs, Only(p), NEW a,
         procs'[p].pc \in Admitting /\ procs'[p].req.account = a =>
           procs[p].pc \in Admitting /\ procs[p].req.account = a
  PROVE  Admitted(a)' \subseteq Admitted(a)
  BY DEF Admitted, Only

LEMMA AdmittedLeaves ==
  ASSUME NEW p \in Procs, Only(p), NEW a, p \in Admitted(a), procs'[p].pc \notin Admitting
  PROVE  /\ Cardinality(Admitted(a)') < Cardinality(Admitted(a))
         /\ Cardinality(Admitted(a)') < Cardinality(Procs)
<1>1. Admitted(a)' \subseteq Admitted(a) \ {p}
  BY DEF Admitted, Only
<1>2. /\ IsFiniteSet(Admitted(a) \ {p})
      /\ Cardinality(Admitted(a) \ {p}) = Cardinality(Admitted(a)) - 1
  BY AdmittedFacts, FS_RemoveElement
<1>3. Cardinality(Admitted(a)') <= Cardinality(Admitted(a) \ {p})
  BY <1>1, <1>2, FS_Subset
<1> QED
  BY <1>2, <1>3, AdmittedFacts, AdmittedNext

\* What a risk operation makes of a goroutine and its guesses.
LEMMA AfterAnswer ==
  ASSUME NEW g, NEW res
  PROVE  /\ g.pc = "recordLoginFailure" => After(g, res) = Idle
         /\ g.pc = "allowLogin" /\ res # "allowed" => After(g, res) = Idle
  BY DEF After, AfterRisk

LEMMA CountedFacts ==
  ASSUME guesses \in [Accounts -> Nat], NEW p, NEW res,
         procs[p].pc \in {"recordLoginFailure", "clearLoginFailure"} => procs[p].req.account \in Accounts
  PROVE  /\ Counted(p, res) \in [Accounts -> Nat] /\ Cleared(p) \in [Accounts -> Nat]
         /\ \A x \in Accounts :
              /\ Cleared(p)[x] = IF procs[p].pc = "clearLoginFailure" /\ x = procs[p].req.account
                                 THEN 0 ELSE guesses[x]
              /\ Counted(p, res)[x] =
                   IF procs[p].pc = "recordLoginFailure" /\ res = "allowed" /\ x = procs[p].req.account
                   THEN guesses[x] + 1 ELSE Cleared(p)[x]
<1>1. /\ Cleared(p) \in [Accounts -> Nat]
      /\ \A x \in Accounts :
           Cleared(p)[x] = IF procs[p].pc = "clearLoginFailure" /\ x = procs[p].req.account
                           THEN 0 ELSE guesses[x]
  BY DEF Cleared
<1>2. /\ Counted(p, res) \in [Accounts -> Nat]
      /\ \A x \in Accounts : Counted(p, res)[x] =
           IF procs[p].pc = "recordLoginFailure" /\ res = "allowed" /\ x = procs[p].req.account
           THEN guesses[x] + 1 ELSE Cleared(p)[x]
  BY <1>1 DEF Counted
<1> QED
  BY <1>1, <1>2

\* The account a risk step of a login is about.
LEMMA AccountKnown ==
  ASSUME SessionsOK, NEW p \in Procs
  PROVE  /\ procs[p].pc \in {"allowLogin", "recordLoginFailure", "clearLoginFailure"} =>
              procs[p].req.account \in Accounts
         /\ procs[p] \in Goroutine
<1>1. RequestFits(p) /\ procs[p] \in Goroutine
  BY DEF SessionsOK, GoroutineOK, TypeOK
<1> QED
  BY <1>1 DEF RequestFits, LoginRequests

\* The backend in force has answered.
LEMMA AnsweredLimits ==
  ASSUME SessionsOK, GuessesOK, NEW p \in Procs, procs[p].pc \in RiskSteps, now' = now,
         NEW res, procs' = [procs EXCEPT ![p] = After(procs[p], res)], Only(p),
         AccountsStep(procs[p].pc, procs[p].req.account, InForce, InForce', res),
         guesses' = Counted(p, res), NEW x \in Accounts
  PROVE  LimitHolds(x)'
<1> DEFINE a == procs[p].req.account
           op == procs[p].pc
<1>1. /\ now \in Nat /\ guesses \in [Accounts -> Nat] /\ guesses[x] \in Nat
      /\ LimitHolds(x) /\ EntryOK(InForce[x])
  BY DEF SessionsOK, TypeOK, GuessesOK, BackendsOK, AccountsOK, InForce
<1>2. /\ op \in {"allowLogin", "recordLoginFailure", "clearLoginFailure"} => a \in Accounts
      /\ procs[p] \in Goroutine
  BY AccountKnown
<1>3. procs'[p] = After(procs[p], res)
  BY DEF SessionsOK, TypeOK
<1>4. \/ procs'[p] = Idle
      \/ /\ procs'[p].req = procs[p].req
         /\ \/ op = "allowCaptcha" /\ procs'[p].pc = "saveCaptcha"
            \/ op = "allowLogin" /\ procs'[p].pc = "consumeCaptcha" /\ res = "allowed"
            \/ op = "consumeCaptcha" /\ procs'[p].pc = "candidate"
            \/ op = "clearLoginFailure" /\ procs'[p].pc = "issueLogin"
  BY <1>2, <1>3, AfterFacts, AfterAnswer
<1>5. Idle.pc \notin Admitting
  BY IdleFacts DEF Admitting
<1>6. guesses'[x] = IF op = "recordLoginFailure" /\ res = "allowed" /\ x = a THEN guesses[x] + 1
                    ELSE IF op = "clearLoginFailure" /\ x = a THEN 0 ELSE guesses[x]
  BY <1>1, <1>2, CountedFacts
<1>7. CASE x # a
  <2>1. InForce'[x] = InForce[x] \/ (InForce'[x] = Absent /\ Lapsed(InForce[x]))
    BY <1>7 DEF AccountsStep
  <2>2. Admitted(x)' \subseteq Admitted(x)
    BY <1>4, <1>5, <1>7, AdmittedStays DEF Admitting
  <2> QED
    BY <1>1, <1>6, <1>7, <2>1, <2>2, LimitKept
<1>8. CASE x = a /\ op \notin {"recordLoginFailure", "clearLoginFailure"}
  <2>1. InForce'[x] = InForce[x] \/ (InForce'[x] = Absent /\ Lapsed(InForce[x]))
    BY <1>8 DEF AccountsStep
  <2>2. Admitted(x)' \subseteq Admitted(x) \/ ~Locked(InForce'[x])
    <3>1. CASE op = "allowLogin" /\ res = "allowed"
      BY <1>8, <3>1 DEF AccountsStep
    <3>2. CASE ~(op = "allowLogin" /\ res = "allowed")
      BY <1>4, <1>5, <1>8, <3>2, AdmittedStays DEF Admitting
    <3> QED
      BY <3>1, <3>2
  <2> QED
    BY <1>1, <1>6, <1>8, <2>1, <2>2, LimitKept
<1>9. CASE x = a /\ op = "clearLoginFailure"
  <2>1. InForce'[x] = Absent /\ guesses'[x] = 0
    BY <1>6, <1>9 DEF AccountsStep
  <2> QED
    BY <2>1 DEF LimitHolds, Locked
<1>10. CASE x = a /\ op = "recordLoginFailure"
  <2>1. procs'[p].pc \notin Admitting
    BY <1>3, <1>5, <1>10, AfterAnswer
  <2>2. p \in Admitted(x)
    BY <1>10 DEF Admitted, Admitting
  <2>3. /\ Cardinality(Admitted(x)') < Cardinality(Admitted(x))
        /\ Cardinality(Admitted(x)') < Cardinality(Procs)
    BY <2>1, <2>2, AdmittedLeaves
  <2>4. Admitted(x)' \subseteq Admitted(x)
    BY <2>1, AdmittedStays
  <2>5. CASE InForce'[x] = InForce[x] /\ Locked(InForce[x])
    <3>1. guesses[x] + Cardinality(Admitted(x)) <= FailureLimit + Cardinality(Procs) - 1
      BY <1>1, <2>5 DEF LimitHolds
    <3>2. guesses'[x] <= guesses[x] + 1 /\ guesses'[x] \in Nat
      BY <1>1, <1>6, <1>10
    <3>3. /\ Cardinality(Admitted(x)') \in Nat /\ Cardinality(Admitted(x)) \in Nat
          /\ Cardinality(Procs) \in Nat
      BY AdmittedFacts, AdmittedNext
    <3>4. guesses'[x] + Cardinality(Admitted(x)') <= FailureLimit + Cardinality(Procs) - 1
      BY <1>1, <2>3, <3>1, <3>2, <3>3, LimitFacts
    <3>5. Locked(InForce[x])'
      BY <2>5 DEF Locked
    <3> QED
      BY <3>4, <3>5 DEF LimitHolds
  <2>6. CASE /\ InForce'[x] = InForce[x] \/ (InForce'[x] = Absent /\ Lapsed(InForce[x]))
             /\ res # "allowed"
    BY <1>1, <1>6, <1>10, <2>4, <2>6, LimitKept
  <2>7. CASE Fails(InForce[x], InForce'[x])
    BY <1>1, <1>6, <1>10, <2>3, <2>7, LimitAdds
  <2> QED
    BY <1>10, <2>5, <2>6, <2>7 DEF AccountsStep
<1> QED
  BY <1>7, <1>8, <1>9, <1>10

\* Redis, in force, was executed or not and has not answered.
LEMMA UnansweredLimits ==
  ASSUME SessionsOK, GuessesOK, NEW p \in Procs, procs[p].pc \in RiskSteps, now' = now,
         NEW res, Only(p), procs'[p].pc = procs[p].pc, procs'[p].req = procs[p].req,
         \/ InForce' = InForce
         \/ AccountsStep(procs[p].pc, procs[p].req.account, InForce, InForce', res),
         guesses' = Cleared(p), NEW x \in Accounts
  PROVE  LimitHolds(x)'
<1> DEFINE a == procs[p].req.account
           op == procs[p].pc
<1>1. /\ now \in Nat /\ guesses \in [Accounts -> Nat] /\ guesses[x] \in Nat
      /\ LimitHolds(x) /\ EntryOK(InForce[x])
  BY DEF SessionsOK, TypeOK, GuessesOK, BackendsOK, AccountsOK, InForce
<1>2. op \in {"allowLogin", "recordLoginFailure", "clearLoginFailure"} => a \in Accounts
  BY AccountKnown
<1>3. guesses'[x] = IF op = "clearLoginFailure" /\ x = a THEN 0 ELSE guesses[x]
  BY <1>1, <1>2, CountedFacts
<1>4. Admitted(x)' \subseteq Admitted(x)
  BY AdmittedStays
<1>5. CASE InForce'[x] = InForce[x] \/ (InForce'[x] = Absent /\ Lapsed(InForce[x]))
  BY <1>1, <1>3, <1>4, <1>5, LimitKept
<1>6. CASE x = a /\ op = "clearLoginFailure" /\ InForce'[x] = Absent
  BY <1>3, <1>6 DEF LimitHolds, Locked
<1>7. CASE op = "recordLoginFailure" /\ Fails(InForce[x], InForce'[x])
  BY <1>1, <1>3, <1>7, LimitAdds
<1> QED
  BY <1>5, <1>6, <1>7 DEF AccountsStep

\* A step that neither guesses nor changes what is in force.
LEMMA QuietLimits ==
  ASSUME SessionsOK, GuessesOK, NEW p \in Procs, Only(p), now' = now,
         InForce' = InForce, guesses' = guesses,
         procs'[p].pc \in Admitting =>
           procs[p].pc \in Admitting /\ procs'[p].req = procs[p].req,
         NEW x \in Accounts
  PROVE  LimitHolds(x)'
<1>1. /\ now \in Nat /\ guesses[x] \in Nat /\ LimitHolds(x) /\ EntryOK(InForce[x])
  BY DEF SessionsOK, TypeOK, GuessesOK, BackendsOK, AccountsOK, InForce
<1>2. Admitted(x)' \subseteq Admitted(x)
  BY AdmittedStays
<1> QED
  BY <1>1, <1>2, LimitKept

LEMMA ReplyOnly ==
  ASSUME SessionsOK, NEW p \in Procs, NEW a, procs' = [procs EXCEPT ![p].reply = a]
  PROVE  procs'[p].pc = procs[p].pc /\ procs'[p].req = procs[p].req
  BY DEF SessionsOK, TypeOK, Goroutine

LEMMA AttemptKeepsLimits ==
  ASSUME SessionsOK, ProbeIsLive, GuessesOK, NEW p \in Procs, RiskAttempt(p)
  PROVE  GuessesOK'
<1>0. /\ procs[p].pc \in RiskSteps /\ isRedis /\ UNCHANGED <<now, isRedis, fallback, degradedUntil>>
  BY DEF RiskAttempt, RiskUnchanged
<1>1. Only(p)
  BY RiskAttemptLawful DEF Lawful
<1>2. PICK answer : answer = RedisOperation(procs[p].pc, procs[p].req)
  OBVIOUS
<1>3. \/ /\ redis' = answer.st /\ IsProbe /\ guesses' = guesses
         /\ procs' = [procs EXCEPT ![p].reply = [got |-> "ok", res |-> answer.res, isProbe |-> TRUE]]
      \/ /\ redis' = answer.st /\ ~IsProbe /\ guesses' = Counted(p, answer.res)
         /\ procs' = [procs EXCEPT ![p] = After(procs[p], answer.res)]
      \/ /\ redis' \in {redis, answer.st} /\ guesses' = Cleared(p)
         /\ Got(p, "error") \/ Got(p, "cancelled")
  BY <1>2, Zenon DEF RiskAttempt, Continue
<1>4. /\ procs[p].pc \in {"allowLogin", "recordLoginFailure", "clearLoginFailure"} =>
           procs[p].req.account \in Accounts
      /\ now \in Nat /\ BackendsOK /\ guesses \in [Accounts -> Nat]
  BY AccountKnown DEF SessionsOK, TypeOK, GuessesOK
<1>5. /\ RedisShape(answer.st) /\ AccountsOK(answer.st.accounts)
      /\ AccountsStep(procs[p].pc, procs[p].req.account, redis.accounts, answer.st.accounts, answer.res)
  BY <1>0, <1>2, <1>4, RedisStep DEF BackendsOK
<1>6. BackendsOK'
  <2>1. redis' \in {redis, answer.st}
    BY <1>3
  <2>2. RedisShape(redis') /\ AccountsOK(redis'.accounts)
    BY <1>4, <1>5, <2>1 DEF BackendsOK
  <2> QED
    BY <1>0, <1>4, <2>2 DEF BackendsOK, AccountsOK, EntryOK, MemoryShape, RedisShape
<1>7. guesses' \in [Accounts -> Nat]
  <2>1. Counted(p, answer.res) \in [Accounts -> Nat] /\ Cleared(p) \in [Accounts -> Nat]
    BY <1>4, CountedFacts
  <2> QED
    BY <1>3, <1>4, <2>1
<1>8. \/ InForce' = InForce
      \/ InForce = redis.accounts /\ InForce' = redis'.accounts
  BY <1>0 DEF InForce
<1>9. ~IsProbe => InForce = redis.accounts /\ InForce' = redis'.accounts
  BY <1>0 DEF InForce, IsProbe
<1>10. IsProbe => InForce' = InForce
  BY <1>0 DEF InForce, IsProbe
<1>11. ASSUME NEW x \in Accounts PROVE LimitHolds(x)'
  <2>1. CASE /\ IsProbe /\ guesses' = guesses
             /\ procs' = [procs EXCEPT ![p].reply = [got |-> "ok", res |-> answer.res, isProbe |-> TRUE]]
    <3>1. procs'[p].pc = procs[p].pc /\ procs'[p].req = procs[p].req
      BY <2>1, ReplyOnly
    <3> QED
      BY <1>0, <1>1, <1>10, <2>1, <3>1, QuietLimits
  <2>2. CASE /\ redis' = answer.st /\ ~IsProbe /\ guesses' = Counted(p, answer.res)
             /\ procs' = [procs EXCEPT ![p] = After(procs[p], answer.res)]
    <3>1. AccountsStep(procs[p].pc, procs[p].req.account, InForce, InForce', answer.res)
      BY <1>5, <1>9, <2>2
    <3> QED
      BY <1>0, <1>1, <2>2, <3>1, AnsweredLimits
  <2>3. CASE /\ redis' \in {redis, answer.st} /\ guesses' = Cleared(p)
             /\ Got(p, "error") \/ Got(p, "cancelled")
    <3>1. procs'[p].pc = procs[p].pc /\ procs'[p].req = procs[p].req
      BY <2>3, ReplyOnly DEF Got
    <3>2. \/ InForce' = InForce
          \/ AccountsStep(procs[p].pc, procs[p].req.account, InForce, InForce', answer.res)
      BY <1>5, <1>8, <2>3
    <3> QED
      BY <1>0, <1>1, <2>3, <3>1, <3>2, UnansweredLimits
  <2> QED
    BY <1>3, <2>1, <2>2, <2>3
<1> QED
  BY <1>6, <1>7, <1>11 DEF GuessesOK

LEMMA SettleKeepsLimits ==
  ASSUME SessionsOK, ProbeIsLive, GuessesOK, NEW p \in Procs, RiskSettle(p)
  PROVE  GuessesOK'
<1>0. UNCHANGED <<now, isRedis, redis, fallback>>
  BY DEF RiskSettle, RiskUnchanged
<1>1. Only(p)
  BY RiskSettleLawful DEF Lawful
<1>2. BackendsOK'
  BY <1>0 DEF GuessesOK, BackendsOK, AccountsOK, EntryOK, MemoryShape, RedisShape
<1>3. \/ guesses' = NoGuesses
      \/ UNCHANGED <<guesses, degradedUntil>> /\ Finish(p)
  BY DEF RiskSettle, cancelRedisProbe
<1>4. CASE guesses' = NoGuesses
  <2>1. guesses' \in [Accounts -> Nat]
    BY <1>4 DEF NoGuesses
  <2> QED
    BY <1>2, <1>4, <2>1, LimitStarts DEF GuessesOK
<1>5. CASE UNCHANGED <<guesses, degradedUntil>> /\ Finish(p)
  <2>1. procs'[p].pc \notin Admitting
    BY <1>5, FinishShape, IdleFacts DEF SessionsOK, Admitting
  <2>2. InForce' = InForce
    BY <1>0, <1>5 DEF InForce
  <2>3. ASSUME NEW x \in Accounts PROVE LimitHolds(x)'
    BY <1>0, <1>1, <1>5, <2>1, <2>2, QuietLimits
  <2> QED
    BY <1>2, <1>5, <2>3 DEF GuessesOK
<1> QED
  BY <1>3, <1>4, <1>5

LEMMA LocalKeepsLimits ==
  ASSUME SessionsOK, ProbeIsLive, GuessesOK, NEW p \in Procs, RiskLocal(p)
  PROVE  GuessesOK'
<1>0. procs[p].pc \in RiskSteps /\ UNCHANGED <<now, isRedis, redis, degradedUntil>>
  BY DEF RiskLocal, RiskUnchanged
<1>1. Only(p)
  BY RiskLocalLawful DEF Lawful
<1>2. PICK answer : answer = MemoryOperation(procs[p].pc, procs[p].req)
  OBVIOUS
<1>3. \/ Finish(p) /\ UNCHANGED <<fallback, guesses>>
      \/ /\ fallback' = answer.st
         /\ procs' = [procs EXCEPT ![p] = After(procs[p], answer.res)]
         /\ guesses' = IF isRedis /\ degradedUntil = 0 THEN NoGuesses ELSE Counted(p, answer.res)
  BY <1>2, Zenon DEF RiskLocal, Continue
<1>4. /\ procs[p].pc \in {"allowLogin", "recordLoginFailure", "clearLoginFailure"} =>
           procs[p].req.account \in Accounts
      /\ now \in Nat /\ BackendsOK /\ guesses \in [Accounts -> Nat]
  BY AccountKnown DEF SessionsOK, TypeOK, GuessesOK
<1>5. /\ MemoryShape(answer.st) /\ AccountsOK(answer.st.accounts)
      /\ AccountsStep(procs[p].pc, procs[p].req.account, fallback.accounts, answer.st.accounts, answer.res)
  BY <1>0, <1>2, <1>4, MemoryStep DEF BackendsOK
<1>6. BackendsOK'
  <2>1. MemoryShape(fallback') /\ AccountsOK(fallback'.accounts)
    BY <1>3, <1>4, <1>5 DEF BackendsOK
  <2> QED
    BY <1>0, <1>4, <2>1 DEF BackendsOK, AccountsOK, EntryOK, MemoryShape, RedisShape
<1>7. CASE Finish(p) /\ UNCHANGED <<fallback, guesses>>
  <2>1. procs'[p].pc \notin Admitting
    BY <1>7, FinishShape, IdleFacts DEF SessionsOK, Admitting
  <2>2. InForce' = InForce
    BY <1>0, <1>7 DEF InForce
  <2>3. ASSUME NEW x \in Accounts PROVE LimitHolds(x)'
    BY <1>0, <1>1, <1>7, <2>1, <2>2, QuietLimits
  <2> QED
    BY <1>4, <1>6, <1>7, <2>3 DEF GuessesOK
<1>8. CASE guesses' = NoGuesses
  <2>1. guesses' \in [Accounts -> Nat]
    BY <1>8 DEF NoGuesses
  <2> QED
    BY <1>6, <1>8, <2>1, LimitStarts DEF GuessesOK
<1>9. CASE /\ ~(isRedis /\ degradedUntil = 0)
           /\ fallback' = answer.st
           /\ procs' = [procs EXCEPT ![p] = After(procs[p], answer.res)]
           /\ guesses' = Counted(p, answer.res)
  <2>1. InForce = fallback.accounts /\ InForce' = fallback'.accounts
    BY <1>0, <1>9 DEF InForce
  <2>2. AccountsStep(procs[p].pc, procs[p].req.account, InForce, InForce', answer.res)
    BY <1>5, <1>9, <2>1
  <2>3. ASSUME NEW x \in Accounts PROVE LimitHolds(x)'
    BY <1>0, <1>1, <1>9, <2>2, AnsweredLimits
  <2>4. guesses' \in [Accounts -> Nat]
    BY <1>4, <1>9, CountedFacts
  <2> QED
    BY <1>6, <2>3, <2>4 DEF GuessesOK
<1> QED
  BY <1>3, <1>7, <1>8, <1>9

\* The steps outside the risk control know neither its backends nor the
\* guesses, and take no goroutine where a password may be refused.
LEMMA ApartSteps ==
  ASSUME SessionsOK, NEW p \in Procs,
         \/ Candidate(p) \/ IssueLogin(p) \/ Resolve(p) \/ Commit(p)
         \/ ReadLocator(p) \/ ReadContent(p) \/ CleanUp(p)
         \/ Rotate(p) \/ Revoke(p) \/ Save(p) \/ RevokeUsers(p)
         \/ MemoryGet(p) \/ MemoryRotateRefresh(p) \/ MemoryRevoke(p)
         \/ MemorySave(p) \/ MemoryRevokeUsers(p)
  PROVE  /\ UNCHANGED <<now, isRedis, riskVars, guesses>>
         /\ procs'[p].pc \in Admitting =>
              procs[p].pc \in Admitting /\ procs'[p].req = procs[p].req
<1>t. TypeOK
  BY DEF SessionsOK
<1>a. Idle.pc \notin Admitting /\ None \in Records /\ \A rec \in Known : rec \in Records
  BY IdleFacts DEF Admitting, Records
\* Every way such a step ends.
<1>f. ASSUME Finish(p) PROVE procs'[p].pc \notin Admitting
  BY <1>t, <1>a, <1>f, FinishShape
<1>s. ASSUME NEW pc \in TokenSteps \cup {"commit"}, NEW rec, Step(p, pc, rec)
      PROVE  procs'[p].pc \notin Admitting
  <2>1. procs'[p].pc = pc
    BY <1>t, <1>s DEF Step, TypeOK, Goroutine
  <2> QED
    BY <2>1 DEF TokenSteps, ReadingSteps, Admitting
<1>r. ASSUME NEW cont, Read(p, cont) PROVE procs'[p].pc \notin Admitting
  <2>1. procs'[p].pc = "get"
    BY <1>t, <1>r DEF Read, TypeOK, Goroutine
  <2> QED
    BY <2>1 DEF Admitting
<1>j. Judged(p) => Finish(p)
  BY DEF Judged
<1>l. Failed(p) => Finish(p)
  BY DEF Failed
<1>g. ASSUME procs[p].pc \in {"get", "hget"}, NEW user, NEW content, Present(p, user, content)
      PROVE  procs'[p].pc \notin Admitting
  <2>0. procs[p].cont \in {"verify", "rotate", "revoke"}
    BY <1>g DEF SessionsOK, GoroutineOK, RequestFits
  <2>1. \/ \E pc \in TokenSteps : \E rec : Step(p, pc, rec)
        \/ \E cont : Read(p, cont)
        \/ Finish(p)
    BY <1>g, <1>j, <1>l, <2>0 DEF Present, TokenSteps, ReadingSteps
  <2> QED
    BY <2>1, <1>f, <1>s, <1>r
<1>d. ASSUME NEW id, Draw(p, id) PROVE procs'[p].pc \notin Admitting
  <2>1. procs'[p].pc \in {"get", "save"}
    BY <1>t, <1>d DEF Draw, TypeOK, Goroutine
  <2> QED
    BY <2>1 DEF Admitting
<1> DEFINE Ends == \/ Finish(p)
                   \/ \E pc \in TokenSteps \cup {"commit"} : \E rec : Step(p, pc, rec)
                   \/ \E cont : Read(p, cont)
                   \/ /\ procs[p].pc \in {"get", "hget"}
                      /\ \E user, content : Present(p, user, content)
                   \/ \E id : Draw(p, id)
<1>e. Ends => procs'[p].pc \notin Admitting
  BY <1>f, <1>s, <1>r, <1>g, <1>d
<1>n. {"hget", "delLocator", "delSession", "commit"} \subseteq TokenSteps \cup {"commit"}
  BY DEF TokenSteps, ReadingSteps
<1>1. CASE Candidate(p)
  <2>1. /\ procs[p].pc = "candidate" /\ UNCHANGED <<now, isRedis, riskVars, guesses>>
        /\ Finish(p) \/ \E pc \in Steps : Goto(p, pc)
    BY <1>1 DEF Candidate, Steps, LoginSteps, RiskSteps
  <2>2. ASSUME NEW pc \in Steps, Goto(p, pc) PROVE procs'[p].req = procs[p].req
    BY <1>t, <2>2, GotoShape DEF SameWork
  <2> QED
    BY <2>1, <2>2, <1>f DEF Admitting
<1>2. CASE IssueLogin(p) \/ Resolve(p) \/ Commit(p)
  <2>1. Ends
    BY <1>2, <1>l DEF IssueLogin, Resolve, Commit
  <2> QED
    BY <1>2, <1>e, <2>1 DEF IssueLogin, Resolve, Commit, SessionUnchanged
<1>3. CASE ReadLocator(p) \/ ReadContent(p) \/ CleanUp(p)
  <2>1. Ends
    <3>1. CASE ReadLocator(p)
      <4>1. Finish(p) \/ Judged(p) \/ \E rec : Step(p, "hget", rec)
        BY <3>1, SMTT(40) DEF ReadLocator, Redis
      <4> QED
        BY <1>j, <1>n, <4>1
    <3>2. CASE ReadContent(p)
      BY <1>n, <3>2 DEF ReadContent, Redis
    <3>3. CASE CleanUp(p)
      BY <1>j, <3>3, SMTT(40) DEF CleanUp, Redis
    <3> QED
      BY <1>3, <3>1, <3>2, <3>3
  <2> QED
    BY <1>3, <1>e, <2>1 DEF ReadLocator, ReadContent, CleanUp, SessionUnchanged
<1>4. CASE Rotate(p) \/ Revoke(p) \/ Save(p) \/ RevokeUsers(p)
  <2>1. Ends
    <3>1. CASE Rotate(p)
      BY <1>j, <1>n, <3>1 DEF Rotate, Redis, rotateRefreshScript, Reply
    <3>2. CASE Revoke(p) \/ RevokeUsers(p)
      <4>1. Finish(p) \/ Judged(p)
        BY <3>2, SMTT(40) DEF Revoke, RevokeUsers, Redis
      <4> QED
        BY <1>j, <4>1
    <3>3. CASE Save(p)
      <4>1. Finish(p) \/ Failed(p) \/ \E rec : Step(p, "commit", rec)
        BY <3>3, SMTT(40) DEF Save, Redis
      <4> QED
        BY <1>l, <1>n, <4>1
    <3> QED
      BY <1>4, <3>1, <3>2, <3>3
  <2> QED
    BY <1>4, <1>e, <2>1 DEF Rotate, Revoke, Save, RevokeUsers, SessionUnchanged
<1>5. CASE MemoryGet(p) \/ MemoryRotateRefresh(p) \/ MemoryRevoke(p) \/ MemorySave(p) \/ MemoryRevokeUsers(p)
  <2>1. Ends
    <3>1. CASE MemoryGet(p)
      BY <1>j, <3>1, SMTT(40) DEF MemoryGet
    <3>2. CASE MemoryRotateRefresh(p)
      <4>1. Failed(p) \/ Judged(p) \/ Read(p, "revoke") \/ \E rec : Step(p, "commit", rec)
        BY <3>2, SMTT(40) DEF MemoryRotateRefresh
      <4> QED
        BY <1>j, <1>l, <1>n, <4>1
    <3>3. CASE MemoryRevoke(p) \/ MemoryRevokeUsers(p)
      BY <1>j, <3>3 DEF MemoryRevoke, MemoryRevokeUsers
    <3>4. CASE MemorySave(p)
      <4>1. Failed(p) \/ \E rec : Step(p, "commit", rec)
        BY <3>4 DEF MemorySave
      <4> QED
        BY <1>l, <1>n, <4>1
    <3> QED
      BY <1>5, <3>1, <3>2, <3>3, <3>4
  <2> QED
    BY <1>5, <1>e, <2>1
    DEF MemoryGet, MemoryRotateRefresh, MemoryRevoke, MemorySave, MemoryRevokeUsers, SessionUnchanged
<1> QED
  BY <1>1, <1>2, <1>3, <1>4, <1>5

LEMMA ServeKeepsLimits ==
  ASSUME SessionsOK, ProbeIsLive, GuessesOK, NEW p \in Procs, Serve(p)
  PROVE  GuessesOK'
<1>1. CASE RiskAttempt(p) \/ RiskSettle(p) \/ RiskLocal(p)
  BY <1>1, AttemptKeepsLimits, SettleKeepsLimits, LocalKeepsLimits
<1>2. CASE ~(RiskAttempt(p) \/ RiskSettle(p) \/ RiskLocal(p))
  <2>1. Only(p)
    BY ServeLawful DEF Lawful
  <2>2. /\ UNCHANGED <<now, isRedis, riskVars, guesses>>
        /\ procs'[p].pc \in Admitting =>
             procs[p].pc \in Admitting /\ procs'[p].req = procs[p].req
    BY <1>2, ApartSteps DEF Serve
  <2>3. InForce' = InForce
    BY <2>2 DEF InForce, riskVars
  <2>4. ASSUME NEW x \in Accounts PROVE LimitHolds(x)'
    BY <2>1, <2>2, <2>3, QuietLimits
  <2>5. BackendsOK'
    BY <2>2 DEF GuessesOK, BackendsOK, AccountsOK, EntryOK, MemoryShape, RedisShape, riskVars
  <2> QED
    BY <2>2, <2>4, <2>5 DEF GuessesOK
<1> QED
  BY <1>1, <1>2

LEMMA RequestKeepsLimits ==
  ASSUME SessionsOK, GuessesOK, NEW p \in Procs, Request(p)
  PROVE  GuessesOK'
<1>1. Only(p)
  BY RequestLawful DEF Lawful
<1>2. PICK pc \in {"allowCaptcha", "allowLogin", "get", "revokeUsers"} : \E req : Start(p, req, pc)
  <2>1. CASE RequestCaptcha(p)
    BY <2>1 DEF RequestCaptcha
  <2>2. CASE RequestLogin(p)
    BY <2>2 DEF RequestLogin
  <2>3. CASE RequestRevokeUsers(p)
    BY <2>3 DEF RequestRevokeUsers
  <2>4. ASSUME NEW kind, RequestWithToken(p, kind)
        PROVE  \E req : Start(p, req, "get")
    BY <2>4 DEF RequestWithToken
  <2> QED
    BY <2>1, <2>2, <2>3, <2>4 DEF Request
<1>3. UNCHANGED <<now, isRedis, riskVars, guesses>> /\ procs'[p].pc = pc
  BY <1>2 DEF Start, SessionsOK, TypeOK, Idle
<1>4. InForce' = InForce
  BY <1>3 DEF InForce, riskVars
<1>5. ASSUME NEW x \in Accounts PROVE LimitHolds(x)'
  BY <1>1, <1>3, <1>4, QuietLimits DEF Admitting
<1>6. BackendsOK'
  BY <1>3 DEF GuessesOK, BackendsOK, AccountsOK, EntryOK, MemoryShape, RedisShape, riskVars
<1> QED
  BY <1>3, <1>5, <1>6 DEF GuessesOK

LEMMA TickKeepsLimits ==
  ASSUME SessionsOK, GuessesOK, Tick
  PROVE  GuessesOK'
<1>1. /\ now \in Nat /\ now' = now + 1 /\ redis' = RedisExpire(redis, now + 1)
      /\ fallback' = fallback /\ guesses' = NoGuesses
  BY DEF Tick, SessionsOK, TypeOK
<1>2. /\ MemoryShape(fallback) /\ AccountsOK(fallback.accounts)
      /\ AccountsOK(redis.accounts)
  BY DEF GuessesOK, BackendsOK
<1>3. ASSUME NEW accounts \in [Accounts -> AccountEntry \cup {Absent}],
             \A x \in Accounts : EntryOK(accounts[x])
      PROVE  \A x \in Accounts : EntryOK(accounts[x])'
  BY <1>1, <1>3 DEF EntryOK, AccountEntry
<1>4. /\ RedisShape(redis') /\ redis'.accounts \in [Accounts -> AccountEntry \cup {Absent}]
      /\ \A x \in Accounts : redis'.accounts[x] \in {redis.accounts[x], Absent}
  BY <1>1, <1>2 DEF RedisExpire, RedisShape, AccountsOK
<1>5. \A x \in Accounts : EntryOK(redis'.accounts[x])
  BY <1>2, <1>4 DEF AccountsOK, EntryOK
<1>6. BackendsOK'
  <2>1. \A x \in Accounts : EntryOK(redis.accounts[x])'
    BY <1>1, <1>4, <1>5 DEF EntryOK, AccountEntry
  <2>2. \A x \in Accounts : EntryOK(fallback.accounts[x])'
    BY <1>1, <1>2 DEF EntryOK, AccountEntry, AccountsOK
  <2> QED
    BY <1>1, <1>2, <1>4, <2>1, <2>2 DEF BackendsOK, AccountsOK, MemoryShape, RedisShape
<1>7. guesses' \in [Accounts -> Nat]
  BY <1>1 DEF NoGuesses
<1> QED
  BY <1>1, <1>6, <1>7, LimitStarts DEF GuessesOK

LEMMA InitLimits == Init => GuessesOK
<1> SUFFICES ASSUME Init PROVE GuessesOK
  OBVIOUS
<1>1. /\ guesses = NoGuesses /\ procs = [p \in Procs |-> Idle]
      /\ redis \in {EmptyRedis, [EmptyRedis EXCEPT !.captchas = InitCaptchas,
                                                  !.clients = [c \in Clients |-> 1 + CaptchaTTL]]}
      /\ fallback \in {EmptyMemory, [EmptyMemory EXCEPT !.captchas = InitCaptchas]}
  BY DEF Init
<1>2. /\ MemoryShape(fallback) /\ RedisShape(redis)
      /\ fallback.accounts = [a \in Accounts |-> Absent]
      /\ redis.accounts = [a \in Accounts |-> Absent]
  <2>1. /\ MemoryShape(EmptyMemory) /\ EmptyMemory.accounts = [a \in Accounts |-> Absent]
        /\ RedisShape(EmptyRedis) /\ EmptyRedis.accounts = [a \in Accounts |-> Absent]
    BY DEF EmptyMemory, EmptyRedis, MemoryShape, RedisShape
  <2>2. ASSUME NEW st, MemoryShape(st), NEW captchas
        PROVE  /\ MemoryShape([st EXCEPT !.captchas = captchas])
               /\ [st EXCEPT !.captchas = captchas].accounts = st.accounts
    BY <2>2 DEF MemoryShape
  <2>3. ASSUME NEW st, RedisShape(st), NEW captchas, NEW clients
        PROVE  /\ RedisShape([st EXCEPT !.captchas = captchas, !.clients = clients])
               /\ [st EXCEPT !.captchas = captchas, !.clients = clients].accounts = st.accounts
    <3>1. PICK one : one = [st EXCEPT !.captchas = captchas]
      OBVIOUS
    <3>2. RedisShape(one) /\ one.accounts = st.accounts
      BY <2>3, <3>1 DEF RedisShape
    <3>3. PICK two : two = [one EXCEPT !.clients = clients]
      OBVIOUS
    <3>4. RedisShape(two) /\ two.accounts = one.accounts
      BY <3>2, <3>3 DEF RedisShape
    <3>5. [st EXCEPT !.captchas = captchas, !.clients = clients] = two
      BY <3>1, <3>3
    <3> QED
      BY <3>2, <3>4, <3>5
  <2>4. MemoryShape(fallback) /\ fallback.accounts = EmptyMemory.accounts
    <3>1. PICK st : st = EmptyMemory
      OBVIOUS
    <3>2. fallback \in {st, [st EXCEPT !.captchas = InitCaptchas]}
      BY <1>1, <3>1
    <3>3. MemoryShape(st)
      BY <2>1, <3>1
    <3>4. /\ MemoryShape([st EXCEPT !.captchas = InitCaptchas])
          /\ [st EXCEPT !.captchas = InitCaptchas].accounts = st.accounts
      BY <2>2, <3>3, Zenon
    <3> QED
      BY <3>1, <3>2, <3>3, <3>4
  <2>5. RedisShape(redis) /\ redis.accounts = EmptyRedis.accounts
    <3>1. PICK st, clients : st = EmptyRedis /\ clients = [c \in Clients |-> 1 + CaptchaTTL]
      OBVIOUS
    <3>2. redis \in {st, [st EXCEPT !.captchas = InitCaptchas, !.clients = clients]}
      BY <1>1, <3>1
    <3>3. RedisShape(st)
      BY <2>1, <3>1
    <3>4. /\ RedisShape([st EXCEPT !.captchas = InitCaptchas, !.clients = clients])
          /\ [st EXCEPT !.captchas = InitCaptchas, !.clients = clients].accounts = st.accounts
      BY <2>3, <3>3, Zenon
    <3> QED
      BY <3>1, <3>2, <3>3, <3>4
  <2> QED
    BY <2>1, <2>4, <2>5
<1>3. BackendsOK
  BY <1>2 DEF BackendsOK, AccountsOK, EntryOK
<1>4. guesses \in [Accounts -> Nat] /\ \A a \in Accounts : guesses[a] = 0
  BY <1>1 DEF NoGuesses
<1>5. \A a \in Accounts : ~Locked(InForce[a])
  BY <1>2 DEF InForce, Locked
<1> QED
  BY <1>3, <1>4, <1>5 DEF GuessesOK, LimitHolds

\* Until the clock moves, Redis fails or comes back, or a right password clears
\* the failures, at most FailureLimit wrong passwords of an account are answered
\* and one more per other goroutine (AllowLogin and RecordLoginFailure of
\* risk/risk.go), whichever backend counts them and whatever answers are lost.
THEOREM GuessesLimited == Spec => []GuessesBounded
<1>1. Init => Inv /\ GuessesOK
  BY InitOK, InitLimits
<1>2. Inv /\ GuessesOK /\ [Next]_vars => Inv' /\ GuessesOK'
  <2> SUFFICES ASSUME Inv, GuessesOK, [Next]_vars PROVE GuessesOK'
    BY NextOK
  <2>1. SessionsOK /\ ProbeIsLive
    BY DEF Inv
  <2>2. CASE Tick
    BY <2>1, <2>2, TickKeepsLimits
  <2>3. ASSUME NEW p \in Procs, Request(p) PROVE GuessesOK'
    BY <2>1, <2>3, RequestKeepsLimits
  <2>4. ASSUME NEW p \in Procs, Serve(p) PROVE GuessesOK'
    BY <2>1, <2>4, ServeKeepsLimits
  <2>5. CASE UNCHANGED vars
    <3>1. UNCHANGED <<now, isRedis, redis, fallback, degradedUntil, procs, guesses>>
      BY <2>5 DEF vars, riskVars
    <3>2. InForce' = InForce /\ \A x : Admitted(x)' = Admitted(x)
      BY <3>1 DEF InForce, Admitted
    <3>3. BackendsOK'
      BY <3>1 DEF GuessesOK, BackendsOK, AccountsOK, EntryOK, MemoryShape, RedisShape
    <3>4. \A x \in Accounts : LimitHolds(x)'
      BY <3>1, <3>2 DEF GuessesOK, LimitHolds, Locked
    <3> QED
      BY <3>1, <3>3, <3>4 DEF GuessesOK
  <2> QED
    BY <2>2, <2>3, <2>4, <2>5 DEF Next
<1>3. GuessesOK => GuessesBounded
  <2> SUFFICES ASSUME GuessesOK, NEW a \in Accounts
               PROVE  guesses[a] <= FailureLimit + Cardinality(Procs) - 1
    BY DEF GuessesBounded
  <2>1. guesses[a] \in Nat /\ LimitHolds(a) /\ EntryOK(InForce[a])
    BY DEF GuessesOK, BackendsOK, AccountsOK, InForce
  <2>2. Cardinality(Procs) \in Nat /\ Cardinality(Admitted(a)) \in Nat
    BY AdmittedFacts
  <2>3. CASE Locked(InForce[a])
    BY <2>1, <2>2, <2>3, LimitFacts DEF LimitHolds
  <2>4. CASE ~Locked(InForce[a])
    <3>1. guesses[a] = 0 \/ guesses[a] < FailureLimit
      BY <2>1, <2>4, LimitFacts DEF LimitHolds, Locked, EntryOK, AccountEntry
    <3> QED
      BY <2>1, <2>2, <3>1, LimitFacts
  <2> QED
    BY <2>3, <2>4
<1> QED
  BY <1>1, <1>2, <1>3, PTL DEF Spec
=============================================================================
