---------------------------- MODULE RiskControl -----------------------------
(***************************************************************************)
(* The two backends of the login risk control (cool-next/risk): operators  *)
(* from a backend's state to [res, st], its answer and its next state. The *)
(* memory backend runs each method under one mutex, the Redis backend runs *)
(* each as one Lua script, so every operator is one atomic step.           *)
(*                                                                         *)
(* Digests of addresses and accounts are the model's clients and accounts. *)
(* A captcha answer is right or wrong (a BOOLEAN of the request); the      *)
(* indexes captchasByClient, captcha:index, captcha:client:* and           *)
(* state:accounts only repeat the captchas and accounts they index, so     *)
(* their sizes are counted from those.                                     *)
(***************************************************************************)
EXTENDS Integers, FiniteSets, FiniteSetsExt

CONSTANTS
  Clients, Accounts, Captchas,
  Absent,            \* no entry under a key
  ClientCapacity, AccountCapacity,
  CaptchaTTL, CaptchaCapacity, OutstandingPerIP, CaptchaRateLimit, CaptchaRateWindow,
  IPRateLimit, IPRateWindow, FailureLimit, FailureWindow, LockBase, LockMax

\* Config.Validate: every limit is positive and the pairs are ordered.
ConfigValid ==
  /\ \A n \in {ClientCapacity, AccountCapacity, CaptchaTTL, CaptchaCapacity,
               OutstandingPerIP, CaptchaRateLimit, CaptchaRateWindow, IPRateLimit,
               IPRateWindow, FailureLimit, FailureWindow, LockBase, LockMax} : n \in Nat \ {0}
  /\ CaptchaCapacity >= OutstandingPerIP
  /\ LockBase <= LockMax

ASSUME RiskConfig == ConfigValid

\* No entry differs from every entry of an account.
ASSUME RiskAbsent == Absent \notin [exp : Nat, failures : Nat, lock : Nat, last : Nat]

Live(entry, now) == entry # Absent /\ entry.exp > now

Answer(res, st) == [res |-> res, st |-> st]

\* riskLockDuration: LockBase doubled once per failure beyond the limit, as
\* long as that stays within LockMax.
riskLockDuration(failures) ==
  LET steps == failures - FailureLimit
      doubled == LockBase * 2 ^ (IF steps > 0 THEN steps ELSE 0)
  IN  IF doubled \in LockBase..LockMax THEN doubled ELSE LockMax

-----------------------------------------------------------------------------
(* The memory backend.                                                     *)

Window(count, exp) == [exp |-> exp, count |-> count]

NoWindow == Window(0, 0)

\* newMemoryBackend: nothing is known of anyone.
EmptyMemory ==
  [captchas |-> [k \in Captchas |-> Absent],
   clients |-> [c \in Clients |-> Absent],
   accounts |-> [a \in Accounts |-> Absent]]

increaseRiskWindow(w, now, duration) ==
  IF w.exp > now THEN Window(w.count + 1, w.exp) ELSE Window(1, now + duration)

resetRiskWindow(w, now) == IF w.exp > now THEN w ELSE NoWindow

\* removeCaptchaLocked for every captcha in ids.
RemoveCaptchas(st, ids) ==
  [st EXCEPT !.captchas = [k \in Captchas |-> IF k \in ids THEN Absent ELSE @[k]]]

CaptchasOf(st, c) == {k \in Captchas : st.captchas[k] # Absent /\ st.captchas[k].client = c}

AllCaptchas(st) == {k \in Captchas : st.captchas[k] # Absent}

Expired(st, ids, now) == {k \in ids : st.captchas[k].exp <= now}

cleanCaptchasLocked(st, c, now) == RemoveCaptchas(st, Expired(st, CaptchasOf(st, c), now))

cleanAllLocked(st, now) == RemoveCaptchas(st, Expired(st, AllCaptchas(st), now))

\* cleanClientLocked: ended windows are reset, and a client with nothing left goes.
cleanClientLocked(st, c, now) ==
  IF st.clients[c] = Absent THEN st
  ELSE LET cleaned == cleanCaptchasLocked(st, c, now)
           state == [captcha |-> resetRiskWindow(st.clients[c].captcha, now),
                     login |-> resetRiskWindow(st.clients[c].login, now)]
           isIdle == state.captcha.count = 0 /\ state.login.count = 0
                       /\ CaptchasOf(cleaned, c) = {}
       IN  [cleaned EXCEPT !.clients[c] = IF isIdle THEN Absent ELSE state]

\* cleanClientsLocked: cleanClientLocked for every client; the clients do not
\* affect each other, so all are cleaned at once.
cleanClientsLocked(st, now) ==
  LET all == cleanAllLocked(st, now)
  IN  [all EXCEPT !.clients = [c \in Clients |-> cleanClientLocked(all, c, now).clients[c]]]

ClientCount(st) == Cardinality({c \in Clients : st.clients[c] # Absent})

\* clientLocked: the client's entry, made when there is room for one.
clientLocked(st, c, now) ==
  LET own == cleanClientLocked(st, c, now)
      room == IF ClientCount(own) >= ClientCapacity THEN cleanClientsLocked(own, now) ELSE own
      new == [room EXCEPT !.clients[c] = [captcha |-> NoWindow, login |-> NoWindow]]
  IN  IF own.clients[c] # Absent THEN Answer("allowed", own)
      ELSE IF ClientCount(room) >= ClientCapacity THEN Answer("limited", room)
      ELSE Answer("allowed", new)

\* The part shared by allowCaptcha and saveCaptcha: room for one more captcha.
CaptchaRoom(st, c, now) ==
  LET own == cleanCaptchasLocked(st, c, now)
      all == IF Cardinality(AllCaptchas(own)) >= CaptchaCapacity
             THEN cleanAllLocked(own, now) ELSE own
  IN  IF Cardinality(CaptchasOf(own, c)) >= OutstandingPerIP THEN Answer("limited", own)
      ELSE IF Cardinality(AllCaptchas(all)) >= CaptchaCapacity THEN Answer("limited", all)
      ELSE Answer("allowed", all)

MemAllowCaptcha(st, c, now) ==
  LET client == clientLocked(st, c, now)
      window == increaseRiskWindow(client.st.clients[c].captcha, now, CaptchaRateWindow)
      counted == [client.st EXCEPT !.clients[c].captcha = window]
  IN  IF client.res = "limited" THEN client
      ELSE IF window.count > CaptchaRateLimit THEN Answer("limited", counted)
      ELSE CaptchaRoom(counted, c, now)

MemSaveCaptcha(st, c, k, now) ==
  LET client == clientLocked(st, c, now)
      room == CaptchaRoom(client.st, c, now)
  IN  IF st.captchas[k] # Absent THEN Answer("conflict", st)
      ELSE IF client.res = "limited" THEN client
      ELSE IF room.res = "limited" THEN room
      ELSE Answer("allowed", [room.st EXCEPT !.captchas[k] = [client |-> c, exp |-> now + CaptchaTTL]])

MemConsumeCaptcha(st, k, isRight, now) ==
  IF st.captchas[k] # Absent /\ st.captchas[k].exp > now /\ isRight
  THEN Answer("matched", RemoveCaptchas(st, {k}))
  ELSE Answer("notMatched", RemoveCaptchas(st, {k}))

MemAllowLogin(st, c, a, now) ==
  LET client == clientLocked(st, c, now)
      window == increaseRiskWindow(client.st.clients[c].login, now, IPRateWindow)
      counted == [client.st EXCEPT !.clients[c].login = window]
      account == counted.accounts[a]
  IN  IF client.res = "limited" THEN client
      ELSE IF window.count > IPRateLimit THEN Answer("limited", counted)
      ELSE IF account = Absent THEN Answer("allowed", counted)
      ELSE IF account.exp <= now THEN Answer("allowed", [counted EXCEPT !.accounts[a] = Absent])
      ELSE Answer(IF account.lock > now THEN "limited" ELSE "allowed", counted)

\* The account entry after one more failure; both backends compute it alike.
FailedAgain(account, now) ==
  LET isStale == account = Absent \/ now - account.last >= FailureWindow
      failures == (IF isStale THEN 0 ELSE account.failures) + 1
      lock == IF failures >= FailureLimit THEN now + riskLockDuration(failures)
              ELSE IF account = Absent THEN 0 ELSE account.lock
  IN  [exp |-> Max({now + FailureWindow, lock}), failures |-> failures, lock |-> lock,
       last |-> now]

MemRecordLoginFailure(st, a, now) ==
  LET known == Live(st.accounts[a], now)
      own == IF known THEN st ELSE [st EXCEPT !.accounts[a] = Absent]
      count(s) == Cardinality({x \in Accounts : s.accounts[x] # Absent})
      cleaned == [own EXCEPT !.accounts =
                    [x \in Accounts |-> IF Live(@[x], now) THEN @[x] ELSE Absent]]
      room == IF ~known /\ count(own) >= AccountCapacity THEN cleaned ELSE own
  IN  IF ~known /\ count(room) >= AccountCapacity THEN Answer("limited", room)
      ELSE IF known /\ st.accounts[a].lock > now THEN Answer("allowed", st)
      ELSE Answer("allowed", [room EXCEPT !.accounts[a] = FailedAgain(room.accounts[a], now)])

MemClearLoginFailure(st, a) == Answer("allowed", [st EXCEPT !.accounts[a] = Absent])

-----------------------------------------------------------------------------
(* The Redis backend: keys expire by themselves, so RedisExpire is applied *)
(* when time passes and the scripts only meet live keys.                   *)

EmptyRedis ==
  [captcha |-> [c \in Clients |-> NoWindow],
   captchas |-> [k \in Captchas |-> Absent],
   clients |-> [c \in Clients |-> 0],          \* scores of state:clients
   accounts |-> [a \in Accounts |-> Absent],
   login |-> [c \in Clients |-> NoWindow]]

RedisExpire(st, now) ==
  [captcha |-> [c \in Clients |-> resetRiskWindow(st.captcha[c], now)],
   captchas |-> [k \in Captchas |-> IF Live(st.captchas[k], now) THEN st.captchas[k] ELSE Absent],
   clients |-> [c \in Clients |-> IF st.clients[c] > now THEN st.clients[c] ELSE 0],
   accounts |-> [a \in Accounts |-> IF Live(st.accounts[a], now) THEN st.accounts[a] ELSE Absent],
   login |-> [c \in Clients |-> resetRiskWindow(st.login[c], now)]]

\* A client that state:clients does not know is refused when the set is full.
RedisClientRefused(st, c) ==
  /\ st.clients[c] = 0
  /\ Cardinality({x \in Clients : st.clients[x] # 0}) >= ClientCapacity

ScoreAtLeast(st, c, exp) == [st EXCEPT !.clients[c] = Max({@, exp})]

allowCaptchaScript(st, c, now) ==
  LET window == increaseRiskWindow(st.captcha[c], now, CaptchaRateWindow)
      counted == ScoreAtLeast([st EXCEPT !.captcha[c] = window], c, window.exp)
      isFull == \/ window.count > CaptchaRateLimit
                \/ Cardinality(AllCaptchas(st)) >= CaptchaCapacity
                \/ Cardinality(CaptchasOf(st, c)) >= OutstandingPerIP
  IN  IF RedisClientRefused(st, c) THEN Answer("limited", st)
      ELSE Answer(IF isFull THEN "limited" ELSE "allowed", counted)

saveCaptchaScript(st, c, k, now) ==
  IF st.captchas[k] # Absent THEN Answer("conflict", st)
  ELSE IF \/ RedisClientRefused(st, c)
          \/ Cardinality(AllCaptchas(st)) >= CaptchaCapacity
          \/ Cardinality(CaptchasOf(st, c)) >= OutstandingPerIP
  THEN Answer("limited", st)
  ELSE Answer("allowed",
         ScoreAtLeast([st EXCEPT !.captchas[k] = [client |-> c, exp |-> now + CaptchaTTL]],
                      c, now + CaptchaTTL))

useCaptchaScript(st, k, isRight) ==
  Answer(IF st.captchas[k] # Absent /\ isRight THEN "matched" ELSE "notMatched",
         RemoveCaptchas(st, {k}))

allowLoginScript(st, c, a, now) ==
  LET window == increaseRiskWindow(st.login[c], now, IPRateWindow)
      counted == ScoreAtLeast([st EXCEPT !.login[c] = window], c, window.exp)
      isLocked == st.accounts[a] # Absent /\ st.accounts[a].lock > now
  IN  IF RedisClientRefused(st, c) THEN Answer("limited", st)
      ELSE Answer(IF window.count > IPRateLimit \/ isLocked THEN "limited" ELSE "allowed", counted)

\* Mutant of recordLoginScript: the failures of an earlier call are not read back.
recordLoginForgetful(st, a, now) ==
  Answer("allowed", [st EXCEPT !.accounts[a] =
                       [FailedAgain(Absent, now) EXCEPT !.lock = 0]])

recordLoginScript(st, a, now) ==
  LET account == st.accounts[a]
      known == Cardinality({x \in Accounts : st.accounts[x] # Absent})
      again == FailedAgain(account, now)
      unlocked == IF again.failures < FailureLimit
                  THEN [again EXCEPT !.lock = 0] ELSE again
  IN  IF account = Absent /\ known >= AccountCapacity THEN Answer("limited", st)
      ELSE IF account # Absent /\ account.lock > now THEN Answer("allowed", st)
      ELSE Answer("allowed", [st EXCEPT !.accounts[a] = unlocked])

clearLoginScript(st, a) == Answer("allowed", [st EXCEPT !.accounts[a] = Absent])
=============================================================================
