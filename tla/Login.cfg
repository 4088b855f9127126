SPECIFICATION Spec
CONSTANTS
  c1 = c1
  px = px
  k1 = k1
  k2 = k2
  k3 = k3
  None = None
  Absent = Absent
  Clients = {c1}
  Accounts = {u1}
  Users = {u1}
  Captchas = {k1, k2, k3}
  Proxies = {px}
  Origins <- MCOrigins
  InitCaptchas <- MCInitCaptchas
  Procs = {p1, p2}
  SessionIds = {s1, s2}
  ClientCapacity = 1
  AccountCapacity = 1
  CaptchaTTL = 1
  CaptchaCapacity = 3
  OutstandingPerIP = 3
  CaptchaRateLimit = 1
  CaptchaRateWindow = 1
  IPRateLimit = 3
  IPRateWindow = 1
  FailureLimit = 1
  FailureWindow = 2
  LockBase = 1
  LockMax = 2
  AccessTTL = 1
  RefreshTTL = 2
  ClockSkew = 0
  RedisCooldown = 1
  MaxNow = 2
  MaxPairs = 3
  MaxRequests = 3
  MaxFaults = 1
SYMMETRY Symmetry
CHECK_DEADLOCK FALSE
INVARIANTS
  TheftDetected
  ProbeIsLive
  GuessesBounded
PROPERTY
  ImplementsSessionStore
