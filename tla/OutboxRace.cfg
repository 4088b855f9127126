SPECIFICATION Spec
CONSTANTS
  Messages = {m1}
  Tokens = {1, 2, 3}
  NoToken = NoToken
  LeaseDuration = 2
  Retention = 1
  Workers = {w1, w2}
  BatchSize = 1
  PublishTimeout = 1
  PublishMaxAttempts = 2
  PublishRetryBase = 1
  PublishRetryMax = 1
  LeaseBound = 3
  MaxFaults = 2
INVARIANTS
  NoLossBeforeBroker
  AttemptsWithinLimit
  ClaimsAreExclusive
  OnePublisherAtATime
  ClaimColumnsMatchStatus
PROPERTIES
  ImplementsStore
  LiveClaimEndedByHolderOnly
  SentIsFinal
SYMMETRY InterchangeableWorkers
