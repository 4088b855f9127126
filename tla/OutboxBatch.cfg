SPECIFICATION FairSpec
CONSTANTS
  Messages = {m1, m2}
  Tokens = {1, 2}
  NoToken = NoToken
  LeaseDuration = 2
  Retention = 1
  Workers = {w1}
  BatchSize = 2
  PublishTimeout = 1
  PublishMaxAttempts = 2
  PublishRetryBase = 1
  PublishRetryMax = 1
  LeaseBound = 3
  MaxFaults = 1
PROPERTIES
  EventuallySettled
  StopTerminates
