SPECIFICATION FairSpec
CONSTANTS
  Messages = {m1}
  Slots = {s1, s2}
  ConsumerMaxAttempts = 2
  MaxPublishes = 2
  MaxReplays = 1
  MaxFaults = 2
INVARIANTS
  EffectOnce
  NothingDropped
  RunsWithinBudget
PROPERTY
  EventuallyDecided
CHECK_DEADLOCK FALSE
