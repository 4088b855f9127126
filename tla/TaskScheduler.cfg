SPECIFICATION FairSpec
CONSTANTS
  Instances = {i1, i2}
  Names = {1, 2, 3}
  None = None
  LeaseDuration = 2
  RenewInterval = 1
  MaxEvents = 2
  MaxFaults = 2
INVARIANTS
  OneEntryPerTask
  OneRunAtATime
PROPERTIES
  LeaseEndedByOwner
  ResidualEntryGoes
CHECK_DEADLOCK FALSE
