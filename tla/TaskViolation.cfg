SPECIFICATION Spec
CONSTANTS
  Instances = {i1}
  Names = {1, 2, 3}
  None = None
  LeaseDuration = 2
  RenewInterval = 1
  MaxEvents = 2
  MaxFaults = 0
INVARIANT
  RunningTaskIsScheduled
CHECK_DEADLOCK FALSE
