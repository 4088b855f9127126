SPECIFICATION Spec
SYMMETRY SomeGoroutine
CONSTANTS
  Goroutines = {g1, g2}
  Ids = {1, 2, 3, 4, 5, 6, 7, 8}
  Records = {1, 2, 3}
  Entity = "note"
  Descriptor <- SmallDescriptor
  Stored <- SmallStored
  Limits <- SmallLimits
  Options <- SmallOptions
  Inputs <- SmallInputs
  FoundRows <- SmallFound
  FoundRecords <- SmallRecords
  Settings <- SmallSettings
  NextKeys <- SmallKeys
  Values <- SmallValues
  Null = Null
  Bad = Bad
  None = None
  Server = 9
  MaxRestoreCount = 3
  Clock = 8
  MaxJoins = 2
  MaxNodes = 16
  MaxBindings = 8
  MaxRequests = 2
  MaxFaults = 1
INVARIANTS
  RowsConserved
  AnswersMatchCommits
  ClientsNeverWriteProtected
  AnswersWithinPolicy
