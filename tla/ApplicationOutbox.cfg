SPECIFICATION Spec
SYMMETRY MCInstances
CONSTANTS
  Absent = Absent
  Dynamic = Dynamic
  Instances = {i1, i2}
  Malformed <- MCMalformed
  Spelling <- MCSpelling
  Numerals <- MCNumerals
  Types <- MCTypes
  Projects <- OutboxProjects
  Settings <- MCSettings
  Legacy <- MCLegacy
  SeedLock = "cool_seed_lock"
  SeedKey = "uk_cool_seed_lock_key"
  MaxReleases = 1
  MaxBoots = 1
  MaxFaults = 0
INVARIANT AcceptedProjectBoots
