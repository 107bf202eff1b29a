\* One check after another without a version, two versions.
SPECIFICATION Spec
CONSTANTS
  Checks = {c1}
  Latest = 0
  Requests = {0}
  Remote = {}
  Second = 2
  Day = 2
  MinCooldownDays = 1
  DefaultCooldownDays = 2
  RawCooldowns <- Cooldowns
  CacheKeys = {"installed"}
  PassTTL = 6
  OverrideTTL = 3
  Disturbances = {}
  MaxVersion = 2
  MaxEdits = 0
  MaxTime = 8
INVARIANT CachedPassHolds
