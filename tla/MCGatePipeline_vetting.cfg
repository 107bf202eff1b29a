\* One check after another of a version and of Latest; overrides, audit failures.
SPECIFICATION FairSpec
CONSTANTS
  Checks = {c1}
  Latest = 0
  Requests = {0, 2}
  Remote = {2}
  Second = 2
  Day = 2
  MinCooldownDays = 1
  DefaultCooldownDays = 2
  RawCooldowns <- Cooldowns
  CacheKeys = {"installed"}
  PassTTL = 2
  OverrideTTL = 3
  Disturbances = {"override", "auditfails", "gate8off"}
  MaxVersion = 2
  MaxEdits = 1
  MaxTime = 5
INVARIANT AllowIsVetted
PROPERTY BlockedVersionsClear
