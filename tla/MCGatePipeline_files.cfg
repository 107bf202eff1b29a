\* Two checks of one version at once; config.json and the cache files change.
SPECIFICATION Spec
CONSTANTS
  Checks = {c1, c2}
  Latest = 0
  Requests = {1}
  Remote = {}
  Second = 2
  Day = 2
  MinCooldownDays = 1
  DefaultCooldownDays = 2
  RawCooldowns <- Cooldowns
  CacheKeys = {"installed", "none"}
  PassTTL = 2
  OverrideTTL = 3
  Disturbances = {"config", "cachefile", "outage"}
  MaxVersion = 1
  MaxEdits = 1
  MaxTime = 4
SYMMETRY Symmetry
INVARIANTS
  TypeOK
  PassIsMature
  CacheTellsTruth
