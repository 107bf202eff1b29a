SPECIFICATION Spec
CONSTANTS
  Ecosystems = {"npm", "pypi"}
  MinCooldownDays = 1
  DefaultCooldownDays = 14
  DayTicks = 4
  HalfModulus = 128
  Values <- LargeValues
INVARIANT NeverBelowFloor
