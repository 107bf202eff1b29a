\* What is allowed, of a command whose readings differ.
SPECIFICATION Spec
CONSTANTS
  Calls = {c1}
  Commands <- MCTwoReadings
  Segments = {}
  Configs <- MCConfigs
  Disturbances = {}
  MaxEdits = 0
INVARIANT EitherReadingIsVetted
