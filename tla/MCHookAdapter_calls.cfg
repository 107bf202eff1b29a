\* Two tool calls at a time, everything that may disturb them.
SPECIFICATION Spec
CONSTANTS
  Calls = {c1, c2}
  Commands <- MCCommands
  Segments <- MCSegments
  Configs <- MCConfigs
  Disturbances = {"payload", "panic", "kill", "stdout"}
  MaxEdits = 2
SYMMETRY Symmetry
INVARIANTS
  TypeOK
  RunsOnlyVetted
  DecisionsAreComplete
  NoNoticeOnceActive
  SegmentsAreReadRight
