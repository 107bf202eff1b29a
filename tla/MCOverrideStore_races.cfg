\* Three writers at any pace; they crash, the disk fills up, the log fails.
SPECIFICATION Spec
CONSTANTS
  Writers = {w1, w2, w3}
  Keys = {k1, k2}
  None = None
  Disturbances = {"crash", "diskfull", "auditfails"}
SYMMETRY Symmetry
INVARIANTS
  TypeOK
  TornOnlyByOverlap
  UndisturbedAddsStay
  UnloggedIsExplained
  ConfigIsKept
\* Each writer runs once.
CHECK_DEADLOCK FALSE
