SPECIFICATION Spec
CONSTANTS
  Data = {d1, d2}
  MaxEntries = 3
  MaxEdits = 3
  Kinds = {"field", "delete", "swap", "copy", "reencode", "blank", "truncate"}
INVARIANT VerifiedLinesAreOriginal

\* The file is edited MaxEdits times and then left alone.
CHECK_DEADLOCK FALSE
