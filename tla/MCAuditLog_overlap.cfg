\* Three processes that may overlap, every write fault.
SPECIFICATION Spec
CONSTANTS
  Procs = {p1, p2, p3}
  Data = {d1}
  Overlap = TRUE
  Faults = {"fail", "partial", "nonewline"}
  MaxLines = 4
SYMMETRY Symmetry
INVARIANTS
  TypeOK
  RacesLookLikeRaces
  AckedKept
PROPERTY TornLineIsFinal
\* When no command runs, nothing appends: the log may rest, and the bound
\* MaxLines stops new calls.
CHECK_DEADLOCK FALSE
