\* Calls that do not overlap; a write may fail or stop inside the line.
SPECIFICATION Spec
CONSTANTS
  Procs = {p1, p2}
  Data = {d1, d2}
  Overlap = FALSE
  Faults = {"fail", "partial"}
  MaxLines = 4
INVARIANT SerialChain
PROPERTY KeepsTrail
\* As in MCAuditLog_overlap.cfg.
CHECK_DEADLOCK FALSE
