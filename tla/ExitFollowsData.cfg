\* Refuted: the subject of a finding.  The program ends: the system may stop.
SPECIFICATION Spec
CHECK_DEADLOCK FALSE
CONSTANTS
  MaxUnits = 2
  Window = 1
  Retain = 2
  MaxConns = 1
  MaxRefusals = 1
INVARIANT ExitFollowsData
