\* A report takes over the row of a heartbeat that the home has imported already.
CONSTANTS
  Sends = {"heartbeat", "succeeded"}
  Limit = 1
  Window = 1
  MaxSends = 2
  MaxMail = 0
  MaxFaults = 1
SPECIFICATION Spec
CHECK_DEADLOCK FALSE
INVARIANTS
  AckedRowIsImported
