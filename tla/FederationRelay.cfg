\* Contradicting reports, a stop and two faults, over a relay of two rows.
CONSTANTS
  Sends = {"heartbeat", "succeeded", "failed"}
  Limit = 2
  Window = 2
  MaxSends = 3
  MaxMail = 0
  MaxFaults = 2
SPECIFICATION Spec
CHECK_DEADLOCK FALSE
INVARIANTS
  TypeOK
  InOrder
  AckedIsImported
  CheckpointIsSound
  NoSplitVerdict
