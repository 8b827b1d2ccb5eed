\* The program ends and the connections are used up: the system may stop.
SPECIFICATION FairSpec
CHECK_DEADLOCK FALSE
CONSTANTS
  MaxUnits = 5
  Window = 2
  Retain = 4
  MaxConns = 3
  MaxRefusals = 1
INVARIANTS TypeOK StreamIsExact NothingReclaimedEarly ExitOnce SendsWhatItCan
PROPERTIES ImplementsStream PendingExitRetired LiveCatchesUp
