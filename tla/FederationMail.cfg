\* Two reports and two messages to the worker, one fault, fair servers.
CONSTANTS
  Sends = {"heartbeat", "succeeded", "mismatched"}
  Limit = 2
  Window = 2
  MaxSends = 2
  MaxMail = 2
  MaxFaults = 1
SPECIFICATION FairSpec
CHECK_DEADLOCK FALSE
PROPERTIES
  MailImplementsChannel
  Relayed
  MailDelivered
