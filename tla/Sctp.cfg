CONSTANTS
  Half = 8
  FirstTsn = 14
  Window = 2
  MaxStreams = 2
  MaxSent = 3
  HubInits = 1
  Payload <- MCPayload
SPECIFICATION FairSpec
INVARIANTS
  AckedIsHandled
  TableIsUnambiguous
  SettledIsFinal
PROPERTIES
  EverythingSettles
CHECK_DEADLOCK FALSE
