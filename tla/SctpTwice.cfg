CONSTANTS
  Half = 8
  FirstTsn = 14
  Window = 2
  MaxStreams = 2
  MaxSent = 3
  HubInits = 1
  Payload <- MCPayload
SPECIFICATION Spec
PROPERTY
  NothingTwice
CHECK_DEADLOCK FALSE
