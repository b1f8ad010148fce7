SPECIFICATION DeviceSpec
CONSTANTS
  RingUnits = 3
  WordMod = 6
  FrameUnits = 1
  SilentFrames = 2
  Prebuffers = {1, 2}
  BootPrebuffer = 1
  DmaLead = 0
  GapFrames = 1
  ClipUnits = 1
  Chime <- ChimeBlocks
  Sound = {0, 1, 2}
  HistoryBlocks = 5
  IdlePad = 2
  MarkTimeout = 4
  Ap = {"a", "b"}
  WifiFaults = 5
  Tunes <- SmallTunes
  TuneOrder <- SmallOrder
  TuneRequests = {3, 9}
  HoleLow = 2
  HoleHigh = 6
  ReplayAttempts = 2
  RedDistance = 3
  RedReach = 3
  BlockMax = 6
  RedCapacity = 9
  BlockHeader = 1
  FrameLengths = {1, 3, 7, 9}
  DnsTries = 2
  DnsBudget = 1
  Zones <- SmallZones
  InFlight = 2
  RtviDepth = 1
  RtviMessages = {"bot-started", "idle", "other"}
  LedTtl = 2
  LedMsMod = 5
INVARIANTS
  DeviceTypeOK
  ChimeCountsOnce
  PromiseKept
  VerdictIsEarned
  PhaseExpires
  NextAttemptOwned
  NoChimeMissed
PROPERTIES
  SpeechIsPlayed
  StationRecovers
  StoredBeatsBake
  RedCarriesLatest
CHECK_DEADLOCK FALSE
