CONSTANTS
  LastFrame = 5
  Dials = 2
  SeqMod = 13
  Bases = {11}
  MinGap = 2
  MaxSeqs = 2
  MaxGap = 3
  Slots = 3
  Wait = 1
  RedReach = 1
  BreakerMinSent = 2
  BreakerPercent = 20
SPECIFICATION Spec
INVARIANTS
  OneOfThemFires
CHECK_DEADLOCK FALSE
