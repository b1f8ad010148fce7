CONSTANTS
  Image = {a, b}
  Factory = a
  Torn = Torn
  NoSlot = NoSlot
  FlipAt = 2
  CountCap = 2
SPECIFICATION FairSpec
INVARIANTS
  RunningSlotIsWhole
  OneFlipPerPowerCycle
  ProvenBeforeConfirmed
PROPERTIES
  FlipIsEarned
  CrashLoopHandsOver
