CONSTANTS
  Image = {a, b}
  Factory = a
  Torn = Torn
  NoSlot = NoSlot
  FlipAt = 3
  CountCap = 4
SPECIFICATION Spec
PROPERTY PlainRestartNeverHolds
