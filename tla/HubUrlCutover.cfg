CONSTANTS
  Url = {u1}
  Malformed = Malformed
  NoUrl = NoUrl
  Baked = Baked
  Threshold = 3
SPECIFICATION Spec
INVARIANT OneCutoverDial
