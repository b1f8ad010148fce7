CONSTANTS
  Url = {u1, u2}
  Malformed = Malformed
  NoUrl = NoUrl
  Baked = Baked
  Threshold = 3
SPECIFICATION FairSpec
INVARIANTS
  StoreAndPolicyAgree
  DemotionEarned
  WrongPeerIsLeaving
PROPERTIES
  EndsUpOnRightUrl
