CONSTANTS
  Peer = {p1, p2}
  NoPeer = NoPeer
  MaxFailures = 2
  GraceTicks = 3
  DetachPolls = 2
  FramePolls = 1
  Signals = {"ping", "media"}
SPECIFICATION Spec
PROPERTY GraceUnlessPeerWasHeard
