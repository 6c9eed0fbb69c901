CONSTANTS
  c1 = c1
  c2 = c2
  c3 = c3
  p1 = p1
  p2 = p2
  Channel = {c1, c2, c3}
  Known = {c1, c2}
  Programme = {p1, p2}
  Guide <- MCGuide
  MaxText = 2
  NoChannel = NoChannel
SPECIFICATION FairSpec
INVARIANTS
  OwnDetails
  SocketBetweenCalls
PROPERTIES
  RoundsGoOn
