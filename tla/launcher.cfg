SPECIFICATION FairSpec
CONSTANTS
  s1 = s1
  s2 = s2
  b1 = b1
  b2 = b2
  b3 = b3
  Starters <- TwoStarters
  Bridges <- ThreeBridges
  NoBridge = NoBridge
  MaxWait = 1
  MaxEnds = 2
INVARIANTS
  TypeOK
  OneBridge
  ServingIsReachable
PROPERTIES
  StartedIsOwn
  Recovers
