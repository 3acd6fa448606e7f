SPECIFICATION FairSpec
CONSTANTS
  d1 = d1
  b1 = b1
  Devices <- OneDevice
  NoDevice = NoDevice
  Controls <- OneControl
  Values <- Bits
  Rest = 0
  MaxQueue = 6
  MaxFaults = 1
INVARIANTS
  TypeOK
  Framed
  NoStreamNoInput
  CatchesUp
  RefreshTells
PROPERTIES
  Settles
  KeepsToService
